------------------------- MODULE KernelLocks_proofs -------------------------
(***************************************************************************)
(* For any number of threads: the waits of the kernel that can never end   *)
(* are the catalogued ones, and threads never wait in a circle.            *)
(*                                                                         *)
(* Both follow from what can be read off the text of a script, wherever a  *)
(* context is in it: which locks it holds there, and that it takes the     *)
(* next one in the order of Rank.                                          *)
(***************************************************************************)
EXTENDS KernelLocks, Integers, TLAPS

\* The order in which locks are taken; the scheduler's has no place in it.
Rank(l) ==
  IF l \in {"logger", "decoder"} THEN 1
  ELSE IF l \in {"parser", "display"} THEN 2
  ELSE IF l \in {"processes", "efi"} THEN 3
  ELSE 4

\* Before step i of script s lock l is held: the next step on it is a release,
\* D being the steps that release.  HeldX is exclusively, HeldS shared.
HeldBy(s, i, l, D) ==
  \E k \in i .. Len(s) : /\ s[k].lock = l /\ s[k].do \in D
                         /\ \A j \in i .. k - 1 : s[j].lock # l
HeldX(s, i, l) == HeldBy(s, i, l, {"unlock", "switch"})
HeldS(s, i, l) == HeldBy(s, i, l, {"unread"})
Held(s, i, l) == HeldX(s, i, l) \/ HeldS(s, i, l)

\* A lock is not taken twice, and in the order of Rank; what is taken inside
\* the scheduler's lock is in X.
TakesInOrder(s, i, X) ==
  /\ s[i].lock \in Locks /\ ~Held(s, i, s[i].lock)
  /\ s[i].lock # "state" =>
       \A h \in Locks \ {"state"} : Held(s, i, h) => Rank(h) < Rank(s[i].lock)
  /\ Held(s, i, "state") => s[i].lock \in X

\* Step i of the script does to the locks what HeldX and HeldS say.
Fine(s, i, X) ==
  CASE s[i].do = "lock" -> TakesInOrder(s, i, X) /\ HeldX(s, i + 1, s[i].lock)
    [] s[i].do = "read" -> TakesInOrder(s, i, X) /\ HeldS(s, i + 1, s[i].lock)
    [] s[i].do = "try" -> /\ s[i].lock = "state" /\ HeldX(s, i + 1, "state")
                          /\ \A h \in Locks : ~Held(s, i, h)
    [] s[i].do = "switch" -> s[i].lock = "state" /\ ~Held(s, i + 1, "state")
    [] s[i].do \in {"unlock", "unread"} -> /\ s[i].lock \in Locks /\ ~Held(s, i + 1, s[i].lock)
                                           /\ s[i].do = "unread" => s[i].lock # "state"
    [] s[i].do = "maybe" ->
         /\ s[i].lock = "" /\ i + s[i].skip <= Len(s)
         /\ \A h \in Locks : /\ HeldX(s, i + 1, h) <=> HeldX(s, i + 1 + s[i].skip, h)
                             /\ HeldS(s, i + 1, h) <=> HeldS(s, i + 1 + s[i].skip, h)
         /\ \A j \in i + 1 .. i + s[i].skip : s[j].do # "remove"
    [] OTHER -> s[i].do = "remove" /\ s[i].lock = ""

Safe(s, X) == s \in Seq(Steps) /\ \A i \in 1 .. Len(s) : Fine(s, i, X)

\* The locks of the terminal, which the logger takes while it is registered.
Screen == {"parser", "display", "efi"}

\* Until the terminal is removed from the logger, boot takes them only inside
\* the logger's; it switches at its end and after that.
ScreenInside(s) ==
  \A i \in 1 .. Len(s) :
    /\ \A l \in Screen : Held(s, i, l) => HeldX(s, i, "logger") \/ \E k \in 1 .. i - 1 : s[k].do = "remove"
    /\ s[i].do = "switch" => \E k \in 1 .. i - 1 : s[k].do = "remove"

SwitchesLast(s) == \A i \in 1 .. Len(s) : s[i].do = "switch" => i = Len(s)
NoSwitch(s) == \A i \in 1 .. Len(s) : s[i].do \notin {"switch", "try", "remove"}
Takes(s, L) == \A i \in 1 .. Len(s) : s[i].do \in {"lock", "read"} => s[i].lock \in L

(***************************************************************************)
(* The inductive invariant.                                                *)
(***************************************************************************)
\* The locks an operation may wait for with the scheduler locked.
Inner(job) == {l \in Locks : <<job, l>> \in KnownHangs}
Allowed(c) == IF c \in Threads THEN Inner(op[c]) ELSE Locks

ScriptsSafe == \A c \in Contexts : Safe(todo[c], Allowed(c))

\* Who holds a lock can be read off the scripts.
TableMatches ==
  \A c \in Contexts, l \in Locks :
    /\ writer[l] = c <=> HeldX(todo[c], 1, l)
    /\ c \in readers[l] <=> HeldS(todo[c], 1, l)

\* Only the thread on the CPU may hold the scheduler's lock.
StateOnCpu == \A t \in Threads \cup {Boot} : t # cpu => ~HeldX(todo[t], 1, "state")

BootFirst ==
  /\ cpu = Boot => \A t \in Threads : todo[t] = <<>>
  /\ cpu # Boot => todo[Boot] = <<>> /\ ~registered
  /\ SwitchesLast(todo[Boot])
  /\ registered => ScreenInside(todo[Boot])

\* What a handler may wait for; the sound card's holds the logger's lock while
\* it draws.
TimerLocks == {"heap", "limit", "frames"}
SoundLocks(b) == {"logger", "heap", "state", "processes"} \cup IF b THEN Screen ELSE {}
Draws(s) == \A i \in 1 .. Len(s) : s[i].lock \in Screen => HeldX(s, i, "logger")

HandlerScripts ==
  LET s == todo[Handler] IN
  s # <<>> =>
    \/ op[Handler] = "timer" /\ cpu # Boot /\ Takes(s, TimerLocks)
    \/ /\ op[Handler] = "page_fault" /\ NoSwitch(s)
       /\ Takes(s, {"state", "processes", "frames", "limit"})
       /\ cpu \in Threads /\ todo[cpu] = <<>>
    \/ op[Handler] = "sound" /\ NoSwitch(s) /\ Takes(s, SoundLocks(registered)) /\ Draws(s)

IInv ==
  /\ TypeOK
  /\ ScriptsSafe
  /\ TableMatches
  /\ StateOnCpu
  /\ BootFirst
  /\ HandlerScripts

-----------------------------------------------------------------------------
(***************************************************************************)
(* Holding a lock, along a script and in what remains of it.               *)
(***************************************************************************)
LEMMA HeldNext ==
  ASSUME NEW s \in Seq(Steps), NEW i \in 1 .. Len(s), NEW l, NEW D, s[i].lock # l
  PROVE  HeldBy(s, i, l, D) <=> HeldBy(s, i + 1, l, D)
<1>1. Len(s) \in Nat
  OBVIOUS
<1>2. ASSUME HeldBy(s, i, l, D) PROVE HeldBy(s, i + 1, l, D)
  <2>1. PICK k \in i .. Len(s) : /\ s[k].lock = l /\ s[k].do \in D
                                 /\ \A j \in i .. k - 1 : s[j].lock # l
    BY <1>2 DEF HeldBy
  <2>2. k \in i + 1 .. Len(s) /\ \A j \in i + 1 .. k - 1 : j \in i .. k - 1
    BY <1>1, <2>1
  <2> QED
    BY <2>1, <2>2 DEF HeldBy
<1>3. ASSUME HeldBy(s, i + 1, l, D) PROVE HeldBy(s, i, l, D)
  <2>1. PICK k \in i + 1 .. Len(s) : /\ s[k].lock = l /\ s[k].do \in D
                                     /\ \A j \in i + 1 .. k - 1 : s[j].lock # l
    BY <1>3 DEF HeldBy
  <2>2. k \in i .. Len(s) /\ \A j \in i .. k - 1 : j = i \/ j \in i + 1 .. k - 1
    BY <1>1, <2>1
  <2> QED
    BY <2>1, <2>2 DEF HeldBy
<1> QED
  BY <1>2, <1>3

\* At its own release a lock is held; after the last step none is.
LEMMA HeldHere ==
  ASSUME NEW s \in Seq(Steps), NEW i \in 1 .. Len(s), NEW D
  PROVE  HeldBy(s, i, s[i].lock, D) <=> s[i].do \in D
<1>1. Len(s) \in Nat /\ i \in i .. Len(s) /\ i .. i - 1 = {}
  OBVIOUS
<1>2. ASSUME NEW k \in i .. Len(s), \A j \in i .. k - 1 : s[j].lock # s[i].lock PROVE k = i
  <2>1. k # i => i \in i .. k - 1
    BY <1>1
  <2> QED
    BY <1>2, <2>1
<1> QED
  BY <1>1, <1>2 DEF HeldBy

\* A script that names a lock nowhere does not hold it.
LEMMA HeldNowhere ==
  ASSUME NEW s \in Seq(Steps), NEW l, NEW D
  PROVE  /\ ~HeldBy(s, Len(s) + 1, l, D)
         /\ (\A i \in 1 .. Len(s) : s[i].lock # l) => \A i \in 1 .. Len(s) + 1 : ~HeldBy(s, i, l, D)
<1>1. Len(s) \in Nat /\ Len(s) + 1 .. Len(s) = {}
  OBVIOUS
<1> QED
  BY <1>1 DEF HeldBy

\* What remains of a script after a step holds what the script holds there.
LEMMA HeldSuffix ==
  ASSUME NEW s \in Seq(Steps), NEW n \in 0 .. Len(s)
  PROVE  /\ SubSeq(s, n + 1, Len(s)) \in Seq(Steps)
         /\ Len(SubSeq(s, n + 1, Len(s))) = Len(s) - n
         /\ \A i \in 1 .. Len(s) - n : SubSeq(s, n + 1, Len(s))[i] = s[i + n]
         /\ \A i \in 1 .. Len(s) - n + 1 : \A l, D :
              HeldBy(SubSeq(s, n + 1, Len(s)), i, l, D) <=> HeldBy(s, i + n, l, D)
<1> DEFINE t == SubSeq(s, n + 1, Len(s))
<1>1. Len(s) \in Nat /\ t \in Seq(Steps) /\ Len(t) = Len(s) - n
      /\ \A i \in 1 .. Len(s) - n : t[i] = s[i + n]
  OBVIOUS
<1> HIDE DEF t
<1>2. ASSUME NEW i \in 1 .. Len(s) - n + 1, NEW l, NEW D, HeldBy(t, i, l, D)
      PROVE  HeldBy(s, i + n, l, D)
  <2>1. PICK k \in i .. Len(s) - n : /\ t[k].lock = l /\ t[k].do \in D
                                     /\ \A j \in i .. k - 1 : t[j].lock # l
    BY <1>1, <1>2 DEF HeldBy
  <2>2. k + n \in i + n .. Len(s) /\ t[k] = s[k + n]
    BY <1>1, <2>1
  <2>3. ASSUME NEW j \in i + n .. k + n - 1 PROVE s[j].lock # l
    <3>1. j - n \in i .. k - 1 /\ j - n \in 1 .. Len(s) - n /\ (j - n) + n = j
      BY <1>1, <2>1
    <3> QED
      BY <1>1, <2>1, <3>1
  <2> QED
    BY <2>1, <2>2, <2>3 DEF HeldBy
<1>3. ASSUME NEW i \in 1 .. Len(s) - n + 1, NEW l, NEW D, HeldBy(s, i + n, l, D)
      PROVE  HeldBy(t, i, l, D)
  <2>1. PICK k \in i + n .. Len(s) : /\ s[k].lock = l /\ s[k].do \in D
                                     /\ \A j \in i + n .. k - 1 : s[j].lock # l
    BY <1>1, <1>3 DEF HeldBy
  <2>2. k - n \in i .. Len(s) - n /\ t[k - n] = s[k]
    BY <1>1, <2>1
  <2>3. ASSUME NEW j \in i .. k - n - 1 PROVE t[j].lock # l
    <3>1. j + n \in i + n .. k - 1 /\ j \in 1 .. Len(s) - n
      BY <1>1, <2>1
    <3> QED
      BY <1>1, <2>1, <3>1
  <2> QED
    BY <1>1, <2>1, <2>2, <2>3 DEF HeldBy
<1> QED
  BY <1>1, <1>2, <1>3 DEF t

\* What remains of a safe script is safe.
LEMMA SafeSuffix ==
  ASSUME NEW s, NEW X, Safe(s, X), NEW n \in 0 .. Len(s)
  PROVE  Safe(SubSeq(s, n + 1, Len(s)), X)
<1> DEFINE t == SubSeq(s, n + 1, Len(s))
<1>1. s \in Seq(Steps) /\ Len(s) \in Nat /\ \A i \in 1 .. Len(s) : Fine(s, i, X)
  BY DEF Safe
<1>2. /\ t \in Seq(Steps) /\ Len(t) = Len(s) - n /\ \A i \in 1 .. Len(s) - n : t[i] = s[i + n]
      /\ \A i \in 1 .. Len(s) - n + 1 : \A l, D : HeldBy(t, i, l, D) <=> HeldBy(s, i + n, l, D)
  BY <1>1, HeldSuffix
<1> HIDE DEF t
<1>3. \A i \in 1 .. Len(s) - n + 1 : \A l : /\ HeldX(t, i, l) <=> HeldX(s, i + n, l)
                                            /\ HeldS(t, i, l) <=> HeldS(s, i + n, l)
                                            /\ Held(t, i, l) <=> Held(s, i + n, l)
  BY <1>2 DEF HeldX, HeldS, Held
<1>4. ASSUME NEW i \in 1 .. Len(t) PROVE Fine(t, i, X)
  <2>1. i \in 1 .. Len(s) - n /\ i \in 1 .. Len(s) - n + 1 /\ i + 1 \in 1 .. Len(s) - n + 1
        /\ i + n \in 1 .. Len(s) /\ (i + 1) + n = (i + n) + 1
    BY <1>1, <1>2
  <2>2. t[i] = s[i + n] /\ t[i] \in Steps
    BY <1>2, <2>1
  <2>3. t[i].skip \in Nat
    BY <2>2 DEF Steps
  <2>4. Fine(s, i + n, X)
    BY <1>1, <2>1
  <2>5. \A l : /\ HeldX(t, i, l) <=> HeldX(s, i + n, l)
               /\ HeldS(t, i, l) <=> HeldS(s, i + n, l)
               /\ Held(t, i, l) <=> Held(s, i + n, l)
    BY <1>3, <2>1
  <2>6. \A l : /\ HeldX(t, i + 1, l) <=> HeldX(s, (i + n) + 1, l)
               /\ HeldS(t, i + 1, l) <=> HeldS(s, (i + n) + 1, l)
               /\ Held(t, i + 1, l) <=> Held(s, (i + n) + 1, l)
    BY <1>3, <2>1
  <2>7. TakesInOrder(s, i + n, X) <=> TakesInOrder(t, i, X)
    BY <2>2, <2>5 DEF TakesInOrder
  <2>8. CASE t[i].do = "maybe"
    <3>0. PICK z \in Nat : z = t[i].skip
      BY <2>3
    <3>1. /\ t[i].lock = "" /\ (i + n) + z <= Len(s)
          /\ \A h \in Locks : /\ HeldX(s, (i + n) + 1, h) <=> HeldX(s, (i + n) + 1 + z, h)
                              /\ HeldS(s, (i + n) + 1, h) <=> HeldS(s, (i + n) + 1 + z, h)
          /\ \A j \in (i + n) + 1 .. (i + n) + z : s[j].do # "remove"
      BY <2>2, <2>4, <2>8, <3>0 DEF Fine
    <3>2. i + z <= Len(t) /\ i + 1 + z \in 1 .. Len(s) - n + 1 /\ (i + 1 + z) + n = (i + n) + 1 + z
      <4>1. (i + n) + z <= Len(s)
        BY <3>1
      <4>2. Len(s) \in Nat /\ Len(t) = Len(s) - n
        BY <1>1, <1>2
      <4>3. i \in Nat \ {0} /\ n \in Nat
        BY <4>2
      <4> QED
        BY <4>1, <4>2, <4>3
    <3>3. \A h \in Locks : /\ HeldX(t, i + 1, h) <=> HeldX(t, i + 1 + z, h)
                           /\ HeldS(t, i + 1, h) <=> HeldS(t, i + 1 + z, h)
      BY <1>3, <2>6, <3>1, <3>2
    <3>4. ASSUME NEW j \in i + 1 .. i + z PROVE t[j].do # "remove"
      <4>1. j \in 1 .. Len(s) - n /\ j + n \in (i + n) + 1 .. (i + n) + z
        BY <1>1, <1>2, <3>2
      <4> QED
        BY <1>2, <3>1, <4>1
    <3> QED
      BY <2>8, <3>0, <3>1, <3>2, <3>3, <3>4 DEF Fine
  <2>9. CASE t[i].do # "maybe"
    BY <2>2, <2>4, <2>5, <2>6, <2>7, <2>9 DEF Fine
  <2> QED
    BY <2>8, <2>9
<1> QED
  BY <1>2, <1>4 DEF Safe, t

-----------------------------------------------------------------------------
(***************************************************************************)
(* Putting scripts together.  U has the locks a script uses.               *)
(***************************************************************************)
Script(s, U, X) ==
  /\ Safe(s, X)
  /\ \A l \in Locks : ~Held(s, 1, l)
  /\ \A i \in 1 .. Len(s) : s[i].lock \in U \cup {""}

\* A step that is fine in a script is fine in a longer one that has this one d
\* steps further on.
LEMMA FineEmbeds ==
  ASSUME NEW s \in Seq(Steps), NEW t \in Seq(Steps), NEW d \in Nat, Len(t) + d <= Len(s),
         \A k \in 1 .. Len(t) : s[k + d] = t[k],
         \A k \in 1 .. Len(t) + 1 : \A l \in Locks : /\ HeldX(s, k + d, l) <=> HeldX(t, k, l)
                                                     /\ HeldS(s, k + d, l) <=> HeldS(t, k, l),
         NEW X, NEW i \in 1 .. Len(t), Fine(t, i, X)
  PROVE  Fine(s, i + d, X)
<1>1. i \in Nat /\ Len(t) \in Nat /\ Len(s) \in Nat
  OBVIOUS
<1>2. i \in 1 .. Len(t) + 1 /\ i + 1 \in 1 .. Len(t) + 1 /\ (i + 1) + d = (i + d) + 1
  BY <1>1
<1>3. s[i + d] = t[i] /\ t[i] \in Steps
  OBVIOUS
<1>4. \A l \in Locks : /\ HeldX(s, i + d, l) <=> HeldX(t, i, l)
                       /\ HeldS(s, i + d, l) <=> HeldS(t, i, l)
                       /\ Held(s, i + d, l) <=> Held(t, i, l)
  BY <1>2 DEF Held
<1>5. \A l \in Locks : /\ HeldX(s, (i + d) + 1, l) <=> HeldX(t, i + 1, l)
                       /\ HeldS(s, (i + d) + 1, l) <=> HeldS(t, i + 1, l)
                       /\ Held(s, (i + d) + 1, l) <=> Held(t, i + 1, l)
  BY <1>2 DEF Held
<1>6. "state" \in Locks
  BY DEF Locks
<1>7. TakesInOrder(t, i, X) => TakesInOrder(s, i + d, X)
  BY <1>3, <1>4, <1>6 DEF TakesInOrder
<1>8. CASE t[i].do = "maybe"
  <2>1. PICK z \in Nat : z = t[i].skip
    BY <1>3 DEF Steps
  <2>2. /\ t[i].lock = "" /\ i + z <= Len(t)
        /\ \A h \in Locks : /\ HeldX(t, i + 1, h) <=> HeldX(t, i + 1 + z, h)
                            /\ HeldS(t, i + 1, h) <=> HeldS(t, i + 1 + z, h)
        /\ \A j \in i + 1 .. i + z : t[j].do # "remove"
    BY <1>8, <2>1 DEF Fine
  <2>3. i + z <= Len(t)
    BY <2>2
  <2>4. i + 1 + z \in 1 .. Len(t) + 1 /\ (i + 1 + z) + d = (i + d) + 1 + z /\ (i + d) + z <= Len(s)
    BY <1>1, <2>3
  <2>5. \A h \in Locks : /\ HeldX(s, (i + d) + 1, h) <=> HeldX(s, (i + d) + 1 + z, h)
                         /\ HeldS(s, (i + d) + 1, h) <=> HeldS(s, (i + d) + 1 + z, h)
    BY <1>5, <2>2, <2>4
  <2>6. ASSUME NEW j \in (i + d) + 1 .. (i + d) + z PROVE s[j].do # "remove"
    <3>1. j - d \in i + 1 .. i + z /\ j - d \in 1 .. Len(t) /\ (j - d) + d = j
      BY <1>1, <2>3
    <3> QED
      BY <2>2, <3>1
  <2> QED
    BY <1>3, <1>8, <2>1, <2>2, <2>4, <2>5, <2>6 DEF Fine
<1>9. CASE t[i].do \in {"lock", "read"}
  <2>1. TakesInOrder(t, i, X) /\ t[i].lock \in Locks
    BY <1>9 DEF Fine, TakesInOrder
  <2> QED
    BY <1>3, <1>5, <1>7, <1>9, <2>1 DEF Fine
<1>10. CASE t[i].do \in {"try", "switch"}
  BY <1>3, <1>4, <1>5, <1>6, <1>10 DEF Fine
<1>11. CASE t[i].do \in {"unlock", "unread"}
  BY <1>3, <1>5, <1>11 DEF Fine
<1>12. CASE t[i].do \notin {"lock", "read", "try", "switch", "unlock", "unread", "maybe"}
  BY <1>3, <1>12 DEF Fine
<1> QED
  BY <1>8, <1>9, <1>10, <1>11, <1>12

\* The empty script takes no lock.
LEMMA EmptyScript == \A X : Script(<<>>, {}, X) /\ NoSwitch(<<>>)
<1>1. <<>> \in Seq(Steps) /\ Len(<<>>) = 0 /\ 1 .. 0 = {}
  OBVIOUS
<1> QED
  BY <1>1 DEF Script, Safe, NoSwitch, Held, HeldX, HeldS, HeldBy

\* A script that stays within some locks stays within more of them.
LEMMA MoreLocks ==
  ASSUME NEW s, NEW U, NEW V, NEW X, U \subseteq V, Script(s, U, X)
  PROVE  Script(s, V, X)
BY DEF Script

\* One script after another, as a handler calls one function after another.
LEMMA ConcatScript ==
  ASSUME NEW a, NEW b, NEW U, NEW X, Script(a, U, X), Script(b, U, X)
  PROVE  /\ Script(a \o b, U, X)
         /\ NoSwitch(a) /\ NoSwitch(b) => NoSwitch(a \o b)
<1> DEFINE s == a \o b
           m == Len(a)
           n == Len(b)
<1>1. a \in Seq(Steps) /\ b \in Seq(Steps)
  BY DEF Script, Safe
<1>2. /\ m \in Nat /\ n \in Nat /\ s \in Seq(Steps) /\ Len(s) = m + n
      /\ \A k \in 1 .. m : s[k] = a[k]
      /\ \A k \in 1 .. n : s[k + m] = b[k]
  BY <1>1
<1>3. SubSeq(s, m + 1, Len(s)) = b
  BY <1>1
<1> HIDE DEF s, m, n
<1>4. \A k \in 1 .. n + 1 : \A l, D : HeldBy(s, k + m, l, D) <=> HeldBy(b, k, l, D)
  <2>1. m \in 0 .. Len(s) /\ Len(s) - m = n
    BY <1>2
  <2> QED
    BY <1>2, <1>3, <2>1, HeldSuffix
<1>5. ASSUME NEW l, NEW D, ~HeldBy(b, 1, l, D), NEW k \in 1 .. m + 1
      PROVE  HeldBy(s, k, l, D) <=> HeldBy(a, k, l, D)
  <2>1. ASSUME HeldBy(s, k, l, D) PROVE HeldBy(a, k, l, D)
    <3>1. PICK q \in k .. m + n : /\ s[q].lock = l /\ s[q].do \in D
                                  /\ \A j \in k .. q - 1 : s[j].lock # l
      BY <1>2, <2>1 DEF HeldBy
    <3>2. CASE q <= m
      <4>1. q \in k .. m /\ q \in 1 .. m /\ \A j \in k .. q - 1 : j \in 1 .. m
        BY <1>2, <3>1, <3>2
      <4> QED
        BY <1>2, <3>1, <4>1 DEF HeldBy, m
    <3>3. CASE q > m
      <4>1. q \in 1 + m .. m + n /\ 1 \in 1 .. n + 1 /\ \A j \in 1 + m .. q - 1 : j \in k .. q - 1
        BY <1>2, <3>1, <3>3
      <4>2. HeldBy(s, 1 + m, l, D)
        BY <1>2, <3>1, <4>1 DEF HeldBy
      <4> QED
        BY <1>4, <1>5, <4>1, <4>2
    <3> QED
      BY <1>2, <3>1, <3>2, <3>3
  <2>2. ASSUME HeldBy(a, k, l, D) PROVE HeldBy(s, k, l, D)
    <3>1. PICK q \in k .. m : /\ a[q].lock = l /\ a[q].do \in D
                              /\ \A j \in k .. q - 1 : a[j].lock # l
      BY <1>2, <2>2 DEF HeldBy, m
    <3>2. q \in k .. m + n /\ q \in 1 .. m /\ \A j \in k .. q - 1 : j \in 1 .. m
      BY <1>2, <3>1
    <3> QED
      BY <1>2, <3>1, <3>2 DEF HeldBy
  <2> QED
    BY <2>1, <2>2
<1>6. \A l \in Locks : \A k \in 1 .. m + 1 : /\ HeldX(s, k, l) <=> HeldX(a, k, l)
                                             /\ HeldS(s, k, l) <=> HeldS(a, k, l)
  <2>1. \A l \in Locks : /\ ~HeldBy(b, 1, l, {"unlock", "switch"})
                         /\ ~HeldBy(b, 1, l, {"unread"})
    BY DEF Script, Held, HeldX, HeldS
  <2> QED
    BY <1>5, <2>1 DEF HeldX, HeldS
<1>7. ASSUME NEW i \in 1 .. Len(s) PROVE Fine(s, i, X)
  <2>1. CASE i \in 1 .. m
    <3>1. Fine(a, i, X)
      BY <2>1 DEF Script, Safe, m
    <3>2. \A k \in 1 .. m : s[k + 0] = a[k]
      BY <1>2
    <3>3. \A k \in 1 .. m + 1 : k + 0 = k
      BY <1>2
    <3>4. \A k \in 1 .. m + 1 : \A l \in Locks : /\ HeldX(s, k + 0, l) <=> HeldX(a, k, l)
                                                 /\ HeldS(s, k + 0, l) <=> HeldS(a, k, l)
      BY <1>6, <3>3
    <3>5. m + 0 <= Len(s) /\ 0 \in Nat /\ i + 0 = i
      BY <1>2, <2>1
    <3>6. Fine(s, i + 0, X)
      BY <1>1, <1>2, <2>1, <3>1, <3>2, <3>4, <3>5, FineEmbeds DEF m
    <3> QED
      BY <3>5, <3>6
  <2>2. CASE i \notin 1 .. m
    <3>1. PICK j \in 1 .. n : i = j + m
      <4>1. i - m \in 1 .. n /\ i = (i - m) + m
        BY <1>2, <2>2
      <4> QED
        BY <4>1
    <3>2. Fine(b, j, X)
      BY DEF Script, Safe, n
    <3>3. \A k \in 1 .. n + 1 : \A l \in Locks : /\ HeldX(s, k + m, l) <=> HeldX(b, k, l)
                                                 /\ HeldS(s, k + m, l) <=> HeldS(b, k, l)
      BY <1>4 DEF HeldX, HeldS
    <3>4. n + m <= Len(s)
      BY <1>2
    <3> QED
      BY <1>1, <1>2, <3>1, <3>2, <3>3, <3>4, FineEmbeds DEF n
  <2> QED
    BY <2>1, <2>2
<1>8. \A l \in Locks : ~Held(s, 1, l)
  <2>1. 1 \in 1 .. m + 1
    BY <1>2
  <2> QED
    BY <1>6, <2>1 DEF Script, Held
<1>9. ASSUME NEW i \in 1 .. Len(s)
      PROVE  \/ \E k \in 1 .. m : s[i] = a[k]
             \/ \E k \in 1 .. n : s[i] = b[k]
  <2>1. i \in 1 .. m \/ (i - m \in 1 .. n /\ i = (i - m) + m)
    BY <1>2
  <2> QED
    BY <1>2, <2>1
<1>10. \A i \in 1 .. Len(s) : s[i].lock \in U \cup {""}
  BY <1>9 DEF Script, m, n
<1>11. NoSwitch(a) /\ NoSwitch(b) => NoSwitch(s)
  BY <1>9 DEF NoSwitch, m, n
<1> QED
  BY <1>2, <1>7, <1>8, <1>10, <1>11 DEF Script, Safe, s

\* What a script takes are the locks it uses.
LEMMA ScriptTakes ==
  ASSUME NEW s, NEW U, NEW X, Script(s, U, X)
  PROVE  Takes(s, U)
<1>1. \A k \in 1 .. Len(s) : Fine(s, k, X) /\ s[k].lock \in U \cup {""}
  BY DEF Script, Safe
<1>2. ASSUME NEW k \in 1 .. Len(s), s[k].do \in {"lock", "read"} PROVE s[k].lock \in U
  <2>1. TakesInOrder(s, k, X)
    BY <1>1, <1>2 DEF Fine
  <2>2. s[k].lock # ""
    BY <2>1 DEF TakesInOrder, Locks
  <2> QED
    BY <1>1, <2>2
<1> QED
  BY <1>2 DEF Takes

\* A branch is fine when skipping it leaves the same locks held.
LEMMA FineMaybe ==
  ASSUME NEW s, NEW i, NEW y, NEW X, s[i].do = "maybe", s[i].lock = "", s[i].skip = y,
         i + y <= Len(s),
         \A h \in Locks : /\ HeldX(s, i + 1, h) <=> HeldX(s, i + 1 + y, h)
                          /\ HeldS(s, i + 1, h) <=> HeldS(s, i + 1 + y, h),
         \A j \in i + 1 .. i + y : s[j].do # "remove"
  PROVE  Fine(s, i, X)
BY DEF Fine

\* Lock l may be taken around script b, which does not use it.
Enclosable(b, U, X, l) ==
  /\ l \in Locks \ U /\ U \subseteq Locks /\ Script(b, U, X)
  /\ \A i \in 1 .. Len(b) : b[i].do \notin {"switch", "try"}
  /\ l # "state" => \A u \in U \ {"state"} : Rank(l) < Rank(u)
  /\ l = "state" => U \subseteq X

\* Steps o and z take it and release it.
Encloses(o, z, l) ==
  /\ o \in Steps /\ z \in Steps /\ o.lock = l /\ z.lock = l
  /\ \/ o.do = "lock" /\ z.do = "unlock"
     \/ o.do = "read" /\ z.do = "unread" /\ l # "state"
     \/ l = "state" /\ o.do \in {"lock", "try"} /\ z.do = "switch"

Wrap(o, b, z) == <<o>> \o b \o <<z>>

Bracketed(s, b, U, X, l, o, z) ==
  /\ Script(s, U \cup {l}, X)
  /\ Len(s) = Len(b) + 2 /\ s[1] = o /\ s[Len(b) + 2] = z
  /\ \A k \in 1 .. Len(b) : s[k + 1] = b[k]
  /\ z.do # "unread" => \A k \in 2 .. Len(b) + 2 : HeldX(s, k, l)

\* A script between taking and releasing a lock that comes before all of its own.
LEMMA BracketScript ==
  ASSUME NEW b, NEW U, NEW X, NEW l, NEW o, NEW z, Enclosable(b, U, X, l), Encloses(o, z, l)
  PROVE  Bracketed(Wrap(o, b, z), b, U, X, l, o, z)
<1> PICK s : s = Wrap(o, b, z)
  OBVIOUS
<1> USE DEF Enclosable, Encloses, Wrap
<1> DEFINE n == Len(b)
<1>0. Safe(b, X) /\ (\A k \in 1 .. n : b[k].lock \in U \cup {""}) /\ \A h \in Locks : ~Held(b, 1, h)
  BY DEF Script
<1>1. b \in Seq(Steps) /\ n \in Nat
  <2>1. b \in Seq(Steps)
    BY <1>0 DEF Safe
  <2> QED
    BY <2>1
<1>2. /\ s \in Seq(Steps) /\ Len(s) = n + 2 /\ s[1] = o /\ s[n + 2] = z
      /\ \A k \in 1 .. n : s[k + 1] = b[k]
  BY <1>1
<1>3. \A k \in 1 .. n : b[k].lock \in U \cup {""} /\ b[k].lock # l /\ b[k] \in Steps
  <2>1. l # ""
    BY DEF Locks
  <2>2. \A k \in 1 .. n : b[k] \in Steps
    BY <1>1
  <2> QED
    BY <1>0, <2>1, <2>2
<1> HIDE DEF n
<1>4. /\ n \in Nat
      /\ 1 \in 1 .. n + 1 /\ 1 + 1 = 2 /\ 1 \in 1 .. Len(s) /\ n + 2 \in 1 .. Len(s)
      /\ \A k \in 1 .. n : k + 1 \in 1 .. Len(s)
      /\ (n + 2) + 1 = Len(s) + 1
  BY <1>1, <1>2
<1>5. \A k \in 1 .. n : s[k + 1] = b[k] /\ k + 1 \in 1 .. Len(s)
  BY <1>2, <1>4
<1>6. ASSUME NEW k \in 2 .. n + 2, NEW D PROVE HeldBy(s, k, l, D) <=> z.do \in D
  <2>1. n + 2 \in k .. Len(s) /\ s[n + 2].lock = l
    BY <1>2, <1>4
  <2>2. ASSUME NEW j \in k .. n + 1 PROVE s[j].lock # l
    <3>1. j - 1 \in 1 .. n /\ (j - 1) + 1 = j
      BY <1>4
    <3> QED
      BY <1>3, <1>5, <3>1
  <2>3. ASSUME HeldBy(s, k, l, D) PROVE z.do \in D
    <3>1. PICK q \in k .. Len(s) : s[q].lock = l /\ s[q].do \in D
      BY <2>3 DEF HeldBy
    <3>2. q \in k .. n + 1 \/ q = n + 2
      BY <1>2, <1>4
    <3> QED
      BY <1>2, <2>2, <3>1, <3>2
  <2>4. ASSUME z.do \in D PROVE HeldBy(s, k, l, D)
    <3>1. \A j \in k .. (n + 2) - 1 : j \in k .. n + 1
      BY <1>4
    <3> QED
      BY <1>2, <2>1, <2>2, <2>4, <3>1 DEF HeldBy
  <2> QED
    BY <2>3, <2>4
<1>7. ASSUME NEW h \in Locks, h # l, NEW D, NEW k \in 1 .. n + 1
      PROVE  HeldBy(s, k + 1, h, D) <=> HeldBy(b, k, h, D)
  <2>1. ASSUME HeldBy(s, k + 1, h, D) PROVE HeldBy(b, k, h, D)
    <3>1. PICK q \in k + 1 .. n + 2 : /\ s[q].lock = h /\ s[q].do \in D
                                      /\ \A j \in k + 1 .. q - 1 : s[j].lock # h
      BY <1>2, <2>1 DEF HeldBy
    <3>2. q # n + 2
      BY <1>2, <1>7, <3>1
    <3>3. q - 1 \in k .. n /\ q - 1 \in 1 .. n /\ (q - 1) + 1 = q
      BY <1>4, <3>2
    <3>4. ASSUME NEW j \in k .. (q - 1) - 1 PROVE b[j].lock # h
      <4>1. j \in 1 .. n /\ j + 1 \in k + 1 .. q - 1
        BY <1>4, <3>3
      <4> QED
        BY <1>5, <3>1, <4>1
    <3>5. b[q - 1].lock = h /\ b[q - 1].do \in D
      BY <1>5, <3>1, <3>3
    <3> QED
      BY <3>3, <3>4, <3>5 DEF HeldBy, n
  <2>2. ASSUME HeldBy(b, k, h, D) PROVE HeldBy(s, k + 1, h, D)
    <3>1. PICK q \in k .. n : /\ b[q].lock = h /\ b[q].do \in D
                              /\ \A j \in k .. q - 1 : b[j].lock # h
      BY <2>2 DEF HeldBy, n
    <3>2. q + 1 \in k + 1 .. Len(s) /\ q \in 1 .. n
      BY <1>2, <1>4, SMTT(30)
    <3>3. ASSUME NEW j \in k + 1 .. (q + 1) - 1 PROVE s[j].lock # h
      <4>1. j - 1 \in 1 .. n /\ j - 1 \in k .. q - 1 /\ (j - 1) + 1 = j
        BY <1>4
      <4> QED
        BY <1>5, <3>1, <4>1
    <3> QED
      BY <1>5, <3>1, <3>2, <3>3 DEF HeldBy
  <2> QED
    BY <2>1, <2>2
<1>8. \A k \in 1 .. n + 1 : \A h \in Locks :
        h # l => /\ HeldX(s, k + 1, h) <=> HeldX(b, k, h)
                 /\ HeldS(s, k + 1, h) <=> HeldS(b, k, h)
                 /\ Held(s, k + 1, h) <=> Held(b, k, h)
  BY <1>7 DEF HeldX, HeldS, Held
<1>9. \A k \in 2 .. n + 2 : /\ HeldX(s, k, l) <=> z.do \in {"unlock", "switch"}
                            /\ HeldS(s, k, l) <=> z.do \in {"unread"}
  BY <1>6 DEF HeldX, HeldS
<1>10. \A h \in Locks : ~Held(s, 1, h)
  <2>1. ~Held(s, 1, l)
    <3>1. o.do \notin {"unlock", "switch", "unread"}
      OBVIOUS
    <3>2. \A D : HeldBy(s, 1, s[1].lock, D) <=> s[1].do \in D
      BY <1>2, <1>4, HeldHere
    <3>3. ~HeldBy(s, 1, l, {"unlock", "switch"}) /\ ~HeldBy(s, 1, l, {"unread"})
      <4>1. s[1].lock = l /\ s[1].do = o.do
        BY <1>2
      <4>2. \A D : HeldBy(s, 1, l, D) <=> o.do \in D
        BY <3>2, <4>1
      <4> QED
        BY <3>1, <4>2
    <3> QED
      BY <3>3 DEF Held, HeldX, HeldS
  <2>2. ASSUME NEW h \in Locks, h # l PROVE ~Held(s, 1, h)
    <3>1. s[1].lock # h
      BY <1>2, <2>2
    <3>2. Held(s, 1, h) <=> Held(s, 1 + 1, h)
      BY <1>2, <1>4, <3>1, HeldNext DEF Held, HeldX, HeldS
    <3> QED
      BY <1>4, <1>8, <2>2, <3>2 DEF Script
  <2> QED
    BY <2>1, <2>2
<1>11. Fine(s, 1, X)
  <2>1. TakesInOrder(s, 1, X)
    BY <1>2, <1>10, ZenonT(30) DEF TakesInOrder, Locks
  <2>2. 2 \in 2 .. n + 2
    BY <1>4
  <2> QED
    BY <1>2, <1>4, <1>9, <1>10, <2>1, <2>2 DEF Fine
<1>12. Fine(s, n + 2, X)
  <2>1. ~Held(s, (n + 2) + 1, l)
    BY <1>2, <1>4, HeldNowhere DEF Held, HeldX, HeldS
  <2> QED
    BY <1>2, <2>1 DEF Fine
<1>13. ASSUME NEW k \in 1 .. n PROVE Fine(s, k + 1, X)
  <2>1. Fine(b, k, X) /\ b[k].do \notin {"switch", "try"} /\ b[k] \in Steps /\ s[k + 1] = b[k]
        /\ b[k].lock \in U \cup {""} /\ b[k].lock # l
    BY <1>0, <1>3, <1>5 DEF Safe, n
  <2>2. k \in 1 .. n + 1 /\ k + 1 \in 1 .. n + 1 /\ k + 1 \in 2 .. n + 2 /\ (k + 1) + 1 \in 2 .. n + 2
    BY <1>4
  <2>3. CASE b[k].do \in {"lock", "read"}
    <3>1. TakesInOrder(b, k, X) /\ b[k].lock \in Locks
      BY <2>1, <2>3 DEF Fine, TakesInOrder
    <3>2. b[k].lock \in U
      BY <2>1, <3>1 DEF Locks
    <3>3. ~Held(s, k + 1, b[k].lock)
      BY <1>8, <2>1, <2>2, <3>1 DEF TakesInOrder
    <3>4. ASSUME b[k].lock # "state", NEW h \in Locks \ {"state"}, Held(s, k + 1, h)
          PROVE  Rank(h) < Rank(b[k].lock)
      <4>1. CASE h = l
        BY <3>2, <3>4, <4>1
      <4>2. CASE h # l
        <5>1. Held(b, k, h)
          BY <1>8, <2>2, <3>4, <4>2
        <5> QED
          BY <3>1, <3>4, <5>1 DEF TakesInOrder
      <4> QED
        BY <4>1, <4>2
    <3>5. ASSUME Held(s, k + 1, "state") PROVE b[k].lock \in X
      <4>1. CASE l = "state"
        BY <3>2, <4>1
      <4>2. CASE l # "state"
        <5>1. Held(b, k, "state")
          BY <1>8, <2>2, <3>5, <4>2 DEF Locks
        <5> QED
          BY <3>1, <5>1 DEF TakesInOrder
      <4> QED
        BY <4>1, <4>2
    <3>6. TakesInOrder(s, k + 1, X)
      BY <2>1, <3>1, <3>3, <3>4, <3>5 DEF TakesInOrder
    <3>7. /\ b[k].do = "lock" => HeldX(b, k + 1, b[k].lock)
          /\ b[k].do = "read" => HeldS(b, k + 1, b[k].lock)
      BY <2>1, <2>3 DEF Fine
    <3>8. /\ b[k].do = "lock" => HeldX(s, (k + 1) + 1, b[k].lock)
          /\ b[k].do = "read" => HeldS(s, (k + 1) + 1, b[k].lock)
      BY <1>8, <2>1, <2>2, <3>1, <3>7
    <3> QED
      BY <2>1, <2>3, <3>6, <3>8 DEF Fine
  <2>4. CASE b[k].do \in {"unlock", "unread"}
    <3>1. b[k].lock \in Locks /\ ~Held(b, k + 1, b[k].lock)
      BY <2>1, <2>4 DEF Fine
    <3>2. ~Held(s, (k + 1) + 1, b[k].lock)
      BY <1>8, <2>1, <2>2, <3>1
    <3> QED
      BY <2>1, <2>4, <3>1, <3>2 DEF Fine
  <2>5. CASE b[k].do = "maybe"
    <3>1. PICK y \in Nat : y = b[k].skip
      BY <2>1 DEF Steps
    <3>2. /\ b[k].lock = "" /\ k + y <= n
          /\ \A h \in Locks : /\ HeldX(b, k + 1, h) <=> HeldX(b, k + 1 + y, h)
                              /\ HeldS(b, k + 1, h) <=> HeldS(b, k + 1 + y, h)
          /\ \A j \in k + 1 .. k + y : b[j].do # "remove"
      BY <2>1, <2>5, <3>1 DEF Fine, n
    <3>3. k + y <= n
      BY <3>2
    <3>4. /\ k + 1 + y \in 1 .. n + 1 /\ (k + 1) + 1 + y \in 2 .. n + 2
          /\ (k + 1 + y) + 1 = (k + 1) + 1 + y /\ (k + 1) + y <= Len(s)
      BY <1>2, <1>4, <3>3
    <3>5. \A h \in Locks : /\ HeldX(s, (k + 1) + 1, h) <=> HeldX(s, (k + 1) + 1 + y, h)
                           /\ HeldS(s, (k + 1) + 1, h) <=> HeldS(s, (k + 1) + 1 + y, h)
      <4>1. ASSUME NEW h \in Locks, h # l
            PROVE  /\ HeldX(s, (k + 1) + 1, h) <=> HeldX(s, (k + 1) + 1 + y, h)
                   /\ HeldS(s, (k + 1) + 1, h) <=> HeldS(s, (k + 1) + 1 + y, h)
        <5>1. /\ HeldX(s, (k + 1) + 1, h) <=> HeldX(b, k + 1, h)
              /\ HeldS(s, (k + 1) + 1, h) <=> HeldS(b, k + 1, h)
          BY <1>8, <2>2, <4>1
        <5>2. /\ HeldX(s, (k + 1 + y) + 1, h) <=> HeldX(b, k + 1 + y, h)
              /\ HeldS(s, (k + 1 + y) + 1, h) <=> HeldS(b, k + 1 + y, h)
          BY <1>8, <3>4, <4>1
        <5> QED
          BY <3>2, <3>4, <5>1, <5>2
      <4>2. /\ HeldX(s, (k + 1) + 1, l) <=> HeldX(s, (k + 1) + 1 + y, l)
            /\ HeldS(s, (k + 1) + 1, l) <=> HeldS(s, (k + 1) + 1 + y, l)
        BY <1>9, <2>2, <3>4
      <4> QED
        BY <4>1, <4>2
    <3>6. ASSUME NEW j \in (k + 1) + 1 .. (k + 1) + y PROVE s[j].do # "remove"
      <4>1. j - 1 \in k + 1 .. k + y /\ j - 1 \in 1 .. n /\ (j - 1) + 1 = j
        BY <1>4, <3>3, SMTT(30)
      <4> QED
        BY <1>5, <3>2, <4>1
    <3>7. s[k + 1].do = "maybe" /\ s[k + 1].lock = "" /\ s[k + 1].skip = y
      BY <2>1, <2>5, <3>1, <3>2
    <3> QED
      BY <3>4, <3>5, <3>6, <3>7, FineMaybe
  <2>6. CASE b[k].do \notin {"lock", "read", "try", "switch", "unlock", "unread", "maybe"}
    <3>1. b[k].do = "remove" /\ b[k].lock = ""
      BY <2>1, <2>6 DEF Fine
    <3>2. s[k + 1].do = "remove" /\ s[k + 1].lock = ""
      BY <2>1, <3>1
    <3> QED
      BY <3>2 DEF Fine
  <2> QED
    BY <2>1, <2>3, <2>4, <2>5, <2>6
<1>14. ASSUME NEW i \in 1 .. Len(s) PROVE Fine(s, i, X) /\ s[i].lock \in U \cup {l} \cup {""}
  <2>1. i = 1 \/ i = n + 2 \/ (i - 1 \in 1 .. n /\ (i - 1) + 1 = i)
    BY <1>2, <1>4
  <2>2. CASE i = 1
    BY <1>2, <1>11, <2>2
  <2>3. CASE i = n + 2
    BY <1>2, <1>12, <2>3
  <2>4. CASE i - 1 \in 1 .. n /\ (i - 1) + 1 = i
    BY <1>3, <1>5, <1>13, <2>4
  <2> QED
    BY <2>1, <2>2, <2>3, <2>4
<1>15. Script(s, U \cup {l}, X)
  BY <1>2, <1>10, <1>14 DEF Script, Safe
<1>16. z.do # "unread" => \A k \in 2 .. n + 2 : HeldX(s, k, l)
  BY <1>9
<1>17. Bracketed(s, b, U, X, l, o, z)
  BY <1>2, <1>15, <1>16 DEF n, Bracketed
<1> QED
  BY <1>17 DEF Bracketed

\* A step in front of a script moves every step of it by one.
LEMMA Prefixed ==
  ASSUME NEW m \in Steps, NEW b \in Seq(Steps)
  PROVE  /\ <<m>> \o b \in Seq(Steps) /\ Len(<<m>> \o b) = Len(b) + 1 /\ (<<m>> \o b)[1] = m
         /\ \A k \in 1 .. Len(b) : (<<m>> \o b)[k + 1] = b[k]
         /\ SubSeq(<<m>> \o b, 1 + 1, Len(<<m>> \o b)) = b
OBVIOUS

\* An optional part is taken or skipped as a whole.
LEMMA MaybeScript ==
  ASSUME NEW b, NEW U, NEW X, Script(b, U, X), NoSwitch(b)
  PROVE  Script(Maybe(b), U, X) /\ NoSwitch(Maybe(b))
<1> DEFINE n == Len(b)
           m == [do |-> "maybe", lock |-> "", skip |-> n]
           s == <<m>> \o b
<1>1. Safe(b, X) /\ (\A k \in 1 .. n : b[k].lock \in U \cup {""}) /\ \A h \in Locks : ~Held(b, 1, h)
  BY DEF Script
<1>2. b \in Seq(Steps)
  BY <1>1 DEF Safe
<1>3. n \in Nat
  BY <1>2
<1>4. m \in Steps /\ m.do = "maybe" /\ m.lock = "" /\ m.skip = n
  BY <1>3 DEF Steps
<1> HIDE DEF n, m
<1>5. s \in Seq(Steps) /\ Len(s) = n + 1 /\ s[1] = m /\ \A k \in 1 .. n : s[k + 1] = b[k]
  BY <1>2, <1>4, Prefixed DEF n
<1>6. SubSeq(s, 1 + 1, Len(s)) = b
  BY <1>2, <1>4, Prefixed
<1> HIDE DEF s
<1>7. \A k \in 1 .. n + 1 : \A l, D : HeldBy(s, k + 1, l, D) <=> HeldBy(b, k, l, D)
  <2>1. 1 \in 0 .. Len(s) /\ Len(s) - 1 = n
    BY <1>3, <1>5
  <2> QED
    BY <1>5, <1>6, <2>1, HeldSuffix
<1>8. \A k \in 1 .. n + 1 : \A l : /\ HeldX(s, k + 1, l) <=> HeldX(b, k, l)
                                   /\ HeldS(s, k + 1, l) <=> HeldS(b, k, l)
  BY <1>7 DEF HeldX, HeldS
<1>9. 1 \in 1 .. n + 1 /\ n + 1 \in 1 .. n + 1 /\ 1 \in 1 .. Len(s) /\ 1 + n = n + 1 /\ 1 + 1 + n = (n + 1) + 1
  BY <1>3, <1>5
<1>10. \A h \in Locks : ~HeldX(s, 1 + 1, h) /\ ~HeldS(s, 1 + 1, h)
  BY <1>1, <1>8, <1>9 DEF Held
<1>11. \A h \in Locks : ~Held(s, 1, h)
  <2>1. ASSUME NEW h \in Locks PROVE \A D : HeldBy(s, 1, h, D) <=> HeldBy(s, 1 + 1, h, D)
    <3>1. s[1].lock # h
      BY <1>4, <1>5 DEF Locks
    <3> QED
      BY <1>5, <1>9, <3>1, HeldNext
  <2> QED
    BY <1>10, <2>1 DEF Held, HeldX, HeldS
<1>12. \A h \in Locks : ~HeldX(s, 1 + 1 + n, h) /\ ~HeldS(s, 1 + 1 + n, h)
  BY <1>5, <1>9, HeldNowhere DEF HeldX, HeldS
<1>13. Fine(s, 1, X)
  <2>1. ASSUME NEW j \in 1 + 1 .. 1 + n PROVE s[j].do # "remove"
    <3>1. j - 1 \in 1 .. n /\ (j - 1) + 1 = j
      BY <1>3
    <3> QED
      BY <1>5, <3>1 DEF NoSwitch, n
  <2>2. s[1].do = "maybe" /\ s[1].lock = "" /\ s[1].skip = n
    BY <1>4, <1>5, Zenon
  <2>3. 1 + n <= Len(s)
    BY <1>3, <1>5
  <2> QED
    BY <1>10, <1>12, <2>1, <2>2, <2>3, FineMaybe
<1>14. ASSUME NEW i \in 1 .. Len(s)
       PROVE  /\ Fine(s, i, X) /\ s[i].lock \in U \cup {""}
              /\ s[i].do \notin {"switch", "try", "remove"}
  <2>1. CASE i = 1
    BY <1>4, <1>5, <1>13, <2>1
  <2>2. CASE i # 1
    <3>1. PICK k \in 1 .. n : i = k + 1
      <4>1. i - 1 \in 1 .. n /\ i = (i - 1) + 1
        BY <1>3, <1>5, <2>2
      <4> QED
        BY <4>1
    <3>2. Fine(b, k, X)
      BY <1>1 DEF Safe, n
    <3>3. n + 1 <= Len(s)
      BY <1>3, <1>5
    <3>4. \A q \in 1 .. n + 1 : \A l \in Locks : /\ HeldX(s, q + 1, l) <=> HeldX(b, q, l)
                                                 /\ HeldS(s, q + 1, l) <=> HeldS(b, q, l)
      BY <1>8
    <3>5. Fine(s, k + 1, X)
      BY <1>2, <1>5, <3>2, <3>3, <3>4, FineEmbeds DEF n
    <3> QED
      BY <1>1, <1>5, <3>1, <3>5 DEF NoSwitch, n
  <2> QED
    BY <2>1, <2>2
<1>15. Script(s, U, X) /\ NoSwitch(s)
  BY <1>5, <1>11, <1>14 DEF Script, Safe, NoSwitch
<1> QED
  BY <1>15 DEF Maybe, s, m, n

\* The first step takes the lock, and it is held exclusively at all others.
Inside(s, l) == s[1].lock = l /\ \A i \in 2 .. Len(s) : HeldX(s, i, l)

\* Locked(l, body), the lifetime of a guard around a body.
LEMMA LockedScript ==
  ASSUME NEW b, NEW U, NEW X, NEW l \in Locks, l \notin U, U \subseteq Locks,
         Script(b, U, X), NoSwitch(b),
         l # "state" => \A u \in U \ {"state"} : Rank(l) < Rank(u),
         l = "state" => U \subseteq X
  PROVE  /\ Script(Locked(l, b), U \cup {l}, X) /\ NoSwitch(Locked(l, b)) /\ Inside(Locked(l, b), l)
         /\ l # "state" => Script(Reading(l, b), U \cup {l}, X) /\ NoSwitch(Reading(l, b))
<1>1. \A i \in 1 .. Len(b) : b[i].do \notin {"switch", "try"}
  BY DEF NoSwitch
<1>2. ASSUME NEW o \in Steps, NEW z \in Steps, o.lock = l, z.lock = l,
             \/ o.do = "lock" /\ z.do = "unlock"
             \/ o.do = "read" /\ z.do = "unread" /\ l # "state",
             NEW s, s = Wrap(o, b, z)
      PROVE  Script(s, U \cup {l}, X) /\ NoSwitch(s) /\ (z.do = "unlock" => Inside(s, l))
  <2>1. Enclosable(b, U, X, l) /\ Encloses(o, z, l)
    BY <1>1, <1>2 DEF Enclosable, Encloses
  <2>0. Bracketed(s, b, U, X, l, o, z)
    BY <1>2, <2>1, BracketScript
  <2>2. /\ Script(s, U \cup {l}, X)
        /\ Len(s) = Len(b) + 2 /\ s[1] = o /\ s[Len(b) + 2] = z
        /\ \A k \in 1 .. Len(b) : s[k + 1] = b[k]
        /\ z.do # "unread" => \A k \in 2 .. Len(b) + 2 : HeldX(s, k, l)
    BY <2>0 DEF Bracketed
  <2>3. Len(b) \in Nat
    <3>1. b \in Seq(Steps)
      BY DEF Script, Safe
    <3> QED
      BY <3>1
  <2>4. ASSUME NEW i \in 1 .. Len(s) PROVE s[i].do \notin {"switch", "try", "remove"}
    <3>1. i = 1 \/ i = Len(b) + 2 \/ (i - 1 \in 1 .. Len(b) /\ (i - 1) + 1 = i)
      BY <2>2, <2>3
    <3>2. CASE i = 1 \/ i = Len(b) + 2
      <4>1. s[i] = o \/ s[i] = z
        BY <2>2, <3>2
      <4> QED
        BY <1>2, <4>1
    <3>3. CASE i - 1 \in 1 .. Len(b) /\ (i - 1) + 1 = i
      BY <2>2, <3>3 DEF NoSwitch
    <3> QED
      BY <3>1, <3>2, <3>3
  <2> QED
    BY <1>2, <2>2, <2>4 DEF NoSwitch, Inside
<1>5. ASSUME NEW d \in {"lock", "unlock", "read", "unread"}
      PROVE  Step(d, l) \in Steps /\ Step(d, l).lock = l /\ Step(d, l).do = d
  BY DEF Step, Steps
<1>3. Script(Locked(l, b), U \cup {l}, X) /\ NoSwitch(Locked(l, b)) /\ Inside(Locked(l, b), l)
  <2>1. PICK o \in Steps : o = Step("lock", l) /\ o.lock = l /\ o.do = "lock"
    BY <1>5
  <2>2. PICK z \in Steps : z = Step("unlock", l) /\ z.lock = l /\ z.do = "unlock"
    BY <1>5
  <2>3. PICK s : s = Wrap(o, b, z)
    OBVIOUS
  <2>4. Script(s, U \cup {l}, X) /\ NoSwitch(s) /\ Inside(s, l)
    BY <1>2, <2>1, <2>2, <2>3
  <2> QED
    BY <2>1, <2>2, <2>3, <2>4 DEF Locked, Wrap
<1>4. ASSUME l # "state" PROVE Script(Reading(l, b), U \cup {l}, X) /\ NoSwitch(Reading(l, b))
  <2>1. PICK o \in Steps : o = Step("read", l) /\ o.lock = l /\ o.do = "read"
    BY <1>5
  <2>2. PICK z \in Steps : z = Step("unread", l) /\ z.lock = l /\ z.do = "unread"
    BY <1>5
  <2>3. PICK s : s = Wrap(o, b, z)
    OBVIOUS
  <2>4. Script(s, U \cup {l}, X) /\ NoSwitch(s)
    BY <1>2, <1>4, <2>1, <2>2, <2>3
  <2> QED
    BY <2>1, <2>2, <2>3, <2>4 DEF Reading, Wrap
<1> QED
  BY <1>3, <1>4

\* Switching(body) and TrySwitching(body), a body that ends in a context switch.
LEMMA SwitchingScript ==
  ASSUME NEW b, NEW U, NEW X, "state" \notin U, U \subseteq Locks, U \subseteq X,
         Script(b, U, X), NoSwitch(b)
  PROVE  /\ Script(Switching(b), U \cup {"state"}, X) /\ Inside(Switching(b), "state")
         /\ Script(TrySwitching(b), U \cup {"state"}, X)
         /\ SwitchesLast(Switching(b)) /\ Takes(TrySwitching(b), U)
<1>1. \A i \in 1 .. Len(b) : b[i].do \notin {"switch", "try"}
  BY DEF NoSwitch
<1>2. ASSUME NEW o \in Steps, NEW z \in Steps, o.lock = "state", z.lock = "state",
             o.do \in {"lock", "try"}, z.do = "switch",
             NEW s, s = Wrap(o, b, z)
      PROVE  /\ Script(s, U \cup {"state"}, X) /\ Inside(s, "state") /\ SwitchesLast(s)
             /\ o.do = "try" => Takes(s, U)
  <2>1. Enclosable(b, U, X, "state") /\ Encloses(o, z, "state")
    BY <1>1, <1>2 DEF Enclosable, Encloses, Locks
  <2>0. Bracketed(s, b, U, X, "state", o, z)
    BY <1>2, <2>1, BracketScript
  <2>2. /\ Script(s, U \cup {"state"}, X)
        /\ Len(s) = Len(b) + 2 /\ s[1] = o /\ s[Len(b) + 2] = z
        /\ \A k \in 1 .. Len(b) : s[k + 1] = b[k]
        /\ z.do # "unread" => \A k \in 2 .. Len(b) + 2 : HeldX(s, k, "state")
    BY <2>0 DEF Bracketed
  <2>3. Len(b) \in Nat /\ Takes(b, U)
    <3>1. b \in Seq(Steps)
      BY DEF Script, Safe
    <3> QED
      BY <3>1, ScriptTakes
  <2>4. ASSUME NEW i \in 1 .. Len(s)
        PROVE  /\ s[i].do = "switch" => i = Len(s)
               /\ o.do = "try" /\ s[i].do \in {"lock", "read"} => s[i].lock \in U
    <3>1. i = 1 \/ i = Len(b) + 2 \/ (i - 1 \in 1 .. Len(b) /\ (i - 1) + 1 = i)
      BY <2>2, <2>3
    <3>2. CASE i = 1 \/ i = Len(b) + 2
      <4>1. (i = 1 /\ s[i] = o) \/ (i = Len(s) /\ s[i] = z)
        BY <2>2, <3>2
      <4> QED
        BY <1>2, <4>1
    <3>3. CASE i - 1 \in 1 .. Len(b) /\ (i - 1) + 1 = i
      BY <2>2, <2>3, <3>3 DEF NoSwitch, Takes
    <3> QED
      BY <3>1, <3>2, <3>3
  <2> QED
    BY <1>2, <2>2, <2>4 DEF SwitchesLast, Inside, Takes
<1>3. ASSUME NEW d \in {"lock", "try", "switch"}
      PROVE  Step(d, "state") \in Steps /\ Step(d, "state").lock = "state" /\ Step(d, "state").do = d
  BY DEF Step, Steps, Locks
<1>4. PICK z \in Steps : z = Step("switch", "state") /\ z.lock = "state" /\ z.do = "switch"
  BY <1>3
<1>5. /\ Script(Switching(b), U \cup {"state"}, X) /\ Inside(Switching(b), "state")
      /\ SwitchesLast(Switching(b))
  <2>1. PICK o \in Steps : o = Step("lock", "state") /\ o.lock = "state" /\ o.do = "lock"
    BY <1>3
  <2>2. PICK s : s = Wrap(o, b, z)
    OBVIOUS
  <2>3. Script(s, U \cup {"state"}, X) /\ Inside(s, "state") /\ SwitchesLast(s)
    BY <1>2, <1>4, <2>1, <2>2
  <2> QED
    BY <1>4, <2>1, <2>2, <2>3 DEF Switching, Wrap
<1>6. Script(TrySwitching(b), U \cup {"state"}, X) /\ Takes(TrySwitching(b), U)
  <2>1. PICK o \in Steps : o = Step("try", "state") /\ o.lock = "state" /\ o.do = "try"
    BY <1>3
  <2>2. PICK s : s = Wrap(o, b, z)
    OBVIOUS
  <2>3. Script(s, U \cup {"state"}, X) /\ Takes(s, U)
    BY <1>2, <1>4, <2>1, <2>2
  <2> QED
    BY <1>4, <2>1, <2>2, <2>3 DEF TrySwitching, Wrap
<1> QED
  BY <1>5, <1>6

(***************************************************************************)
(* The same for a script that is part of another one.                      *)
(***************************************************************************)
Body(s, U, X) == Script(s, U, X) /\ NoSwitch(s)

\* Lock l comes before those of U.
Before(l, U, X) ==
  /\ l \in Locks /\ U \subseteq Locks /\ l \notin U
  /\ l # "state" => \A u \in U \ {"state"} : Rank(l) < Rank(u)
  /\ l = "state" => U \subseteq X

\* The rules for the bodies of critical sections, without a switch: nothing, ...
LEMMA BodyEmpty == ASSUME NEW X PROVE Body(<<>>, {}, X)
BY EmptyScript DEF Body

\* ... within more locks, ...
LEMMA BodyMore ==
  ASSUME NEW b, NEW U, NEW W, NEW X, Body(b, U, X), U \subseteq W
  PROVE  Body(b, W, X)
BY MoreLocks DEF Body

\* ... inside a lock, ...
LEMMA BodyLocked ==
  ASSUME NEW b, NEW U, NEW X, NEW l, Body(b, U, X), Before(l, U, X)
  PROVE  /\ Body(Locked(l, b), U \cup {l}, X) /\ Inside(Locked(l, b), l)
         /\ l # "state" => Body(Reading(l, b), U \cup {l}, X)
<1>1. l \in Locks /\ U \subseteq Locks /\ l \notin U
  BY DEF Before
<1>2. l # "state" => \A u \in U \ {"state"} : Rank(l) < Rank(u)
  BY DEF Before
<1>3. l = "state" => U \subseteq X
  BY DEF Before
<1>4. Script(b, U, X) /\ NoSwitch(b)
  BY DEF Body
<1> QED
  BY <1>1, <1>2, <1>3, <1>4, LockedScript DEF Body

\* ... perhaps, ...
LEMMA BodyMaybe ==
  ASSUME NEW b, NEW U, NEW X, Body(b, U, X)
  PROVE  Body(Maybe(b), U, X)
BY MaybeScript DEF Body

\* ... and one after another.
LEMMA BodyConcat ==
  ASSUME NEW a, NEW b, NEW U, NEW X, Body(a, U, X), Body(b, U, X)
  PROVE  Body(a \o b, U, X)
BY ConcatScript DEF Body

\* Which sets of locks each lock may be taken before.
LEMMA Order ==
  ASSUME NEW X
  PROVE  /\ \A l \in Locks : Before(l, {}, X)
         /\ \A l \in {"processes", "efi"} : Before(l, {"heap"}, X)
         /\ "heap" \in X => Before("state", {"heap"}, X)
         /\ Before("processes", {"frames", "heap"}, X)
         /\ Before("processes", {"state"}, X)
         /\ Before("display", {"processes", "heap", "state", "efi"}, X)
         /\ Before("logger", {"parser", "display", "processes", "heap", "state", "efi"}, X)
         /\ Before("logger", {"heap"}, X)
<1>1. \A l \in Locks : Before(l, {}, X)
  BY DEF Before
<1>2. \A l \in {"processes", "efi"} : Before(l, {"heap"}, X)
  BY DEF Before, Rank, Locks
<1>3. "heap" \in X => Before("state", {"heap"}, X)
  BY DEF Before, Rank, Locks
<1>4. Before("processes", {"frames", "heap"}, X) /\ Before("processes", {"state"}, X)
  BY DEF Before, Rank, Locks
<1>5. Before("display", {"processes", "heap", "state", "efi"}, X)
  BY DEF Before, Rank, Locks
<1>6. /\ Before("logger", {"parser", "display", "processes", "heap", "state", "efi"}, X)
      /\ Before("logger", {"heap"}, X)
  BY DEF Before, Rank, Locks
<1> QED
  BY <1>1, <1>2, <1>3, <1>4, <1>5, <1>6

(***************************************************************************)
(* The scripts of the kernel, bottom up.                                   *)
(***************************************************************************)
LEMMA EmptyLocked ==
  ASSUME NEW X, NEW l \in Locks
  PROVE  Body(Locked(l, <<>>), {l}, X) /\ (l # "state" => Body(Reading(l, <<>>), {l}, X))
<1>1. Body(<<>>, {}, X) /\ Before(l, {}, X) /\ {} \cup {l} = {l}
  BY BodyEmpty, Order
<1>2. Body(Locked(l, <<>>), {} \cup {l}, X) /\ (l # "state" => Body(Reading(l, <<>>), {} \cup {l}, X))
  BY <1>1, BodyLocked
<1> QED
  BY <1>1, <1>2

\* The heap, the frames and the stack allocator.
LEMMA MemoryScripts ==
  ASSUME NEW X
  PROVE  /\ Body(heap, {"heap"}, X) /\ Body(frames, {"frames"}, X) /\ Body(phys_limit, {"limit"}, X)
         /\ Body(deallocate, {"limit", "frames"}, X)
         /\ Body(Maybe(heap), {"heap"}, X) /\ Body(create_process, {"frames", "heap"}, X)
         /\ Body(drop_exited_process, {"frames", "heap"}, X)
         /\ Body(Maybe(drop_thread(<<>>)), TimerLocks, X)
         /\ Body(Maybe(drop_thread(Maybe(drop_process))), TimerLocks, X)
<1>2. Body(heap, {"heap"}, X) /\ Body(frames, {"frames"}, X) /\ Body(phys_limit, {"limit"}, X)
  BY EmptyLocked DEF heap, frames, phys_limit, Locks
<1>3. Body(Maybe(heap), {"heap"}, X) /\ Body(Maybe(frames), {"frames"}, X)
  BY <1>2, BodyMaybe
<1>4. Body(Maybe(frames), {"limit", "frames"}, X) /\ Body(phys_limit, {"limit", "frames"}, X)
  BY <1>2, <1>3, BodyMore
<1>5. Body(deallocate, {"limit", "frames"}, X)
  BY <1>4, BodyConcat DEF deallocate
<1>6. Body(frames, {"frames", "heap"}, X) /\ Body(heap, {"frames", "heap"}, X)
  BY <1>2, BodyMore
<1>7. Body(create_process, {"frames", "heap"}, X)
  BY <1>6, BodyConcat DEF create_process
<1>8. Body(drop_exited_process, {"frames", "heap"}, X)
  BY <1>7, BodyMaybe DEF drop_exited_process, drop_process, create_process
<1>9. ASSUME NEW p, Body(p, TimerLocks, X) PROVE Body(Maybe(drop_thread(p)), TimerLocks, X)
  <2>1. Body(deallocate, TimerLocks, X) /\ Body(heap, TimerLocks, X)
    BY <1>2, <1>5, BodyMore DEF TimerLocks
  <2>2. Body(deallocate \o deallocate, TimerLocks, X)
    BY <2>1, BodyConcat
  <2>3. Body(deallocate \o deallocate \o p, TimerLocks, X)
    BY <1>9, <2>2, BodyConcat
  <2>4. Body(drop_thread(p), TimerLocks, X)
    BY <2>1, <2>3, BodyConcat DEF drop_thread
  <2> QED
    BY <2>4, BodyMaybe
<1>10. Body(<<>>, TimerLocks, X) /\ Body(Maybe(drop_process), TimerLocks, X)
  BY <1>8, BodyEmpty, BodyMore DEF TimerLocks, drop_exited_process
<1> QED
  BY <1>2, <1>3, <1>5, <1>7, <1>8, <1>9, <1>10

\* The operations of the scheduler that do not end a thread.
LEMMA SchedulerScripts ==
  ASSUME NEW X
  PROVE  /\ Body(current_thread, {"state"}, X)
         /\ "heap" \in X => /\ Body(active_thread_ids, {"heap", "state"}, X)
                            /\ Body(ready, {"heap", "state"}, X)
                            /\ Script(sleep, {"heap", "state"}, X)
                            /\ Script(join, {"heap", "state"}, X)
<1>1. Body(current_thread, {"state"}, X)
  BY EmptyLocked DEF current_thread, Locks
<1>2. ASSUME "heap" \in X
      PROVE  /\ Body(active_thread_ids, {"heap", "state"}, X)
             /\ Body(ready, {"heap", "state"}, X)
             /\ Script(sleep, {"heap", "state"}, X)
             /\ Script(join, {"heap", "state"}, X)
  <2>1. {"heap"} \cup {"state"} = {"heap", "state"} /\ "state" \notin {"heap"}
        /\ {"heap"} \subseteq Locks /\ {"heap"} \subseteq X
    BY <1>2 DEF Locks
  <2>2. Before("state", {"heap"}, X) /\ Body(heap, {"heap"}, X) /\ Body(Maybe(heap), {"heap"}, X)
    BY <1>2, Order, MemoryScripts
  <2>3. Body(active_thread_ids, {"heap"} \cup {"state"}, X) /\ Body(ready, {"heap"} \cup {"state"}, X)
    BY <2>2, BodyLocked DEF active_thread_ids, ready
  <2>4. ASSUME NEW b, Body(b, {"heap"}, X)
        PROVE  Script(Switching(b), {"heap", "state"}, X)
    <3>1. Script(b, {"heap"}, X) /\ NoSwitch(b)
      BY <2>4 DEF Body
    <3>2. Script(Switching(b), {"heap"} \cup {"state"}, X)
      BY <2>1, <3>1, SwitchingScript
    <3> QED
      BY <2>1, <3>2
  <2> QED
    BY <2>1, <2>2, <2>3, <2>4 DEF sleep, join
<1> QED
  BY <1>1, <1>2

\* switch_thread(), which may drop a thread with the scheduler locked.
LEMMA SwitchScript ==
  ASSUME NEW X, TimerLocks \subseteq X
  PROVE  Script(switch_thread, TimerLocks \cup {"state"}, X) /\ Takes(switch_thread, TimerLocks)
<1>1. TimerLocks \subseteq Locks /\ "state" \notin TimerLocks
  BY DEF TimerLocks, Locks
<1>2. Body(Maybe(heap), TimerLocks, X) /\ Body(Maybe(drop_thread(<<>>)), TimerLocks, X)
  BY MemoryScripts, BodyMore DEF TimerLocks
<1>3. Body(Maybe(heap) \o Maybe(drop_thread(<<>>)), TimerLocks, X)
  BY <1>2, BodyConcat
<1> QED
  BY <1>1, <1>3, SwitchingScript DEF switch_thread, Body

\* exit(), which switches with the scheduler locked.
LEMMA ExitScript ==
  ASSUME NEW X, {"heap", "processes", "limit", "frames"} \subseteq X
  PROVE  Script(exit, {"heap", "processes", "limit", "frames", "state"}, X)
<1> DEFINE U == {"heap", "processes", "limit", "frames"}
<1>1. Body(heap, {"heap"}, X) /\ Body(Maybe(heap), {"heap"}, X)
      /\ Body(Maybe(drop_thread(<<>>)), TimerLocks, X) /\ Before("processes", {"heap"}, X)
  BY MemoryScripts, Order
<1>2. Body(Locked("processes", Maybe(heap)), {"heap"} \cup {"processes"}, X)
  BY <1>1, BodyLocked
<1>3. {"heap"} \subseteq U /\ {"heap"} \cup {"processes"} \subseteq U /\ TimerLocks \subseteq U
      /\ U \subseteq Locks /\ U \subseteq X /\ "state" \notin U
      /\ U \cup {"state"} = {"heap", "processes", "limit", "frames", "state"}
  BY DEF Locks, TimerLocks
<1> HIDE DEF U
<1>4. /\ Body(heap, U, X) /\ Body(Locked("processes", Maybe(heap)), U, X)
      /\ Body(Maybe(drop_thread(<<>>)), U, X)
  BY <1>1, <1>2, <1>3, BodyMore
<1>5. Body(heap \o Locked("processes", Maybe(heap)) \o Maybe(drop_thread(<<>>)), U, X)
  <2>1. Body(heap \o Locked("processes", Maybe(heap)), U, X)
    BY <1>4, BodyConcat
  <2> QED
    BY <1>4, <2>1, BodyConcat
<1>6. Script(exit, U \cup {"state"}, X)
  BY <1>3, <1>5, SwitchingScript DEF exit, Body
<1> QED
  BY <1>3, <1>6

\* The process manager and the creation of threads.
LEMMA ProcessScripts ==
  ASSUME NEW X
  PROVE  /\ Body(new_user_thread, {"processes", "frames", "heap"}, X)
         /\ Body(new_kernel_thread, {"processes", "frames", "heap"}, X)
         /\ Body(grow_user_stack, {"processes", "state", "frames", "limit"}, X)
         /\ Body(sys_map_user_heap, {"processes", "state", "frames", "heap"}, X)
         /\ Body(sys_process_id, {"processes", "state"}, X)
         /\ Body(Locked("processes", drop_exited_process), {"processes", "frames", "heap"}, X)
<1>1. /\ Body(heap, {"heap"}, X) /\ Body(frames, {"frames"}, X) /\ Body(phys_limit, {"limit"}, X)
      /\ Body(create_process, {"frames", "heap"}, X) /\ Body(drop_exited_process, {"frames", "heap"}, X)
      /\ Body(current_process, {"state"}, X)
  BY MemoryScripts, SchedulerScripts DEF current_process
<1>2. Before("processes", {"frames", "heap"}, X) /\ Before("processes", {"state"}, X)
  BY Order
<1>3. /\ Body(Locked("processes", create_process), {"frames", "heap"} \cup {"processes"}, X)
      /\ Body(Locked("processes", drop_exited_process), {"frames", "heap"} \cup {"processes"}, X)
      /\ Body(Reading("processes", current_process), {"state"} \cup {"processes"}, X)
  BY <1>1, <1>2, BodyLocked
<1>4. Body(Reading("processes", <<>>), {"processes"}, X)
  BY EmptyLocked DEF Locks
<1>5. PICK U : U = {"processes", "frames", "heap"}
  OBVIOUS
<1>6. /\ Body(Locked("processes", create_process), U, X) /\ Body(Locked("processes", drop_exited_process), U, X)
      /\ Body(Reading("processes", <<>>), U, X) /\ Body(heap, U, X) /\ Body(frames, U, X)
  BY <1>1, <1>3, <1>4, <1>5, BodyMore
<1>7. Body(new_user_thread, U, X)
  <2>1. Body(Locked("processes", create_process) \o frames, U, X)
    BY <1>6, BodyConcat
  <2>2. Body(Locked("processes", create_process) \o frames \o heap, U, X)
    BY <1>6, <2>1, BodyConcat
  <2>3. Body(Locked("processes", create_process) \o frames \o heap \o frames, U, X)
    BY <1>6, <2>2, BodyConcat
  <2> QED
    BY <1>6, <2>3, BodyConcat DEF new_user_thread
<1>8. Body(new_kernel_thread, U, X)
  <2>1. Body(frames \o Reading("processes", <<>>), U, X)
    BY <1>6, BodyConcat
  <2> QED
    BY <1>6, <2>1, BodyConcat DEF new_kernel_thread
<1>9. Body(grow_user_stack, {"processes", "state", "frames", "limit"}, X)
  <2>1. PICK V : V = {"processes", "state", "frames", "limit"}
    OBVIOUS
  <2>2. Body(Reading("processes", current_process), V, X) /\ Body(frames, V, X) /\ Body(phys_limit, V, X)
    BY <1>1, <1>3, <2>1, BodyMore
  <2>3. Body(Reading("processes", current_process) \o frames, V, X)
    BY <2>2, BodyConcat
  <2>4. Body(grow_user_stack, V, X)
    BY <2>2, <2>3, BodyConcat DEF grow_user_stack
  <2> QED
    BY <2>1, <2>4
<1>10. Body(sys_map_user_heap, {"processes", "state", "frames", "heap"}, X)
  <2>1. PICK V : V = {"processes", "state", "frames", "heap"}
    OBVIOUS
  <2>2. Body(Reading("processes", current_process), V, X) /\ Body(frames, V, X) /\ Body(heap, V, X)
    BY <1>1, <1>3, <2>1, BodyMore
  <2>3. Body(Reading("processes", current_process) \o frames, V, X)
    BY <2>2, BodyConcat
  <2>4. Body(sys_map_user_heap, V, X)
    BY <2>2, <2>3, BodyConcat DEF sys_map_user_heap
  <2> QED
    BY <2>1, <2>4
<1>11. Body(sys_process_id, {"processes", "state"}, X)
  BY <1>3, BodyMore DEF sys_process_id
<1> QED
  BY <1>5, <1>6, <1>7, <1>8, <1>9, <1>10, <1>11

\* What the terminal takes, and what the logger takes inside its lock.
TerminalLocks == {"parser", "display", "processes", "heap", "state", "efi"}

\* The terminal, with its status bar inside the display.
LEMMA TerminalScripts ==
  ASSUME NEW X, "heap" \in X
  PROVE  /\ Body(write_str, TerminalLocks, X) /\ Body(clear, TerminalLocks, X)
         /\ Body(read_byte, TerminalLocks \cup {"decoder"}, X)
         /\ Body(Locked("display", Maybe(draw_status_bar)), TerminalLocks, X)
<1>1. PICK V : V = {"processes", "heap", "state", "efi"}
  OBVIOUS
<1>2. Body(heap, {"heap"}, X) /\ Body(active_thread_ids, {"heap", "state"}, X)
  BY MemoryScripts, SchedulerScripts
<1>3. Body(Reading("processes", active_process_ids), {"heap"} \cup {"processes"}, X)
      /\ Body(Reading("efi", heap), {"heap"} \cup {"efi"}, X)
  <2>1. Before("processes", {"heap"}, X) /\ Before("efi", {"heap"}, X)
    BY Order
  <2> QED
    BY <1>2, <2>1, BodyLocked DEF active_process_ids
<1>4. Body(Maybe(Reading("efi", heap)), {"heap"} \cup {"efi"}, X)
  BY <1>3, BodyMaybe
<1>5. /\ Body(heap, V, X) /\ Body(active_thread_ids, V, X)
      /\ Body(Reading("processes", active_process_ids), V, X) /\ Body(Maybe(Reading("efi", heap)), V, X)
  BY <1>1, <1>2, <1>3, <1>4, BodyMore
<1>6. Body(draw_status_bar, V, X)
  <2>1. Body(Reading("processes", active_process_ids) \o active_thread_ids, V, X)
    BY <1>5, BodyConcat
  <2>2. Body(Reading("processes", active_process_ids) \o active_thread_ids \o heap, V, X)
    BY <1>5, <2>1, BodyConcat
  <2> QED
    BY <1>5, <2>2, BodyConcat DEF draw_status_bar
<1>7. Body(Maybe(draw_status_bar), V, X)
  BY <1>6, BodyMaybe
<1>8. Before("display", V, X)
  BY <1>1, Order
<1>9. Body(Locked("display", Maybe(draw_status_bar)), V \cup {"display"}, X)
      /\ Body(Locked("display", draw_status_bar), V \cup {"display"}, X)
  BY <1>6, <1>7, <1>8, BodyLocked
<1>10. Body(Locked("parser", <<>>), {"parser"}, X) /\ Body(Locked("decoder", <<>>), {"decoder"}, X)
  BY EmptyLocked DEF Locks
<1>11. PICK T : T = TerminalLocks
  OBVIOUS
<1>12. /\ Body(Locked("display", Maybe(draw_status_bar)), T, X) /\ Body(clear, T, X)
       /\ Body(Locked("parser", <<>>), T, X)
  BY <1>1, <1>9, <1>10, <1>11, BodyMore DEF TerminalLocks, clear
<1>13. Body(write_str, T, X)
  <2>1. Body(Locked("parser", <<>>) \o Locked("display", Maybe(draw_status_bar)), T, X)
    BY <1>12, BodyConcat
  <2> QED
    BY <1>12, <2>1, BodyConcat DEF write_str
<1>14. Body(read_byte, T \cup {"decoder"}, X)
  <2>1. Body(Locked("decoder", <<>>), T \cup {"decoder"}, X) /\ Body(write_str, T \cup {"decoder"}, X)
    BY <1>10, <1>13, BodyMore
  <2> QED
    BY <2>1, BodyConcat DEF read_byte
<1> QED
  BY <1>11, <1>12, <1>13, <1>14

\* A log message, with and without the terminal as a stream.
LEMMA LogScripts ==
  ASSUME NEW X, "heap" \in X
  PROVE  /\ Body(log(TRUE), TerminalLocks \cup {"logger"}, X) /\ Inside(log(TRUE), "logger")
         /\ Body(log(FALSE), {"heap"} \cup {"logger"}, X) /\ Inside(log(FALSE), "logger")
<1>1. Body(write_str, TerminalLocks, X) /\ Body(heap, {"heap"}, X) /\ Body(<<>>, {}, X)
  BY TerminalScripts, MemoryScripts, BodyEmpty
<1>2. Body(heap, TerminalLocks, X) /\ Body(<<>>, {"heap"}, X)
  BY <1>1, BodyMore DEF TerminalLocks
<1>3. Body(heap \o write_str, TerminalLocks, X) /\ Body(heap \o <<>>, {"heap"}, X)
  BY <1>1, <1>2, BodyConcat
<1>4. Before("logger", TerminalLocks, X) /\ Before("logger", {"heap"}, X)
  BY Order DEF TerminalLocks
<1>5. /\ Body(Locked("logger", heap \o write_str), TerminalLocks \cup {"logger"}, X)
      /\ Inside(Locked("logger", heap \o write_str), "logger")
  BY <1>3, <1>4, BodyLocked
<1>6. /\ Body(Locked("logger", heap \o <<>>), {"heap"} \cup {"logger"}, X)
      /\ Inside(Locked("logger", heap \o <<>>), "logger")
  BY <1>3, <1>4, BodyLocked
<1>7. log(TRUE) = Locked("logger", heap \o write_str) /\ log(FALSE) = Locked("logger", heap \o <<>>)
  BY DEF log
<1> QED
  BY <1>5, <1>6, <1>7

(***************************************************************************)
(* What a job of a thread or of boot is when it begins.                    *)
(***************************************************************************)
Job(s, X) == Safe(s, X) /\ \A l \in Locks : ~Held(s, 1, l)

\* A script that leaves nothing locked is a job.
LEMMA ScriptIsJob ==
  ASSUME NEW s, NEW U, NEW X, Script(s, U, X)
  PROVE  Job(s, X)
BY DEF Job, Script

\* The locks an operation may take inside the scheduler's.
LEMMA InnerLocks ==
  /\ \A job \in {"cursor", "cleanup", "read", "write", "thread_sleep", "thread_switch",
                 "thread_join", "thread_exit", "application_start"} : "heap" \in Inner(job)
  /\ {"heap", "processes", "limit", "frames"} \subseteq Inner("thread_exit")
  /\ TimerLocks \subseteq Inner("thread_switch")
BY DEF Inner, KnownHangs, Locks, TimerLocks

\* Every system call is a job that takes the catalogued locks inside the scheduler's.
LEMMA UserJobs == \A job \in DOMAIN Syscalls : Job(Syscalls[job], Inner(job))
<1>1. Job(read_byte, Inner("read")) /\ Job(write_str, Inner("write"))
  <2>1. /\ Script(read_byte, TerminalLocks \cup {"decoder"}, Inner("read"))
        /\ Script(write_str, TerminalLocks, Inner("write"))
    BY InnerLocks, TerminalScripts DEF Body
  <2> QED
    BY <2>1, ScriptIsJob
<1>2. Job(sys_map_user_heap, Inner("map_user_heap")) /\ Job(sys_process_id, Inner("process_id"))
  <2>1. /\ Script(sys_map_user_heap, {"processes", "state", "frames", "heap"}, Inner("map_user_heap"))
        /\ Script(sys_process_id, {"processes", "state"}, Inner("process_id"))
    BY ProcessScripts DEF Body
  <2> QED
    BY <2>1, ScriptIsJob
<1>3. /\ Job(current_thread, Inner("thread_id")) /\ Job(switch_thread, Inner("thread_switch"))
      /\ Job(sleep, Inner("thread_sleep")) /\ Job(join, Inner("thread_join"))
  <2>1. /\ Script(current_thread, {"state"}, Inner("thread_id"))
        /\ Script(switch_thread, TimerLocks \cup {"state"}, Inner("thread_switch"))
        /\ Script(sleep, {"heap", "state"}, Inner("thread_sleep"))
        /\ Script(join, {"heap", "state"}, Inner("thread_join"))
    BY InnerLocks, SchedulerScripts, SwitchScript DEF Body
  <2> QED
    BY <2>1, ScriptIsJob
<1>4. Job(exit, Inner("thread_exit"))
  BY InnerLocks, ExitScript, ScriptIsJob
<1>5. Job(sys_application_start, Inner("application_start"))
  <2>1. PICK X : X = Inner("application_start")
    OBVIOUS
  <2>2. /\ Body(new_user_thread, {"processes", "frames", "heap"}, X) /\ Body(ready, {"heap", "state"}, X)
        /\ Body(Maybe(drop_thread(Maybe(drop_process))), TimerLocks, X)
    BY <2>1, InnerLocks, ProcessScripts, SchedulerScripts, MemoryScripts
  <2>3. PICK U : U = {"processes", "frames", "heap", "state", "limit"}
    OBVIOUS
  <2>4. /\ Body(new_user_thread, U, X) /\ Body(ready, U, X)
        /\ Body(Maybe(drop_thread(Maybe(drop_process))), U, X)
    BY <2>2, <2>3, BodyMore DEF TimerLocks
  <2>5. Body(new_user_thread \o ready, U, X)
    BY <2>4, BodyConcat
  <2>6. Script(sys_application_start, U, X)
    BY <2>4, <2>5, BodyConcat DEF sys_application_start, Body
  <2> QED
    BY <2>1, <2>6, ScriptIsJob
<1>6. Job(sys_get_date, Inner("get_date")) /\ Job(sys_set_date, Inner("set_date"))
  <2>1. ASSUME NEW X PROVE Script(sys_get_date, {"heap", "efi"}, X) /\ Script(sys_set_date, {"heap", "efi"}, X)
    <3>1. Before("efi", {"heap"}, X) /\ Body(heap, {"heap"}, X)
      BY Order, MemoryScripts
    <3>2. Body(sys_get_date, {"heap"} \cup {"efi"}, X)
      BY <3>1, BodyLocked DEF sys_get_date
    <3>3. Body(sys_set_date, {"efi"}, X)
      BY EmptyLocked DEF sys_set_date, Locks
    <3> QED
      BY <3>2, <3>3, BodyMore DEF Body
  <2> QED
    BY <2>1, ScriptIsJob
<1> QED
  BY <1>1, <1>2, <1>3, <1>4, <1>5, <1>6 DEF Syscalls

\* So is what the kernel's own threads do.
LEMMA ThreadJobs == \A job \in DOMAIN KernelJobs : Job(KernelJobs[job], Inner(job))
<1>1. Job(cursor_run, Inner("cursor"))
  <2>1. PICK X : X = Inner("cursor")
    OBVIOUS
  <2>2. /\ Script(sleep, {"heap", "state"}, X)
        /\ Script(Locked("display", Maybe(draw_status_bar)), TerminalLocks, X)
    BY <2>1, InnerLocks, SchedulerScripts, TerminalScripts DEF Body
  <2>3. Script(sleep, TerminalLocks, X)
    BY <2>2, MoreLocks DEF TerminalLocks
  <2>4. Script(cursor_run, TerminalLocks, X)
    BY <2>2, <2>3, ConcatScript DEF cursor_run
  <2> QED
    BY <2>1, <2>4, ScriptIsJob
<1>2. Job(cleanup_run, Inner("cleanup"))
  <2>1. PICK X : X = Inner("cleanup")
    OBVIOUS
  <2>2. PICK U : U = {"processes", "frames", "heap", "state"}
    OBVIOUS
  <2>3. /\ Script(sleep, {"heap", "state"}, X)
        /\ Script(Locked("processes", drop_exited_process), {"processes", "frames", "heap"}, X)
    BY <2>1, InnerLocks, SchedulerScripts, ProcessScripts DEF Body
  <2>4. Script(sleep, U, X) /\ Script(Locked("processes", drop_exited_process), U, X)
    BY <2>2, <2>3, MoreLocks
  <2>5. Script(cleanup_run, U, X)
    BY <2>4, ConcatScript DEF cleanup_run
  <2> QED
    BY <2>1, <2>5, ScriptIsJob
<1> QED
  BY <1>1, <1>2 DEF KernelJobs

(***************************************************************************)
(* Boot: `finish` is the only job that switches, and it has removed the    *)
(* terminal from the logger before it draws on it.                         *)
(***************************************************************************)
Finishing(s) ==
  /\ s \in Seq(Steps) /\ Len(s) >= 2
  /\ s[1].do = "lock" /\ s[1].lock = "logger" /\ s[2].do = "remove"

Switchless(s) == \A i \in 1 .. Len(s) : s[i].do # "switch"

\* A script before one that ends in a switch ends in that switch.
LEMMA FinishingConcat ==
  ASSUME NEW a, NEW b \in Seq(Steps), Finishing(a), Switchless(a)
  PROVE  /\ Finishing(a \o b)
         /\ Switchless(b) => Switchless(a \o b)
         /\ SwitchesLast(b) => SwitchesLast(a \o b)
<1>1. a \in Seq(Steps) /\ Len(a) >= 2
  BY DEF Finishing
<1>2. PICK s : s = a \o b
  OBVIOUS
<1>3. /\ Len(a) \in Nat /\ Len(b) \in Nat /\ s \in Seq(Steps) /\ Len(s) = Len(a) + Len(b)
      /\ \A k \in 1 .. Len(a) : s[k] = a[k]
      /\ \A k \in 1 .. Len(b) : s[k + Len(a)] = b[k]
  BY <1>1, <1>2
<1>4. Finishing(s)
  <2>1. 1 \in 1 .. Len(a) /\ 2 \in 1 .. Len(a) /\ Len(s) >= 2
    BY <1>1, <1>3
  <2> QED
    BY <1>3, <2>1 DEF Finishing
<1>5. ASSUME NEW i \in 1 .. Len(s), s[i].do = "switch"
      PROVE  \E k \in 1 .. Len(b) : b[k].do = "switch" /\ (k = Len(b) => i = Len(s))
  <2>1. i \notin 1 .. Len(a)
    BY <1>3, <1>5 DEF Switchless
  <2>2. i - Len(a) \in 1 .. Len(b) /\ (i - Len(a)) + Len(a) = i /\ (i - Len(a) = Len(b) => i = Len(s))
    BY <1>3, <2>1
  <2>3. b[i - Len(a)].do = "switch"
    BY <1>3, <1>5, <2>2
  <2> QED
    BY <2>2, <2>3
<1>6. /\ Switchless(b) => Switchless(s)
      /\ SwitchesLast(b) => SwitchesLast(s)
  BY <1>5 DEF Switchless, SwitchesLast
<1> QED
  BY <1>2, <1>4, <1>6

removal == Locked("logger", <<Step("remove", "")>>)

\* Boot unregisters the terminal under the logger's lock.
LEMMA RemoveScript ==
  ASSUME NEW X
  PROVE  Script(removal, {"logger"}, X) /\ Finishing(removal) /\ Switchless(removal)
<1>0. PICK r : r = removal
  OBVIOUS
<1>1. PICK m \in Steps : m = Step("remove", "") /\ m.do = "remove" /\ m.lock = ""
  <2>1. Step("remove", "") \in Steps /\ Step("remove", "").do = "remove" /\ Step("remove", "").lock = ""
    BY DEF Step, Steps
  <2> QED
    BY <2>1
<1>2. PICK b : b = <<m>>
  OBVIOUS
<1>3. b \in Seq(Steps) /\ Len(b) = 1 /\ b[1] = m /\ (\A k \in 1 .. Len(b) : k = 1)
      /\ 1 \in 1 .. Len(b) + 1 /\ 1 \in 1 .. Len(b)
  BY <1>2
<1>4. Script(b, {}, X)
  <2>1. \A h \in Locks : \A i \in 1 .. Len(b) : b[i].lock # h
    BY <1>1, <1>3 DEF Locks
  <2>2. \A h \in Locks : \A D : ~HeldBy(b, 1, h, D)
    BY <1>3, <2>1, HeldNowhere
  <2>3. \A h \in Locks : ~Held(b, 1, h)
    BY <2>2 DEF Held, HeldX, HeldS
  <2>4. b[1].do = "remove" /\ b[1].lock = ""
    BY <1>1, <1>3
  <2>5. Fine(b, 1, X)
    BY <2>4 DEF Fine
  <2> QED
    BY <1>3, <2>3, <2>4, <2>5 DEF Script, Safe
<1>5. Enclosable(b, {}, X, "logger")
  BY <1>1, <1>3, <1>4 DEF Enclosable, Locks
<1>6. PICK o \in Steps : o = Step("lock", "logger") /\ o.lock = "logger" /\ o.do = "lock"
  <2>1. /\ Step("lock", "logger") \in Steps /\ Step("lock", "logger").lock = "logger"
        /\ Step("lock", "logger").do = "lock"
    BY DEF Step, Steps, Locks
  <2> QED
    BY <2>1
<1>7. PICK z \in Steps : z = Step("unlock", "logger") /\ z.lock = "logger" /\ z.do = "unlock"
  <2>1. /\ Step("unlock", "logger") \in Steps /\ Step("unlock", "logger").lock = "logger"
        /\ Step("unlock", "logger").do = "unlock"
    BY DEF Step, Steps, Locks
  <2> QED
    BY <2>1
<1>8. r = Wrap(o, b, z)
  BY <1>0, <1>1, <1>2, <1>6, <1>7, Zenon DEF Wrap, Locked, removal
<1>9. Encloses(o, z, "logger")
  BY <1>6, <1>7 DEF Encloses
<1>10. Bracketed(r, b, {}, X, "logger", o, z)
  BY <1>5, <1>8, <1>9, BracketScript
<1>11. /\ Script(r, {} \cup {"logger"}, X) /\ Len(r) = Len(b) + 2 /\ r[1] = o /\ r[Len(b) + 2] = z
       /\ \A k \in 1 .. Len(b) : r[k + 1] = b[k]
  BY <1>10 DEF Bracketed
<1>12. r \in Seq(Steps)
  BY <1>11 DEF Script, Safe
<1>13. Len(r) = 3 /\ r[1] = o /\ r[2] = m /\ r[3] = z
  BY <1>3, <1>11
<1>14. Finishing(r)
  <2>1. r[1].do = "lock" /\ r[1].lock = "logger" /\ r[2].do = "remove"
    BY <1>1, <1>6, <1>13
  <2>2. Len(r) >= 2
    BY <1>13
  <2> QED
    BY <1>12, <2>1, <2>2 DEF Finishing
<1>15. Switchless(r)
  <2>1. \A i \in 1 .. 3 : i = 1 \/ i = 2 \/ i = 3
    OBVIOUS
  <2> QED
    BY <1>1, <1>6, <1>7, <1>13, <2>1 DEF Switchless
<1>16. {} \cup {"logger"} = {"logger"}
  OBVIOUS
<1> QED
  BY <1>0, <1>11, <1>14, <1>15, <1>16

\* Three ways to keep the terminal's locks inside the logger's.
LEMMA ScreenWays ==
  ASSUME NEW s, NEW U, NEW X, Script(s, U, X)
  PROVE  /\ NoSwitch(s) /\ U \cap Screen = {} => ScreenInside(s)
         /\ NoSwitch(s) /\ Inside(s, "logger") => ScreenInside(s)
         /\ Finishing(s) => ScreenInside(s)
<1>1. s \in Seq(Steps)
  BY DEF Script, Safe
<1>2. Len(s) \in Nat /\ \A i \in 1 .. Len(s) : i \in 1 .. Len(s) + 1 /\ (i = 1 \/ i \in 2 .. Len(s))
  BY <1>1
<1>3. Screen \subseteq Locks /\ "" \notin Screen /\ "logger" \notin Screen
  BY DEF Screen, Locks
<1>4. \A l \in Screen : ~Held(s, 1, l)
  BY <1>3 DEF Script
<1>5. ASSUME NoSwitch(s), U \cap Screen = {} PROVE ScreenInside(s)
  <2>1. ASSUME NEW l \in Screen, NEW i \in 1 .. Len(s) PROVE ~Held(s, i, l)
    <3>1. \A k \in 1 .. Len(s) : s[k].lock # l
      BY <1>3, <1>5 DEF Script
    <3>2. \A D : \A k \in 1 .. Len(s) + 1 : ~HeldBy(s, k, l, D)
      BY <1>1, <3>1, HeldNowhere
    <3> QED
      BY <1>2, <3>2 DEF Held, HeldX, HeldS
  <2> QED
    BY <1>5, <2>1 DEF ScreenInside, NoSwitch
<1>6. ASSUME NoSwitch(s), Inside(s, "logger") PROVE ScreenInside(s)
  BY <1>2, <1>4, <1>6 DEF ScreenInside, NoSwitch, Inside
<1>7. ASSUME Finishing(s) PROVE ScreenInside(s)
  <2>1. Len(s) >= 2 /\ s[1].do = "lock" /\ s[1].lock = "logger" /\ s[2].do = "remove"
    BY <1>7 DEF Finishing
  <2>2. ASSUME NEW l \in Screen PROVE ~Held(s, 2, l)
    <3>0. s[1].lock # l
      BY <1>3, <2>1
    <3>1. s[1].lock # l /\ 1 \in 1 .. Len(s) /\ 1 + 1 = 2
      BY <1>2, <2>1, <3>0
    <3>2. \A D : HeldBy(s, 1, l, D) <=> HeldBy(s, 1 + 1, l, D)
      BY <1>1, <3>1, HeldNext
    <3> QED
      BY <1>4, <3>1, <3>2 DEF Held, HeldX, HeldS
  <2>3. \A i \in 1 .. Len(s) : i = 1 \/ i = 2 \/ 2 \in 1 .. i - 1
    BY <1>2
  <2> QED
    BY <1>4, <2>1, <2>2, <2>3 DEF ScreenInside
<1> QED
  BY <1>5, <1>6, <1>7

BootJob(s) == Job(s, Locks) /\ SwitchesLast(s) /\ ScreenInside(s)

\* What start() does before the scheduler runs.
LEMMA StartJobs ==
  \A job \in DOMAIN BootJobs : BootJob(BootJobs[job])
<1>0. "heap" \in Locks
  BY DEF Locks
<1>1. ASSUME NEW s, NEW U, Body(s, U, Locks), U \cap Screen = {} \/ Inside(s, "logger")
      PROVE  BootJob(s)
  <2>1. Script(s, U, Locks) /\ NoSwitch(s)
    BY <1>1 DEF Body
  <2>2. SwitchesLast(s)
    BY <2>1 DEF NoSwitch, SwitchesLast
  <2> QED
    BY <1>1, <2>1, <2>2, ScriptIsJob, ScreenWays DEF BootJob
<1>2. BootJob(log(TRUE))
  <2>1. Body(log(TRUE), TerminalLocks \cup {"logger"}, Locks) /\ Inside(log(TRUE), "logger")
    BY <1>0, LogScripts
  <2> QED
    BY <1>1, <2>1
<1>3. PICK U : U = {"processes", "frames", "heap", "state"}
  OBVIOUS
<1>4. U \cap Screen = {}
  BY <1>3 DEF Screen
<1>5. /\ Body(heap, U, Locks) /\ Body(frames, U, Locks) /\ Body(ready, U, Locks)
      /\ Body(new_kernel_thread, U, Locks) /\ Body(new_user_thread, U, Locks)
  <2>1. /\ Body(heap, {"heap"}, Locks) /\ Body(frames, {"frames"}, Locks) /\ Body(ready, {"heap", "state"}, Locks)
        /\ Body(new_kernel_thread, {"processes", "frames", "heap"}, Locks)
        /\ Body(new_user_thread, {"processes", "frames", "heap"}, Locks)
    BY <1>0, MemoryScripts, SchedulerScripts, ProcessScripts
  <2> QED
    BY <1>3, <2>1, BodyMore
<1>6. BootJob(frames \o heap) /\ BootJob(new_kernel_thread \o ready) /\ BootJob(new_user_thread \o ready)
  <2>1. /\ Body(frames \o heap, U, Locks) /\ Body(new_kernel_thread \o ready, U, Locks)
        /\ Body(new_user_thread \o ready, U, Locks)
    BY <1>5, BodyConcat
  <2> QED
    BY <1>1, <1>4, <2>1
<1>7. BootJob(removal \o clear \o write_str \o log(FALSE) \o Switching(<<>>))
  <2>1. PICK r : r = removal
    OBVIOUS
  <2>2. PICK w : w = Switching(<<>>)
    OBVIOUS
  <2>3. PICK V : V = TerminalLocks \cup {"logger"}
    OBVIOUS
  <2>4. TerminalLocks \subseteq V /\ {"heap"} \cup {"logger"} \subseteq V
        /\ {"logger"} \subseteq V /\ {} \cup {"state"} \subseteq V
    BY <2>3 DEF TerminalLocks
  <2>5. /\ Script(r, V, Locks) /\ Finishing(r) /\ Switchless(r)
    BY <2>1, <2>4, RemoveScript, MoreLocks
  <2>6. /\ Script(clear, V, Locks) /\ Script(write_str, V, Locks) /\ Script(log(FALSE), V, Locks)
        /\ NoSwitch(clear) /\ NoSwitch(write_str) /\ NoSwitch(log(FALSE))
    BY <1>0, <2>4, TerminalScripts, LogScripts, MoreLocks DEF Body
  <2>7. Script(w, V, Locks) /\ SwitchesLast(w)
    <3>1. Script(<<>>, {}, Locks) /\ NoSwitch(<<>>)
      BY EmptyScript
    <3>2. Script(w, {} \cup {"state"}, Locks) /\ SwitchesLast(w)
      BY <2>2, <3>1, SwitchingScript
    <3> QED
      BY <2>4, <3>2, MoreLocks
  <2>8. \A s : Script(s, V, Locks) => s \in Seq(Steps) /\ (NoSwitch(s) => Switchless(s))
    BY DEF Script, Safe, NoSwitch, Switchless
  <2>9. Script(r \o clear, V, Locks) /\ Finishing(r \o clear) /\ Switchless(r \o clear)
    BY <2>5, <2>6, <2>8, ConcatScript, FinishingConcat
  <2>10. /\ Script(r \o clear \o write_str, V, Locks)
         /\ Finishing(r \o clear \o write_str) /\ Switchless(r \o clear \o write_str)
    BY <2>6, <2>8, <2>9, ConcatScript, FinishingConcat
  <2>11. PICK q : q = r \o clear \o write_str \o log(FALSE)
    OBVIOUS
  <2>12. Script(q, V, Locks) /\ Finishing(q) /\ Switchless(q)
    BY <2>6, <2>8, <2>10, <2>11, ConcatScript, FinishingConcat
  <2>13. Script(q \o w, V, Locks) /\ Finishing(q \o w) /\ SwitchesLast(q \o w)
    BY <2>7, <2>8, <2>12, ConcatScript, FinishingConcat
  <2>14. BootJob(q \o w)
    BY <2>13, ScriptIsJob, ScreenWays DEF BootJob
  <2> QED
    BY <2>1, <2>2, <2>11, <2>14
<1>8. PICK a, b, c, d, e :
        /\ a = log(TRUE) /\ b = frames \o heap /\ c = new_kernel_thread \o ready
        /\ d = new_user_thread \o ready
        /\ e = removal \o clear \o write_str \o log(FALSE) \o Switching(<<>>)
  OBVIOUS
<1>9. BootJobs = [log |-> a, map |-> b, kernel_thread |-> c, user_thread |-> d, finish |-> e]
  BY <1>8, Zenon DEF BootJobs, removal
<1>10. BootJob(a) /\ BootJob(b) /\ BootJob(c) /\ BootJob(d) /\ BootJob(e)
  BY <1>2, <1>6, <1>7, <1>8, Zenon
<1> QED
  BY <1>9, <1>10

(***************************************************************************)
(* The scripts of the handlers.                                            *)
(***************************************************************************)
HandlerJob(s) == Safe(s, Locks) /\ \A l \in Locks : ~Held(s, 1, l)

\* What the interrupt handlers do.
LEMMA HandlerJobs ==
  /\ HandlerJob(switch_thread) /\ Takes(switch_thread, TimerLocks)
  /\ \A b \in BOOLEAN :
       /\ HandlerJob(log(b)) /\ NoSwitch(log(b)) /\ Takes(log(b), SoundLocks(b))
       /\ Draws(log(b))
  /\ HandlerJob(handle_page_fault) /\ NoSwitch(handle_page_fault)
  /\ Takes(handle_page_fault, {"state", "processes", "frames", "limit"})
<1>0. /\ "heap" \in Locks /\ TimerLocks \subseteq Locks
      /\ \A s, U : Script(s, U, Locks) => HandlerJob(s) /\ Takes(s, U)
  BY ScriptTakes DEF HandlerJob, Script, Locks, TimerLocks
<1>1. HandlerJob(switch_thread) /\ Takes(switch_thread, TimerLocks)
  BY <1>0, SwitchScript
<1>2. ASSUME NEW b \in BOOLEAN
      PROVE  /\ HandlerJob(log(b)) /\ NoSwitch(log(b)) /\ Takes(log(b), SoundLocks(b))
             /\ Draws(log(b))
  <2>1. PICK s : s = log(b)
    OBVIOUS
  <2>2. \E U : Script(s, U, Locks) /\ NoSwitch(s) /\ Inside(s, "logger") /\ U \subseteq SoundLocks(b)
    <3>1. CASE b
      <4>1. Body(log(TRUE), TerminalLocks \cup {"logger"}, Locks) /\ Inside(log(TRUE), "logger")
        BY <1>0, LogScripts
      <4>2. b = TRUE /\ TerminalLocks \cup {"logger"} \subseteq SoundLocks(b)
        BY <3>1 DEF TerminalLocks, SoundLocks, Screen
      <4> QED
        BY <2>1, <4>1, <4>2 DEF Body
    <3>2. CASE ~b
      <4>1. Body(log(FALSE), {"heap"} \cup {"logger"}, Locks) /\ Inside(log(FALSE), "logger")
        BY <1>0, LogScripts
      <4>2. b = FALSE /\ {"heap"} \cup {"logger"} \subseteq SoundLocks(b)
        BY <3>2 DEF SoundLocks
      <4> QED
        BY <2>1, <4>1, <4>2 DEF Body
    <3> QED
      BY <3>1, <3>2
  <2>3. PICK U : Script(s, U, Locks) /\ NoSwitch(s) /\ Inside(s, "logger") /\ U \subseteq SoundLocks(b)
    BY <2>2
  <2>4. HandlerJob(s) /\ Takes(s, SoundLocks(b))
    BY <1>0, <2>3 DEF Takes
  <2>5. s \in Seq(Steps)
    BY <2>3 DEF Script, Safe
  <2>6. \A i \in 1 .. Len(s) : i = 1 \/ i \in 2 .. Len(s)
    BY <2>5
  <2>7. Draws(s)
    BY <2>3, <2>6 DEF Inside, Screen, Draws
  <2> QED
    BY <2>1, <2>3, <2>4, <2>7
<1>3. PICK V : V = {"state", "processes", "frames", "limit"}
  OBVIOUS
<1>4. Body(current_thread, {"state"}, Locks) /\ Body(grow_user_stack, {"processes", "state", "frames", "limit"}, Locks)
  BY SchedulerScripts, ProcessScripts
<1>5. Body(current_thread, V, Locks) /\ Body(grow_user_stack, V, Locks)
  BY <1>3, <1>4, BodyMore
<1>6. Script(handle_page_fault, V, Locks) /\ NoSwitch(handle_page_fault)
  BY <1>5, BodyConcat DEF handle_page_fault, Body
<1> QED
  BY <1>0, <1>1, <1>2, <1>3, <1>6

-----------------------------------------------------------------------------
(***************************************************************************)
(* What remains of a script keeps what holds of the script.                *)
(***************************************************************************)
Kept(s, r) ==
  /\ \A X : Safe(s, X) => Safe(r, X)
  /\ SwitchesLast(s) => SwitchesLast(r)
  /\ NoSwitch(s) => NoSwitch(r)
  /\ \A L : Takes(s, L) => Takes(r, L)
  /\ Draws(s) => Draws(r)

\* A finished script keeps what was promised of it.
LEMMA KeptEmpty == ASSUME NEW s PROVE Kept(s, <<>>) /\ ScreenInside(<<>>)
<1>1. Len(<<>>) = 0 /\ 1 .. 0 = {} /\ <<>> \in Seq(Steps)
  OBVIOUS
<1> QED
  BY <1>1 DEF Kept, Safe, SwitchesLast, NoSwitch, Takes, Draws, ScreenInside

\* What remains of a script keeps what was promised of the whole.
LEMMA KeptSuffix ==
  ASSUME NEW s \in Seq(Steps), NEW n \in 1 .. Len(s), NEW r, r = SubSeq(s, n + 1, Len(s))
  PROVE  /\ Kept(s, r)
         /\ \A l, D : HeldBy(r, 1, l, D) <=> HeldBy(s, n + 1, l, D)
         /\ (\A k \in 1 .. n : s[k].do # "remove") /\ ScreenInside(s) => ScreenInside(r)
<1>0. Len(s) \in Nat /\ n \in Nat /\ n \in 0 .. Len(s)
  OBVIOUS
<1>1. /\ r \in Seq(Steps) /\ Len(r) = Len(s) - n /\ \A i \in 1 .. Len(s) - n : r[i] = s[i + n]
      /\ \A i \in 1 .. Len(s) - n + 1 : \A l, D : HeldBy(r, i, l, D) <=> HeldBy(s, i + n, l, D)
  BY <1>0, HeldSuffix
<1>2. \A X : Safe(s, X) => Safe(r, X)
  BY <1>0, SafeSuffix
<1>3. ASSUME NEW i \in 1 .. Len(r)
      PROVE  /\ i + n \in 1 .. Len(s) /\ r[i] = s[i + n] /\ (i + n = Len(s) => i = Len(r))
             /\ \A l : /\ HeldX(r, i, l) <=> HeldX(s, i + n, l)
                       /\ Held(r, i, l) <=> Held(s, i + n, l)
  <2>1. i \in 1 .. Len(s) - n /\ i \in 1 .. Len(s) - n + 1 /\ i + n \in 1 .. Len(s)
        /\ (i + n = Len(s) => i = Len(r))
    BY <1>0, <1>1
  <2>2. \A l, D : HeldBy(r, i, l, D) <=> HeldBy(s, i + n, l, D)
    BY <1>1, <2>1
  <2> QED
    BY <1>1, <2>1, <2>2 DEF Held, HeldX, HeldS
<1>4. Kept(s, r)
  BY <1>2, <1>3 DEF Kept, SwitchesLast, NoSwitch, Takes, Draws
<1>5. \A l, D : HeldBy(r, 1, l, D) <=> HeldBy(s, n + 1, l, D)
  <2>1. 1 \in 1 .. Len(s) - n + 1 /\ 1 + n = n + 1
    BY <1>0
  <2> QED
    BY <1>1, <2>1
<1>6. ASSUME \A k \in 1 .. n : s[k].do # "remove", ScreenInside(s) PROVE ScreenInside(r)
  <2>1. ASSUME NEW i \in 1 .. Len(r), \E k \in 1 .. (i + n) - 1 : s[k].do = "remove"
        PROVE  \E k \in 1 .. i - 1 : r[k].do = "remove"
    <3>1. PICK k \in 1 .. (i + n) - 1 : s[k].do = "remove"
      BY <2>1
    <3>2. k \notin 1 .. n
      BY <1>6, <3>1
    <3>3. Len(r) \in Nat /\ i \in Nat
      BY <1>0, <1>1
    <3>4. k - n \in 1 .. i - 1 /\ k - n \in 1 .. Len(r) /\ (k - n) + n = k
      BY <1>0, <3>2, <3>3
    <3>5. r[k - n] = s[k]
      BY <1>3, <3>4
    <3> QED
      BY <3>1, <3>4, <3>5
  <2>2. ASSUME NEW i \in 1 .. Len(r)
        PROVE  /\ \A l \in Screen : Held(r, i, l) => HeldX(r, i, "logger") \/ \E k \in 1 .. i - 1 : r[k].do = "remove"
               /\ r[i].do = "switch" => \E k \in 1 .. i - 1 : r[k].do = "remove"
    <3>1. /\ \A l \in Screen : Held(s, i + n, l) => HeldX(s, i + n, "logger") \/ \E k \in 1 .. (i + n) - 1 : s[k].do = "remove"
          /\ s[i + n].do = "switch" => \E k \in 1 .. (i + n) - 1 : s[k].do = "remove"
      BY <1>3, <1>6 DEF ScreenInside
    <3> QED
      BY <1>3, <2>1, <3>1
  <2> QED
    BY <2>2 DEF ScreenInside
<1> QED
  BY <1>4, <1>5, <1>6

\* The tail of a script is what remains after its first step.
LEMMA TailIsSuffix ==
  ASSUME NEW s \in Seq(Steps), s # <<>>
  PROVE  /\ Tail(s) = SubSeq(s, 1 + 1, Len(s)) /\ 1 \in 1 .. Len(s) /\ Head(s) = s[1] /\ s[1] \in Steps
         /\ Tail(s) \in Seq(Steps)
OBVIOUS

\* A lock is not held both ways.
LEMMA HeldOneWay ==
  ASSUME NEW s \in Seq(Steps), NEW i \in Nat, NEW l
  PROVE  ~(HeldX(s, i, l) /\ HeldS(s, i, l))
<1>1. SUFFICES ASSUME HeldX(s, i, l), HeldS(s, i, l) PROVE FALSE
  OBVIOUS
<1>2. PICK p \in i .. Len(s) : /\ s[p].lock = l /\ s[p].do \in {"unlock", "switch"}
                               /\ \A j \in i .. p - 1 : s[j].lock # l
  BY <1>1 DEF HeldX, HeldBy
<1>3. PICK q \in i .. Len(s) : /\ s[q].lock = l /\ s[q].do \in {"unread"}
                               /\ \A j \in i .. q - 1 : s[j].lock # l
  BY <1>1 DEF HeldS, HeldBy
<1>4. Len(s) \in Nat
  OBVIOUS
<1>5. p = q \/ p \in i .. q - 1 \/ q \in i .. p - 1
  BY <1>4
<1> QED
  BY <1>2, <1>3, <1>5

-----------------------------------------------------------------------------
(***************************************************************************)
(* Every step keeps the invariant.                                         *)
(***************************************************************************)
\* The locks change hands as the script of c says, and nobody else's do.
Matches(c, r, w, rd) ==
  \A l \in Locks :
    /\ w[l] = c <=> HeldX(r, 1, l)
    /\ c \in rd[l] <=> HeldS(r, 1, l)
    /\ \A d \in Contexts \ {c} : /\ w[l] = d <=> writer[l] = d
                                 /\ d \in rd[l] <=> d \in readers[l]

\* Threads, the boot code, the handler and the free lock are different things.
LEMMA ContextFacts ==
  /\ Boot \in Contexts /\ Handler \in Contexts /\ Threads \subseteq Contexts
  /\ Boot \notin Threads /\ Handler \notin Threads /\ Handler # Boot /\ Free \notin Contexts
  /\ Contexts = Threads \cup {Boot, Handler}
BY ContextsDistinct DEF Contexts, Threads

\* Every operation has a name.
LEMMA JobNames ==
  /\ "" \in Jobs /\ "timer" \in Jobs /\ "sound" \in Jobs /\ "page_fault" \in Jobs
  /\ DOMAIN Syscalls \subseteq Jobs /\ DOMAIN KernelJobs \subseteq Jobs /\ DOMAIN BootJobs \subseteq Jobs
BY Zenon DEF Jobs

\* The context that executes is the one on the CPU, or the handler on top.
LEMMA WhoRuns ==
  ASSUME TypeOK
  PROVE  /\ cpu \in Threads \cup {Boot} /\ cpu \in Contexts /\ cpu # Handler
         /\ Running \in Contexts
         /\ Running # Handler => cpu = Running /\ todo[Handler] = <<>>
         /\ Running = Handler => todo[Handler] # <<>>
<1>1. cpu \in Threads \cup {Boot}
  BY DEF TypeOK
<1> QED
  BY <1>1, ContextFacts DEF Running

\* One context goes on; r remains.
LEMMA ContinueKeeps ==
  ASSUME IInv, NEW c \in Contexts, Running = c, NEW r, Kept(todo[c], r), r \in Seq(Steps),
         Continue(c, r),
         writer' \in [Locks -> Contexts \cup {Free}], readers' \in [Locks -> SUBSET Contexts],
         Matches(c, r, writer', readers')
  PROVE  /\ op' \in [Contexts -> Jobs] /\ todo' \in [Contexts -> Seq(Steps)]
         /\ todo'[c] = r /\ \A d \in Contexts \ {c} : todo'[d] = todo[d]
         /\ r # <<>> => op' = op
         /\ ScriptsSafe' /\ TableMatches' /\ SwitchesLast(todo[Boot])'
<1>1. TypeOK /\ ScriptsSafe /\ TableMatches /\ SwitchesLast(todo[Boot])
  BY DEF IInv, BootFirst
<1>2. op \in [Contexts -> Jobs] /\ todo \in [Contexts -> Seq(Steps)]
  BY <1>1 DEF TypeOK
<1>3. todo' = [todo EXCEPT ![c] = r] /\ op' = [op EXCEPT ![c] = IF r = <<>> THEN "" ELSE @]
  BY DEF Continue
<1>4. todo' \in [Contexts -> Seq(Steps)] /\ todo'[c] = r /\ \A d \in Contexts \ {c} : todo'[d] = todo[d]
  BY <1>2, <1>3
<1>5. op' \in [Contexts -> Jobs] /\ (\A d \in Contexts \ {c} : op'[d] = op[d]) /\ (r # <<>> => op'[c] = op[c])
  BY <1>2, <1>3, JobNames
<1>6. r # <<>> => op' = op
  BY <1>2, <1>3
<1>7. ScriptsSafe'
  <2>1. ASSUME NEW d \in Contexts PROVE Safe(todo[d], Allowed(d))'
    <3>1. CASE d # c
      <4>1. Safe(todo[d], Allowed(d))
        BY <1>1 DEF ScriptsSafe
      <4>2. todo'[d] = todo[d] /\ op'[d] = op[d]
        BY <1>4, <1>5, <3>1
      <4> QED
        BY <4>1, <4>2 DEF Allowed
    <3>2. CASE d = c /\ r = <<>>
      <4>1. todo'[d] = <<>>
        BY <1>4, <3>2
      <4>2. \A X : Safe(<<>>, X)
        BY EmptyScript DEF Script
      <4> QED
        BY <4>1, <4>2
    <3>3. CASE d = c /\ r # <<>>
      <4>1. Safe(todo[d], Allowed(d))
        BY <1>1 DEF ScriptsSafe
      <4>2. Safe(r, Allowed(d))
        BY <3>3, <4>1 DEF Kept
      <4>3. todo'[d] = r /\ op'[d] = op[d]
        BY <1>4, <1>5, <3>3
      <4> QED
        BY <4>2, <4>3 DEF Allowed
    <3> QED
      BY <3>1, <3>2, <3>3
  <2> QED
    BY <2>1 DEF ScriptsSafe
<1>8. TableMatches'
  <2>1. ASSUME NEW d \in Contexts, NEW l \in Locks
        PROVE  /\ writer'[l] = d <=> HeldX(todo'[d], 1, l)
               /\ d \in readers'[l] <=> HeldS(todo'[d], 1, l)
    <3>1. CASE d = c
      BY <1>4, <3>1 DEF Matches
    <3>2. CASE d # c
      BY <1>1, <1>4, <3>2 DEF Matches, TableMatches
    <3> QED
      BY <3>1, <3>2
  <2> QED
    BY <2>1 DEF TableMatches
<1>9. SwitchesLast(todo[Boot])'
  <2>1. SwitchesLast(todo'[Boot])
    BY <1>1, <1>4, ContextFacts DEF Kept
  <2> QED
    BY <2>1 DEF SwitchesLast
<1> QED
  BY <1>4, <1>5, <1>6, <1>7, <1>8, <1>9

\* Nothing else changes: a step that takes or releases a lock, or a branch.
LEMMA PlainStep ==
  ASSUME IInv, NEW c \in Contexts, Running = c, NEW r, Kept(todo[c], r), r \in Seq(Steps),
         ScreenInside(todo[c]) => ScreenInside(r),
         Continue(c, r), UNCHANGED <<cpu, registered>>,
         writer' \in [Locks -> Contexts \cup {Free}], readers' \in [Locks -> SUBSET Contexts],
         Matches(c, r, writer', readers')
  PROVE  IInv'
<1>1. /\ op' \in [Contexts -> Jobs] /\ todo' \in [Contexts -> Seq(Steps)]
      /\ todo'[c] = r /\ \A d \in Contexts \ {c} : todo'[d] = todo[d]
      /\ r # <<>> => op' = op
      /\ ScriptsSafe' /\ TableMatches' /\ SwitchesLast(todo[Boot])'
  BY ContinueKeeps
<1>2. TypeOK /\ StateOnCpu /\ BootFirst /\ HandlerScripts
  BY DEF IInv
<1>3. cpu' = cpu /\ registered' = registered
  OBVIOUS
<1>4. TypeOK'
  BY <1>1, <1>2, <1>3 DEF TypeOK
<1>5. /\ cpu \in Threads \cup {Boot} /\ cpu \in Contexts /\ cpu # Handler
      /\ c # Handler => cpu = c /\ todo[Handler] = <<>>
  BY <1>2, WhoRuns
<1>6. StateOnCpu'
  <2>1. ASSUME NEW t \in Threads \cup {Boot}, t # cpu PROVE ~HeldX(todo'[t], 1, "state")
    <3>1. t \in Contexts /\ t # c
      BY <1>5, <2>1, ContextFacts
    <3>2. todo'[t] = todo[t]
      BY <1>1, <3>1
    <3> QED
      BY <1>2, <2>1, <3>2 DEF StateOnCpu
  <2> QED
    BY <1>3, <2>1 DEF StateOnCpu
<1>7. BootFirst'
  <2>1. cpu = Boot => \A t \in Threads : todo'[t] = <<>>
    <3>1. ASSUME cpu = Boot, NEW t \in Threads PROVE todo'[t] = <<>>
      <4>1. todo[t] = <<>> /\ t # c /\ t \in Contexts
        BY <1>2, <1>5, <3>1, ContextFacts DEF BootFirst
      <4> QED
        BY <1>1, <4>1
    <3> QED
      BY <3>1
  <2>2. cpu # Boot => todo'[Boot] = <<>> /\ ~registered
    <3>1. ASSUME cpu # Boot PROVE todo'[Boot] = <<>> /\ ~registered
      <4>1. todo[Boot] = <<>> /\ ~registered /\ Boot # c /\ Boot \in Contexts
        BY <1>2, <1>5, <3>1, ContextFacts DEF BootFirst
      <4> QED
        BY <1>1, <4>1
    <3> QED
      BY <3>1
  <2>3. registered => ScreenInside(todo'[Boot])
    BY <1>1, <1>2, ContextFacts DEF BootFirst
  <2> QED
    BY <1>1, <1>3, <2>1, <2>2, <2>3 DEF BootFirst
<1>8. HandlerScripts'
  <2>1. CASE c # Handler
    <3>1. todo'[Handler] = <<>>
      BY <1>1, <1>5, <2>1, ContextFacts
    <3> QED
      BY <3>1 DEF HandlerScripts
  <2>2. CASE c = Handler /\ r = <<>>
    BY <1>1, <2>2 DEF HandlerScripts
  <2>3. CASE c = Handler /\ r # <<>>
    <3>1. op' = op /\ todo'[Handler] = r /\ todo[Handler] # <<>> /\ todo'[cpu] = todo[cpu]
      BY <1>1, <1>2, <1>5, <2>3, WhoRuns
    <3>2. \/ op[Handler] = "timer" /\ cpu # Boot /\ Takes(todo[Handler], TimerLocks)
          \/ /\ op[Handler] = "page_fault" /\ NoSwitch(todo[Handler])
             /\ Takes(todo[Handler], {"state", "processes", "frames", "limit"})
             /\ cpu \in Threads /\ todo[cpu] = <<>>
          \/ /\ op[Handler] = "sound" /\ NoSwitch(todo[Handler])
             /\ Takes(todo[Handler], SoundLocks(registered)) /\ Draws(todo[Handler])
      BY <1>2, <3>1 DEF HandlerScripts
    <3>3. /\ NoSwitch(todo[Handler]) => NoSwitch(r) /\ (Draws(todo[Handler]) => Draws(r))
          /\ \A L : Takes(todo[Handler], L) => Takes(r, L)
      BY <2>3 DEF Kept
    <3>4. \/ op[Handler] = "timer" /\ cpu # Boot /\ Takes(r, TimerLocks)
          \/ /\ op[Handler] = "page_fault" /\ NoSwitch(r)
             /\ Takes(r, {"state", "processes", "frames", "limit"})
             /\ cpu \in Threads /\ todo[cpu] = <<>>
          \/ /\ op[Handler] = "sound" /\ NoSwitch(r)
             /\ Takes(r, SoundLocks(registered)) /\ Draws(r)
      BY <3>2, <3>3
    <3> QED
      BY <1>3, <3>1, <3>4 DEF HandlerScripts
  <2> QED
    BY <2>1, <2>2, <2>3
<1> QED
  BY <1>1, <1>4, <1>6, <1>7, <1>8 DEF IInv

\* The first step of a script s of c, and r, which it leaves.
First(c, s, r) ==
  /\ s \in Seq(Steps) /\ r \in Seq(Steps) /\ Head(s) = s[1] /\ s[1] \in Steps
  /\ Fine(s, 1, Allowed(c)) /\ Kept(s, r)
  /\ s[1].do # "remove" => (ScreenInside(s) => ScreenInside(r))
  /\ \A l \in Locks : /\ HeldX(r, 1, l) <=> HeldX(s, 1 + 1, l)
                      /\ HeldS(r, 1, l) <=> HeldS(s, 1 + 1, l)
                      /\ ~(HeldX(r, 1, l) /\ HeldS(r, 1, l))
  /\ \A l \in Locks : l # s[1].lock => /\ HeldX(r, 1, l) <=> writer[l] = c
                                       /\ HeldS(r, 1, l) <=> c \in readers[l]
  /\ s[1].lock \in Locks => /\ writer[s[1].lock] = c <=> s[1].do \in {"unlock", "switch"}
                            /\ c \in readers[s[1].lock] <=> s[1].do = "unread"

\* What the first step of a safe script may be, action by action.
LEMMA FirstStep ==
  ASSUME IInv, NEW c \in Contexts, todo[c] # <<>>
  PROVE  First(c, todo[c], Tail(todo[c]))
<1>0. PICK s, r : s = todo[c] /\ s # <<>> /\ r = Tail(s)
  OBVIOUS
<1>1. TypeOK /\ ScriptsSafe /\ TableMatches
  BY DEF IInv
<1>2. s \in Seq(Steps)
  BY <1>0, <1>1 DEF TypeOK
<1>3. /\ r = SubSeq(s, 1 + 1, Len(s)) /\ 1 \in 1 .. Len(s) /\ Head(s) = s[1] /\ s[1] \in Steps
      /\ r \in Seq(Steps)
  BY <1>0, <1>2, TailIsSuffix
<1>4. Fine(s, 1, Allowed(c))
  BY <1>0, <1>1, <1>3 DEF ScriptsSafe, Safe
<1>5. /\ Kept(s, r)
      /\ \A l, D : HeldBy(r, 1, l, D) <=> HeldBy(s, 1 + 1, l, D)
      /\ (\A k \in 1 .. 1 : s[k].do # "remove") /\ ScreenInside(s) => ScreenInside(r)
  BY <1>2, <1>3, KeptSuffix
<1>6. s[1].do # "remove" => \A k \in 1 .. 1 : s[k].do # "remove"
  <2>1. \A k \in 1 .. 1 : k = 1
    OBVIOUS
  <2> QED
    BY <2>1
<1>7. \A l \in Locks : /\ HeldX(r, 1, l) <=> HeldX(s, 1 + 1, l)
                       /\ HeldS(r, 1, l) <=> HeldS(s, 1 + 1, l)
                       /\ ~(HeldX(r, 1, l) /\ HeldS(r, 1, l))
  <2>1. \A l : ~(HeldX(r, 1, l) /\ HeldS(r, 1, l))
    BY <1>3, HeldOneWay
  <2> QED
    BY <1>5, <2>1 DEF HeldX, HeldS
<1>8. ASSUME NEW l \in Locks, l # s[1].lock
      PROVE  /\ HeldX(r, 1, l) <=> writer[l] = c
             /\ HeldS(r, 1, l) <=> c \in readers[l]
  <2>1. \A D : HeldBy(s, 1, l, D) <=> HeldBy(s, 1 + 1, l, D)
    BY <1>2, <1>3, <1>8, HeldNext
  <2>2. (HeldX(s, 1, l) <=> HeldX(s, 1 + 1, l)) /\ (HeldS(s, 1, l) <=> HeldS(s, 1 + 1, l))
    BY <2>1 DEF HeldX, HeldS
  <2>3. (writer[l] = c <=> HeldX(s, 1, l)) /\ (c \in readers[l] <=> HeldS(s, 1, l))
    BY <1>0, <1>1 DEF TableMatches
  <2> QED
    BY <1>7, <2>2, <2>3
<1>9. ASSUME s[1].lock \in Locks
      PROVE  /\ writer[s[1].lock] = c <=> s[1].do \in {"unlock", "switch"}
             /\ c \in readers[s[1].lock] <=> s[1].do = "unread"
  <2>1. \A D : HeldBy(s, 1, s[1].lock, D) <=> s[1].do \in D
    BY <1>2, <1>3, HeldHere
  <2>2. /\ writer[s[1].lock] = c <=> HeldX(s, 1, s[1].lock)
        /\ c \in readers[s[1].lock] <=> HeldS(s, 1, s[1].lock)
    BY <1>0, <1>1, <1>9 DEF TableMatches
  <2>3. s[1].do \in {"unread"} <=> s[1].do = "unread"
    OBVIOUS
  <2> QED
    BY <2>1, <2>2, <2>3 DEF HeldX, HeldS
<1>10. First(c, s, r)
  BY <1>2, <1>3, <1>4, <1>5, <1>6, <1>7, <1>8, <1>9 DEF First
<1> QED
  BY <1>0, <1>10

\* Taking a lock that is available.
LEMMA AcquireKeeps ==
  ASSUME IInv, NEW c \in Contexts, Running = c, todo[c] # <<>>, Acquire(c)
  PROVE  IInv'
<1>1. PICK s, r : s = todo[c] /\ r = Tail(s)
  OBVIOUS
<1>0. First(c, s, r)
  BY <1>1, FirstStep
<1>2. /\ s \in Seq(Steps) /\ r \in Seq(Steps) /\ Head(s) = s[1] /\ s[1] \in Steps
      /\ Fine(s, 1, Allowed(c)) /\ Kept(s, r)
      /\ s[1].do # "remove" => (ScreenInside(s) => ScreenInside(r))
      /\ \A l \in Locks : /\ HeldX(r, 1, l) <=> HeldX(s, 1 + 1, l)
                          /\ HeldS(r, 1, l) <=> HeldS(s, 1 + 1, l)
                          /\ ~(HeldX(r, 1, l) /\ HeldS(r, 1, l))
      /\ \A l \in Locks : l # s[1].lock => /\ HeldX(r, 1, l) <=> writer[l] = c
                                           /\ HeldS(r, 1, l) <=> c \in readers[l]
      /\ s[1].lock \in Locks => /\ writer[s[1].lock] = c <=> s[1].do \in {"unlock", "switch"}
                                /\ c \in readers[s[1].lock] <=> s[1].do = "unread"
  BY <1>0 DEF First
<1>3. PICK l : l = s[1].lock
  OBVIOUS
<1>4. /\ s[1].do \in {"lock", "read"} /\ Available(s[1])
      /\ IF s[1].do = "lock"
         THEN writer' = [writer EXCEPT ![l] = c] /\ UNCHANGED readers
         ELSE readers' = [readers EXCEPT ![l] = @ \cup {c}] /\ UNCHANGED writer
      /\ Continue(c, r) /\ UNCHANGED <<cpu, registered>>
  BY <1>1, <1>2, <1>3 DEF Acquire
<1>5. /\ l \in Locks
      /\ s[1].do = "lock" => HeldX(r, 1, l)
      /\ s[1].do = "read" => HeldS(r, 1, l)
  BY <1>2, <1>3, <1>4 DEF Fine, TakesInOrder
<1>6. writer \in [Locks -> Contexts \cup {Free}] /\ readers \in [Locks -> SUBSET Contexts]
  BY DEF IInv, TypeOK
<1>7. Free \notin Contexts
  BY ContextFacts
<1>8. CASE s[1].do = "lock"
  <2>1. Holders(l) = {}
    BY <1>3, <1>4, <1>8 DEF Available
  <2>2. writer[l] = Free /\ readers[l] = {}
    BY <2>1 DEF Holders
  <2>3. writer' \in [Locks -> Contexts \cup {Free}] /\ readers' = readers
        /\ writer'[l] = c /\ \A h \in Locks : h # l => writer'[h] = writer[h]
    BY <1>4, <1>5, <1>6, <1>8
  <2>4. ASSUME NEW h \in Locks
        PROVE  /\ writer'[h] = c <=> HeldX(r, 1, h)
               /\ c \in readers'[h] <=> HeldS(r, 1, h)
               /\ \A d \in Contexts \ {c} : /\ writer'[h] = d <=> writer[h] = d
                                            /\ d \in readers'[h] <=> d \in readers[h]
    <3>1. CASE h = l
      BY <1>2, <1>5, <1>7, <1>8, <2>2, <2>3, <3>1
    <3>2. CASE h # l
      BY <1>2, <1>3, <2>3, <3>2
    <3> QED
      BY <3>1, <3>2
  <2>5. Matches(c, r, writer', readers')
    BY <2>4 DEF Matches
  <2> QED
    BY <1>1, <1>2, <1>4, <1>6, <1>8, <2>3, <2>5, PlainStep
<1>9. CASE s[1].do = "read"
  <2>1. writer[l] = Free
    BY <1>3, <1>4, <1>9 DEF Available
  <2>2. readers' \in [Locks -> SUBSET Contexts] /\ writer' = writer
        /\ readers'[l] = readers[l] \cup {c} /\ \A h \in Locks : h # l => readers'[h] = readers[h]
    BY <1>4, <1>5, <1>6, <1>9
  <2>3. ASSUME NEW h \in Locks
        PROVE  /\ writer'[h] = c <=> HeldX(r, 1, h)
               /\ c \in readers'[h] <=> HeldS(r, 1, h)
               /\ \A d \in Contexts \ {c} : /\ writer'[h] = d <=> writer[h] = d
                                            /\ d \in readers'[h] <=> d \in readers[h]
    <3>1. CASE h = l
      BY <1>2, <1>5, <1>7, <1>9, <2>1, <2>2, <3>1
    <3>2. CASE h # l
      BY <1>2, <1>3, <2>2, <3>2
    <3> QED
      BY <3>1, <3>2
  <2>4. Matches(c, r, writer', readers')
    BY <2>3 DEF Matches
  <2> QED
    BY <1>1, <1>2, <1>4, <1>6, <1>9, <2>2, <2>4, PlainStep
<1> QED
  BY <1>4, <1>8, <1>9

\* Releasing a lock.
LEMMA ReleaseKeeps ==
  ASSUME IInv, NEW c \in Contexts, Running = c, todo[c] # <<>>, Release(c)
  PROVE  IInv'
<1>1. PICK s, r : s = todo[c] /\ r = Tail(s)
  OBVIOUS
<1>2. First(c, s, r)
  BY <1>1, FirstStep
<1>3. PICK l : l = s[1].lock
  OBVIOUS
<1>4. /\ s[1].do \in {"unlock", "unread"}
      /\ IF s[1].do = "unlock"
         THEN writer' = [writer EXCEPT ![l] = Free] /\ UNCHANGED readers
         ELSE readers' = [readers EXCEPT ![l] = @ \ {c}] /\ UNCHANGED writer
      /\ Continue(c, r) /\ UNCHANGED <<cpu, registered>>
  <2>1. Head(todo[c]) = s[1]
    BY <1>1, <1>2 DEF First
  <2> QED
    BY <1>1, <1>3, <2>1 DEF Release
<1>5. l \in Locks /\ ~HeldX(r, 1, l) /\ ~HeldS(r, 1, l)
  <2>1. Fine(s, 1, Allowed(c))
    BY <1>2 DEF First
  <2>2. l \in Locks /\ ~Held(s, 1 + 1, l)
    BY <1>3, <1>4, <2>1 DEF Fine
  <2> QED
    BY <1>2, <2>2 DEF First, Held
<1>6. writer \in [Locks -> Contexts \cup {Free}] /\ readers \in [Locks -> SUBSET Contexts]
  BY DEF IInv, TypeOK
<1>7. Free \notin Contexts
  BY ContextFacts
<1>8. \A h \in Locks : h # l => /\ HeldX(r, 1, h) <=> writer[h] = c
                                /\ HeldS(r, 1, h) <=> c \in readers[h]
  BY <1>2, <1>3 DEF First
<1>9. /\ writer[l] = c <=> s[1].do \in {"unlock", "switch"}
      /\ c \in readers[l] <=> s[1].do = "unread"
  BY <1>2, <1>3, <1>5 DEF First
<1>10. /\ writer' \in [Locks -> Contexts \cup {Free}] /\ readers' \in [Locks -> SUBSET Contexts]
       /\ \A h \in Locks : h # l => writer'[h] = writer[h] /\ readers'[h] = readers[h]
       /\ s[1].do = "unlock" => writer'[l] = Free /\ readers'[l] = readers[l]
       /\ s[1].do = "unread" => writer'[l] = writer[l] /\ readers'[l] = readers[l] \ {c}
  <2>1. CASE s[1].do = "unlock"
    BY <1>4, <1>5, <1>6, <2>1
  <2>2. CASE s[1].do = "unread"
    BY <1>4, <1>5, <1>6, <2>2
  <2> QED
    BY <1>4, <2>1, <2>2
<1>11. ASSUME NEW h \in Locks
       PROVE  /\ writer'[h] = c <=> HeldX(r, 1, h)
              /\ c \in readers'[h] <=> HeldS(r, 1, h)
              /\ \A d \in Contexts \ {c} : /\ writer'[h] = d <=> writer[h] = d
                                           /\ d \in readers'[h] <=> d \in readers[h]
  <2>1. CASE h = l /\ s[1].do = "unlock"
    BY <1>5, <1>7, <1>9, <1>10, <2>1
  <2>2. CASE h = l /\ s[1].do = "unread"
    BY <1>5, <1>9, <1>10, <2>2
  <2>3. CASE h # l
    BY <1>8, <1>10, <2>3
  <2> QED
    BY <1>4, <2>1, <2>2, <2>3
<1>12. Matches(c, r, writer', readers')
  BY <1>11 DEF Matches
<1>13. Kept(todo[c], r) /\ r \in Seq(Steps) /\ (ScreenInside(todo[c]) => ScreenInside(r))
  BY <1>1, <1>2, <1>4 DEF First
<1> QED
  BY <1>4, <1>10, <1>12, <1>13, PlainStep

\* try_lock() on the scheduler: taken, or the rest of the script skipped.
LEMMA TryLockKeeps ==
  ASSUME IInv, NEW c \in Contexts, Running = c, todo[c] # <<>>, TryLock(c)
  PROVE  IInv'
<1>1. PICK s, r : s = todo[c] /\ r = Tail(s)
  OBVIOUS
<1>2. First(c, s, r)
  BY <1>1, FirstStep
<1>3. s[1].do = "try" /\ UNCHANGED <<cpu, readers, registered>>
      /\ \/ /\ Holders(s[1].lock) = {} /\ writer' = [writer EXCEPT ![s[1].lock] = c]
            /\ Continue(c, r)
         \/ UNCHANGED writer /\ Continue(c, <<>>)
  <2>1. Head(todo[c]) = s[1]
    BY <1>1, <1>2 DEF First
  <2> QED
    BY <1>1, <2>1 DEF TryLock
<1>4. s[1].lock = "state" /\ HeldX(r, 1, "state") /\ \A h \in Locks : ~Held(s, 1, h)
  <2>1. Fine(s, 1, Allowed(c)) /\ "state" \in Locks
    BY <1>2 DEF First, Locks
  <2>2. s[1].lock = "state" /\ HeldX(s, 1 + 1, "state") /\ \A h \in Locks : ~Held(s, 1, h)
    BY <1>3, <2>1 DEF Fine
  <2> QED
    BY <1>2, <2>1, <2>2 DEF First
<1>5. /\ writer \in [Locks -> Contexts \cup {Free}] /\ readers \in [Locks -> SUBSET Contexts]
      /\ TableMatches
  BY DEF IInv, TypeOK
<1>6. Free \notin Contexts /\ "state" \in Locks
  BY ContextFacts DEF Locks
<1>7. CASE Holders("state") = {} /\ writer' = [writer EXCEPT !["state"] = c] /\ Continue(c, r)
  <2>1. writer["state"] = Free /\ readers["state"] = {}
    BY <1>7 DEF Holders
  <2>2. writer' \in [Locks -> Contexts \cup {Free}] /\ readers' = readers
        /\ writer'["state"] = c /\ \A h \in Locks : h # "state" => writer'[h] = writer[h]
    BY <1>3, <1>5, <1>6, <1>7
  <2>3. /\ \A h \in Locks : h # "state" => /\ HeldX(r, 1, h) <=> writer[h] = c
                                           /\ HeldS(r, 1, h) <=> c \in readers[h]
        /\ ~HeldS(r, 1, "state")
    BY <1>2, <1>4, <1>6 DEF First
  <2>4. ASSUME NEW h \in Locks
        PROVE  /\ writer'[h] = c <=> HeldX(r, 1, h)
               /\ c \in readers'[h] <=> HeldS(r, 1, h)
               /\ \A d \in Contexts \ {c} : /\ writer'[h] = d <=> writer[h] = d
                                            /\ d \in readers'[h] <=> d \in readers[h]
    <3>1. CASE h = "state"
      BY <1>4, <1>6, <2>1, <2>2, <2>3, <3>1
    <3>2. CASE h # "state"
      BY <2>2, <2>3, <3>2
    <3> QED
      BY <3>1, <3>2
  <2>5. Matches(c, r, writer', readers')
    BY <2>4 DEF Matches
  <2>6. Kept(todo[c], r) /\ r \in Seq(Steps) /\ (ScreenInside(todo[c]) => ScreenInside(r))
    BY <1>1, <1>2, <1>3 DEF First
  <2> QED
    BY <1>3, <1>5, <1>7, <2>2, <2>5, <2>6, PlainStep
<1>8. CASE UNCHANGED writer /\ Continue(c, <<>>)
  <2>1. PICK e : e = <<>>
    OBVIOUS
  <2>2. e \in Seq(Steps) /\ Kept(todo[c], e) /\ ScreenInside(e)
    BY <2>1, KeptEmpty
  <2>3. \A h \in Locks : ~HeldX(e, 1, h) /\ ~HeldS(e, 1, h)
    BY <2>1, EmptyScript DEF Script, Held
  <2>4. \A h \in Locks : writer[h] # c /\ c \notin readers[h]
    BY <1>1, <1>4, <1>5 DEF TableMatches, Held
  <2>5. Matches(c, e, writer', readers')
    BY <1>3, <1>8, <2>3, <2>4 DEF Matches
  <2>6. writer' \in [Locks -> Contexts \cup {Free}] /\ readers' \in [Locks -> SUBSET Contexts]
    BY <1>3, <1>5, <1>8
  <2>7. Continue(c, e)
    BY <1>8, <2>1
  <2> QED
    BY <1>3, <2>2, <2>5, <2>6, <2>7, PlainStep
<1> QED
  BY <1>3, <1>4, <1>7, <1>8

\* A branch taken or skipped.
LEMMA BranchKeeps ==
  ASSUME IInv, NEW c \in Contexts, Running = c, todo[c] # <<>>, Branch(c)
  PROVE  IInv'
<1>1. PICK s : s = todo[c]
  OBVIOUS
<1>2. First(c, s, Tail(s))
  BY <1>1, FirstStep
<1>3. s \in Seq(Steps) /\ s[1] \in Steps /\ Fine(s, 1, Allowed(c)) /\ Head(todo[c]) = s[1]
  BY <1>1, <1>2 DEF First
<1>4. PICK z \in Nat : z = s[1].skip
  BY <1>3 DEF Steps
<1>5. s[1].do = "maybe" /\ UNCHANGED <<cpu, writer, readers, registered>>
      /\ \E skipped \in {0, z} : Continue(c, SubSeq(s, 2 + skipped, Len(s)))
  BY <1>1, <1>3, <1>4 DEF Branch
<1>6. PICK k \in {0, z} : Continue(c, SubSeq(s, 2 + k, Len(s)))
  BY <1>5
<1>7. /\ s[1].lock = "" /\ 1 + z <= Len(s)
      /\ \A h \in Locks : /\ HeldX(s, 1 + 1, h) <=> HeldX(s, 1 + 1 + z, h)
                          /\ HeldS(s, 1 + 1, h) <=> HeldS(s, 1 + 1 + z, h)
      /\ \A j \in 1 + 1 .. 1 + z : s[j].do # "remove"
  BY <1>3, <1>4, <1>5 DEF Fine
<1>8. Len(s) \in Nat /\ k \in Nat
  BY <1>3, <1>4, <1>6
<1>9. PICK n \in 1 .. Len(s) : n = 1 + k
  <2>1. 1 + k \in 1 .. Len(s)
    <3>1. 1 + z <= Len(s) /\ (k = 0 \/ k = z)
      BY <1>6, <1>7
    <3> QED
      BY <1>4, <1>8, <3>1
  <2> QED
    BY <2>1
<1>10. 2 + k = n + 1
  BY <1>8, <1>9
<1>11. PICK r : r = SubSeq(s, n + 1, Len(s))
  OBVIOUS
<1>12. /\ Kept(s, r)
       /\ \A l, D : HeldBy(r, 1, l, D) <=> HeldBy(s, n + 1, l, D)
       /\ (\A j \in 1 .. n : s[j].do # "remove") /\ ScreenInside(s) => ScreenInside(r)
  BY <1>3, <1>11, KeptSuffix
<1>13. r \in Seq(Steps) /\ Continue(c, r)
  <2>1. n \in 0 .. Len(s)
    BY <1>8
  <2> QED
    BY <1>3, <1>6, <1>10, <1>11, <2>1, HeldSuffix
<1>14. \A j \in 1 .. n : s[j].do # "remove"
  <2>1. ASSUME NEW j \in 1 .. n PROVE j = 1 \/ j \in 1 + 1 .. 1 + z
    BY <1>4, <1>6, <1>8, <1>9
  <2> QED
    BY <1>5, <1>7, <2>1
<1>15. \A h \in Locks : /\ HeldX(r, 1, h) <=> HeldX(s, 1 + 1, h)
                        /\ HeldS(r, 1, h) <=> HeldS(s, 1 + 1, h)
  <2>1. n + 1 = 1 + 1 \/ n + 1 = 1 + 1 + z
    BY <1>4, <1>6, <1>9
  <2>2. \A h \in Locks : /\ HeldX(r, 1, h) <=> HeldX(s, n + 1, h)
                         /\ HeldS(r, 1, h) <=> HeldS(s, n + 1, h)
    BY <1>12 DEF HeldX, HeldS
  <2> QED
    BY <1>7, <2>1, <2>2
<1>16. \A h \in Locks : /\ HeldX(s, 1 + 1, h) <=> writer[h] = c
                        /\ HeldS(s, 1 + 1, h) <=> c \in readers[h]
  <2>1. \A h \in Locks : h # s[1].lock
    BY <1>7 DEF Locks
  <2> QED
    BY <1>2, <2>1 DEF First
<1>17. Matches(c, r, writer', readers')
  BY <1>5, <1>15, <1>16 DEF Matches
<1>18. writer' \in [Locks -> Contexts \cup {Free}] /\ readers' \in [Locks -> SUBSET Contexts]
  BY <1>5 DEF IInv, TypeOK
<1> QED
  BY <1>1, <1>5, <1>12, <1>13, <1>14, <1>17, <1>18, PlainStep

\* Removing the terminal from the logger.
LEMMA RemoveKeeps ==
  ASSUME IInv, NEW c \in Contexts, Running = c, todo[c] # <<>>, Remove(c)
  PROVE  IInv'
<1>1. PICK s, r : s = todo[c] /\ r = Tail(s)
  OBVIOUS
<1>2. First(c, s, r)
  BY <1>1, FirstStep
<1>3. Head(todo[c]) = s[1] /\ Kept(todo[c], r) /\ r \in Seq(Steps) /\ s \in Seq(Steps) /\ Fine(s, 1, Allowed(c))
  BY <1>1, <1>2 DEF First
<1>4. s[1].do = "remove" /\ registered' = FALSE /\ Continue(c, r) /\ cpu' = cpu /\ writer' = writer
      /\ readers' = readers
  BY <1>1, <1>3 DEF Remove
<1>5. TypeOK /\ StateOnCpu /\ BootFirst /\ HandlerScripts
  BY DEF IInv
<1>6. writer' \in [Locks -> Contexts \cup {Free}] /\ readers' \in [Locks -> SUBSET Contexts]
  BY <1>4, <1>5 DEF TypeOK
<1>7. Matches(c, r, writer', readers')
  <2>1. s[1].lock = ""
    BY <1>3, <1>4 DEF Fine
  <2>2. \A h \in Locks : h # s[1].lock
    BY <2>1 DEF Locks
  <2> QED
    BY <1>2, <1>4, <2>2 DEF First, Matches
<1>8. /\ op' \in [Contexts -> Jobs] /\ todo' \in [Contexts -> Seq(Steps)]
      /\ todo'[c] = r /\ \A d \in Contexts \ {c} : todo'[d] = todo[d]
      /\ r # <<>> => op' = op
      /\ ScriptsSafe' /\ TableMatches' /\ SwitchesLast(todo[Boot])'
  BY <1>3, <1>4, <1>6, <1>7, ContinueKeeps
<1>9. TypeOK'
  BY <1>4, <1>5, <1>6, <1>8 DEF TypeOK
<1>10. /\ cpu \in Threads \cup {Boot} /\ cpu \in Contexts /\ cpu # Handler
       /\ c # Handler => cpu = c /\ todo[Handler] = <<>>
  BY <1>5, WhoRuns
<1>11. StateOnCpu'
  <2>1. ASSUME NEW t \in Threads \cup {Boot}, t # cpu PROVE ~HeldX(todo'[t], 1, "state")
    <3>1. t \in Contexts /\ t # c
      BY <1>10, <2>1, ContextFacts
    <3>2. todo'[t] = todo[t]
      BY <1>8, <3>1
    <3> QED
      BY <1>5, <2>1, <3>2 DEF StateOnCpu
  <2> QED
    BY <1>4, <2>1 DEF StateOnCpu
<1>12. BootFirst'
  <2>1. cpu = Boot => \A t \in Threads : todo'[t] = <<>>
    <3>1. ASSUME cpu = Boot, NEW t \in Threads PROVE todo'[t] = <<>>
      <4>1. todo[t] = <<>> /\ t # c /\ t \in Contexts
        BY <1>5, <1>10, <3>1, ContextFacts DEF BootFirst
      <4> QED
        BY <1>8, <4>1
    <3> QED
      BY <3>1
  <2>2. cpu # Boot => todo'[Boot] = <<>>
    <3>1. ASSUME cpu # Boot PROVE todo'[Boot] = <<>>
      <4>1. todo[Boot] = <<>> /\ Boot # c /\ Boot \in Contexts
        BY <1>5, <1>10, <3>1, ContextFacts DEF BootFirst
      <4> QED
        BY <1>8, <4>1
    <3> QED
      BY <3>1
  <2> QED
    BY <1>4, <1>8, <2>1, <2>2 DEF BootFirst
<1>13. HandlerScripts'
  <2>1. CASE c # Handler
    <3>1. todo'[Handler] = <<>>
      BY <1>8, <1>10, <2>1, ContextFacts
    <3> QED
      BY <3>1 DEF HandlerScripts
  <2>2. CASE c = Handler /\ r = <<>>
    BY <1>8, <2>2 DEF HandlerScripts
  <2>3. CASE c = Handler /\ r # <<>>
    <3>1. op' = op /\ todo'[Handler] = r /\ todo[Handler] # <<>> /\ s = todo[Handler]
      BY <1>1, <1>5, <1>8, <2>3, WhoRuns
    <3>2. ~NoSwitch(s)
      <4>1. 1 \in 1 .. Len(s)
        BY <1>3, <3>1, TailIsSuffix
      <4> QED
        BY <1>4, <4>1 DEF NoSwitch
    <3>3. op[Handler] = "timer" /\ cpu # Boot /\ Takes(s, TimerLocks)
      BY <1>5, <3>1, <3>2 DEF HandlerScripts
    <3>4. Takes(r, TimerLocks)
      BY <1>1, <1>3, <3>3 DEF Kept
    <3> QED
      BY <1>4, <3>1, <3>3, <3>4 DEF HandlerScripts
  <2> QED
    BY <2>1, <2>2, <2>3
<1> QED
  BY <1>8, <1>9, <1>11, <1>12, <1>13 DEF IInv

\* A context switch, which releases the scheduler's lock.
LEMMA SwitchKeeps ==
  ASSUME IInv, NEW c \in Contexts, Running = c, todo[c] # <<>>, Switch(c)
  PROVE  IInv'
<1>1. PICK s, r : s = todo[c] /\ r = Tail(s)
  OBVIOUS
<1>2. First(c, s, r)
  BY <1>1, FirstStep
<1>3. Head(todo[c]) = s[1] /\ Kept(todo[c], r) /\ r \in Seq(Steps) /\ s \in Seq(Steps) /\ Fine(s, 1, Allowed(c))
  BY <1>1, <1>2 DEF First
<1>4. s[1].do = "switch" /\ registered' = registered /\ Continue(c, r) /\ readers' = readers
      /\ cpu' \in Threads /\ writer' = [writer EXCEPT !["state"] = Free]
  BY <1>1, <1>3 DEF Switch
<1>5. TypeOK /\ StateOnCpu /\ BootFirst /\ HandlerScripts
  BY DEF IInv
<1>6. Free \notin Contexts /\ "state" \in Locks /\ 1 \in 1 .. Len(s) /\ s # <<>>
  BY <1>1, <1>3, ContextFacts, TailIsSuffix DEF Locks
<1>7. /\ writer' \in [Locks -> Contexts \cup {Free}] /\ readers' \in [Locks -> SUBSET Contexts]
      /\ writer'["state"] = Free /\ \A h \in Locks : h # "state" => writer'[h] = writer[h]
  BY <1>4, <1>5, <1>6 DEF TypeOK
<1>8. Matches(c, r, writer', readers')
  <2>1. s[1].lock = "state" /\ ~Held(s, 1 + 1, "state")
    BY <1>3, <1>4 DEF Fine
  <2>2. ~HeldX(r, 1, "state") /\ ~HeldS(r, 1, "state")
    BY <1>2, <1>6, <2>1 DEF First, Held
  <2>3. writer["state"] = c /\ c \notin readers["state"]
    BY <1>2, <1>4, <1>6, <2>1 DEF First
  <2>4. \A h \in Locks : h # "state" => /\ HeldX(r, 1, h) <=> writer[h] = c
                                        /\ HeldS(r, 1, h) <=> c \in readers[h]
    BY <1>2, <2>1 DEF First
  <2>5. ASSUME NEW h \in Locks
        PROVE  /\ writer'[h] = c <=> HeldX(r, 1, h)
               /\ c \in readers'[h] <=> HeldS(r, 1, h)
               /\ \A d \in Contexts \ {c} : /\ writer'[h] = d <=> writer[h] = d
                                            /\ d \in readers'[h] <=> d \in readers[h]
    <3>1. CASE h = "state"
      BY <1>4, <1>6, <1>7, <2>2, <2>3, <3>1
    <3>2. CASE h # "state"
      BY <1>4, <1>7, <2>4, <3>2
    <3> QED
      BY <3>1, <3>2
  <2> QED
    BY <2>5 DEF Matches
<1>9. /\ op' \in [Contexts -> Jobs] /\ todo' \in [Contexts -> Seq(Steps)]
      /\ todo'[c] = r /\ \A d \in Contexts \ {c} : todo'[d] = todo[d]
      /\ r # <<>> => op' = op
      /\ ScriptsSafe' /\ TableMatches' /\ SwitchesLast(todo[Boot])'
  BY <1>3, <1>4, <1>7, <1>8, ContinueKeeps
<1>10. TypeOK'
  BY <1>4, <1>5, <1>7, <1>9 DEF TypeOK
<1>11. /\ cpu \in Threads \cup {Boot} /\ cpu \in Contexts /\ cpu # Handler
       /\ c # Handler => cpu = c /\ todo[Handler] = <<>>
  BY <1>5, WhoRuns
<1>12. StateOnCpu'
  <2>1. ASSUME NEW t \in Threads \cup {Boot} PROVE ~HeldX(todo'[t], 1, "state")
    <3>1. t \in Contexts
      BY ContextFacts
    <3>2. writer'["state"] = t <=> HeldX(todo'[t], 1, "state")
      BY <1>6, <1>9, <3>1 DEF TableMatches
    <3> QED
      BY <1>6, <1>7, <3>1, <3>2
  <2> QED
    BY <2>1 DEF StateOnCpu
<1>13. c = Handler => /\ op[Handler] = "timer" /\ cpu # Boot /\ Takes(s, TimerLocks)
  <2>1. ~NoSwitch(s)
    BY <1>4, <1>6 DEF NoSwitch
  <2> QED
    BY <1>1, <1>5, <1>6, <2>1 DEF HandlerScripts
<1>14. todo'[Boot] = <<>> /\ ~registered
  <2>1. CASE c = Boot
    <3>1. SwitchesLast(s) /\ (registered => ScreenInside(s))
      BY <1>1, <1>5, <2>1 DEF BootFirst
    <3>2. 1 = Len(s)
      BY <1>4, <1>6, <3>1 DEF SwitchesLast
    <3>3. r = <<>>
      BY <1>1, <1>3, <1>6, <3>2
    <3>4. ~ScreenInside(s)
      <4>1. 1 .. 1 - 1 = {}
        OBVIOUS
      <4> QED
        BY <1>4, <1>6, <4>1 DEF ScreenInside
    <3> QED
      BY <1>9, <2>1, <3>1, <3>3, <3>4
  <2>2. CASE c # Boot
    <3>1. cpu # Boot
      BY <1>11, <1>13, <2>2
    <3>2. todo[Boot] = <<>> /\ ~registered
      BY <1>5, <3>1 DEF BootFirst
    <3> QED
      BY <1>9, <2>2, <3>2, ContextFacts
  <2> QED
    BY <2>1, <2>2
<1>15. BootFirst'
  <2>1. cpu' # Boot
    BY <1>4, ContextFacts
  <2> QED
    BY <1>4, <1>9, <1>14, <2>1 DEF BootFirst
<1>16. HandlerScripts'
  <2>1. CASE c # Handler
    <3>1. todo'[Handler] = <<>>
      BY <1>9, <1>11, <2>1, ContextFacts
    <3> QED
      BY <3>1 DEF HandlerScripts
  <2>2. CASE c = Handler /\ r = <<>>
    BY <1>9, <2>2 DEF HandlerScripts
  <2>3. CASE c = Handler /\ r # <<>>
    <3>1. op' = op /\ todo'[Handler] = r /\ op[Handler] = "timer" /\ Takes(s, TimerLocks)
      BY <1>9, <1>13, <2>3
    <3>2. Takes(r, TimerLocks) /\ cpu' # Boot
      BY <1>1, <1>3, <1>4, <3>1, ContextFacts DEF Kept
    <3> QED
      BY <3>1, <3>2 DEF HandlerScripts
  <2> QED
    BY <2>1, <2>2, <2>3
<1> QED
  BY <1>9, <1>10, <1>12, <1>15, <1>16 DEF IInv

\* A context starts a script.
LEMMA StartKeeps ==
  ASSUME IInv, NEW c \in Contexts, todo[c] = <<>>, NEW name \in Jobs, NEW s,
         Safe(s, IF c \in Threads THEN Inner(name) ELSE Locks), \A l \in Locks : ~Held(s, 1, l),
         op' = [op EXCEPT ![c] = name], todo' = [todo EXCEPT ![c] = s],
         UNCHANGED <<cpu, writer, readers, registered>>
  PROVE  /\ TypeOK' /\ ScriptsSafe' /\ TableMatches' /\ StateOnCpu'
         /\ todo'[c] = s /\ op'[c] = name /\ \A d \in Contexts \ {c} : todo'[d] = todo[d] /\ op'[d] = op[d]
<1>1. TypeOK /\ ScriptsSafe /\ TableMatches /\ StateOnCpu
  BY DEF IInv
<1>2. cpu' = cpu /\ writer' = writer /\ readers' = readers /\ registered' = registered
  OBVIOUS
<1>3. op \in [Contexts -> Jobs] /\ todo \in [Contexts -> Seq(Steps)]
  BY <1>1 DEF TypeOK
<1>4. s \in Seq(Steps)
  BY DEF Safe
<1>5. /\ op' \in [Contexts -> Jobs] /\ todo' \in [Contexts -> Seq(Steps)]
      /\ todo'[c] = s /\ op'[c] = name /\ \A d \in Contexts \ {c} : todo'[d] = todo[d] /\ op'[d] = op[d]
  BY <1>3, <1>4
<1>6. TypeOK'
  BY <1>1, <1>2, <1>5 DEF TypeOK
<1>7. ScriptsSafe'
  <2>1. ASSUME NEW d \in Contexts PROVE Safe(todo[d], Allowed(d))'
    <3>1. CASE d # c
      <4>1. Safe(todo[d], Allowed(d))
        BY <1>1 DEF ScriptsSafe
      <4>2. todo'[d] = todo[d] /\ op'[d] = op[d]
        BY <1>5, <3>1
      <4> QED
        BY <4>1, <4>2 DEF Allowed
    <3>2. CASE d = c
      BY <1>5, <3>2 DEF Allowed
    <3> QED
      BY <3>1, <3>2
  <2> QED
    BY <2>1 DEF ScriptsSafe
<1>8. \A h \in Locks : ~HeldX(s, 1, h) /\ ~HeldS(s, 1, h)
  BY DEF Held
<1>9. TableMatches'
  <2>1. ASSUME NEW d \in Contexts, NEW l \in Locks
        PROVE  /\ writer[l] = d <=> HeldX(todo'[d], 1, l)
               /\ d \in readers[l] <=> HeldS(todo'[d], 1, l)
    <3>1. CASE d = c
      <4>1. ~HeldX(<<>>, 1, l) /\ ~HeldS(<<>>, 1, l)
        BY EmptyScript DEF Script, Held
      <4>2. writer[l] # c /\ c \notin readers[l]
        BY <1>1, <4>1 DEF TableMatches
      <4> QED
        BY <1>5, <1>8, <3>1, <4>2
    <3>2. CASE d # c
      BY <1>1, <1>5, <3>2 DEF TableMatches
    <3> QED
      BY <3>1, <3>2
  <2> QED
    BY <1>2, <2>1 DEF TableMatches
<1>10. StateOnCpu'
  <2>1. ASSUME NEW t \in Threads \cup {Boot}, t # cpu PROVE ~HeldX(todo'[t], 1, "state")
    <3>1. t \in Contexts /\ "state" \in Locks
      BY ContextFacts DEF Locks
    <3>2. CASE t = c
      BY <1>5, <1>8, <3>1, <3>2
    <3>3. CASE t # c
      BY <1>1, <1>5, <2>1, <3>1, <3>3 DEF StateOnCpu
    <3> QED
      BY <3>2, <3>3
  <2> QED
    BY <1>2, <2>1 DEF StateOnCpu
<1> QED
  BY <1>5, <1>6, <1>7, <1>9, <1>10

\* A thread or the boot code starts an operation.
LEMMA BeginKeeps ==
  ASSUME IInv, NEW t \in Threads \cup {Boot}, NEW jobs, NEW job \in Jobs, job \in DOMAIN jobs,
         Job(jobs[job], IF t \in Threads THEN Inner(job) ELSE Locks),
         t = Boot => SwitchesLast(jobs[job]) /\ ScreenInside(jobs[job]),
         Running = t, todo[t] = <<>>,
         op' = [op EXCEPT ![t] = job], todo' = [todo EXCEPT ![t] = jobs[job]],
         UNCHANGED <<cpu, writer, readers, registered>>
  PROVE  IInv'
<1>1. t \in Contexts /\ t # Handler
  BY ContextFacts
<1>2. TypeOK /\ BootFirst
  BY DEF IInv
<1>3. cpu = t /\ todo[Handler] = <<>>
  BY <1>1, <1>2, WhoRuns
<1>4. PICK s : s = jobs[job]
  OBVIOUS
<1>5. Safe(s, IF t \in Threads THEN Inner(job) ELSE Locks) /\ \A l \in Locks : ~Held(s, 1, l)
  BY <1>4 DEF Job
<1>6. todo' = [todo EXCEPT ![t] = s]
  BY <1>4
<1>7. /\ TypeOK' /\ ScriptsSafe' /\ TableMatches' /\ StateOnCpu'
      /\ todo'[t] = s /\ op'[t] = job /\ \A d \in Contexts \ {t} : todo'[d] = todo[d] /\ op'[d] = op[d]
  BY <1>1, <1>5, <1>6, StartKeeps
<1>8. BootFirst'
  <2>1. CASE t = Boot
    <3>1. \A d \in Threads : todo'[d] = <<>>
      BY <1>2, <1>3, <1>7, <2>1, ContextFacts DEF BootFirst
    <3> QED
      BY <1>3, <1>4, <1>7, <2>1, <3>1 DEF BootFirst
  <2>2. CASE t # Boot
    <3>1. todo'[Boot] = todo[Boot]
      BY <1>7, <2>2, ContextFacts
    <3> QED
      BY <1>2, <1>3, <2>2, <3>1 DEF BootFirst
  <2> QED
    BY <2>1, <2>2
<1>9. HandlerScripts'
  <2>1. todo'[Handler] = <<>>
    BY <1>1, <1>3, <1>7, ContextFacts
  <2> QED
    BY <2>1 DEF HandlerScripts
<1> QED
  BY <1>7, <1>8, <1>9 DEF IInv

\* An interrupt or a page fault starts its handler.
LEMMA InterruptKeeps ==
  ASSUME IInv, NEW name \in Jobs, NEW s, HandlerJob(s), Interrupt(name, s),
         \/ name = "timer" /\ cpu # Boot /\ Takes(s, TimerLocks)
         \/ /\ name = "page_fault" /\ NoSwitch(s)
            /\ Takes(s, {"state", "processes", "frames", "limit"})
            /\ cpu \in Threads /\ todo[cpu] = <<>>
         \/ name = "sound" /\ NoSwitch(s) /\ Takes(s, SoundLocks(registered)) /\ Draws(s)
  PROVE  IInv'
<1>1. Handler \in Contexts /\ Handler \notin Threads
  BY ContextFacts
<1>2. TypeOK /\ BootFirst
  BY DEF IInv
<1>3. /\ todo[Handler] = <<>> /\ op' = [op EXCEPT ![Handler] = name] /\ todo' = [todo EXCEPT ![Handler] = s]
      /\ UNCHANGED <<cpu, writer, readers, registered>>
  BY DEF Interrupt
<1>4. Safe(s, IF Handler \in Threads THEN Inner(name) ELSE Locks) /\ \A l \in Locks : ~Held(s, 1, l)
  BY <1>1 DEF HandlerJob
<1>5. /\ TypeOK' /\ ScriptsSafe' /\ TableMatches' /\ StateOnCpu'
      /\ todo'[Handler] = s /\ op'[Handler] = name
      /\ \A d \in Contexts \ {Handler} : todo'[d] = todo[d] /\ op'[d] = op[d]
  BY <1>1, <1>3, <1>4, StartKeeps
<1>6. cpu' = cpu /\ registered' = registered
  BY <1>3
<1>7. BootFirst'
  <2>1. todo'[Boot] = todo[Boot] /\ \A t \in Threads : todo'[t] = todo[t]
    BY <1>5, ContextFacts
  <2> QED
    BY <1>2, <1>6, <2>1 DEF BootFirst
<1>8. HandlerScripts'
  <2>1. todo'[cpu] = todo[cpu]
    BY <1>2, <1>5, WhoRuns
  <2> QED
    BY <1>5, <1>6, <2>1 DEF HandlerScripts
<1> QED
  BY <1>5, <1>7, <1>8 DEF IInv

\* Nobody runs anything and no lock is held.
LEMMA InitHolds == Init => IInv
<1>1. SUFFICES ASSUME Init PROVE IInv
  OBVIOUS
<1>2. /\ cpu = Boot /\ op = [c \in Contexts |-> ""] /\ todo = [c \in Contexts |-> <<>>]
      /\ writer = [l \in Locks |-> Free] /\ readers = [l \in Locks |-> {}] /\ registered = TRUE
  BY <1>1 DEF Init
<1>3. PICK e : e = <<>>
  OBVIOUS
<1>4. e \in Seq(Steps)
  BY <1>3
<1>5. \A c \in Contexts : todo[c] = e
  BY <1>2, <1>3
<1>6. (\A X : Safe(e, X)) /\ (\A l \in Locks : ~HeldX(e, 1, l) /\ ~HeldS(e, 1, l)) /\ ScreenInside(e)
      /\ SwitchesLast(e)
  <2>1. (\A X : Safe(e, X)) /\ (\A l \in Locks : ~HeldX(e, 1, l) /\ ~HeldS(e, 1, l)) /\ ScreenInside(e)
    BY <1>3, EmptyScript, KeptEmpty DEF Script, Held
  <2>2. Len(e) = 0 /\ 1 .. 0 = {}
    BY <1>3
  <2> QED
    BY <2>1, <2>2 DEF SwitchesLast
<1>7. TypeOK
  <2>1. op \in [Contexts -> Jobs]
    BY <1>2, JobNames
  <2>2. todo \in [Contexts -> Seq(Steps)]
    BY <1>2, <1>3, <1>4
  <2> QED
    BY <1>2, <2>1, <2>2 DEF TypeOK
<1>8. ScriptsSafe
  BY <1>5, <1>6 DEF ScriptsSafe
<1>9. TableMatches
  <2>1. \A l \in Locks : \A c \in Contexts : writer[l] # c /\ c \notin readers[l]
    BY <1>2, ContextFacts
  <2> QED
    BY <1>5, <1>6, <2>1 DEF TableMatches
<1>10. StateOnCpu
  BY <1>5, <1>6, ContextFacts DEF StateOnCpu, Locks
<1>11. BootFirst /\ HandlerScripts
  BY <1>2, <1>3, <1>5, <1>6, ContextFacts DEF BootFirst, HandlerScripts
<1> QED
  BY <1>7, <1>8, <1>9, <1>10, <1>11 DEF IInv

\* Every action, by the lemmas above.
LEMMA NextKeeps == IInv /\ [Next]_vars => IInv'
<1> SUFFICES ASSUME IInv, [Next]_vars PROVE IInv'
  OBVIOUS
<1>1. CASE Begin(Boot, BootJobs)
  <2>1. Running = Boot /\ todo[Boot] = <<>> /\ UNCHANGED <<cpu, writer, readers, registered>>
    BY <1>1 DEF Begin
  <2>2. PICK job \in DOMAIN BootJobs : /\ op' = [op EXCEPT ![Boot] = job]
                                       /\ todo' = [todo EXCEPT ![Boot] = BootJobs[job]]
    BY <1>1 DEF Begin
  <2>3. job \in Jobs /\ BootJob(BootJobs[job]) /\ Boot \notin Threads
    BY JobNames, StartJobs, ContextFacts
  <2>4. /\ Job(BootJobs[job], IF Boot \in Threads THEN Inner(job) ELSE Locks)
        /\ SwitchesLast(BootJobs[job]) /\ ScreenInside(BootJobs[job])
    BY <2>3 DEF BootJob
  <2> QED
    BY <2>1, <2>2, <2>3, <2>4, BeginKeeps
<1>2. ASSUME NEW t \in KernelThreads, Begin(t, KernelJobs) PROVE IInv'
  <2>1. Running = t /\ todo[t] = <<>> /\ UNCHANGED <<cpu, writer, readers, registered>>
    BY <1>2 DEF Begin
  <2>2. PICK job \in DOMAIN KernelJobs : /\ op' = [op EXCEPT ![t] = job]
                                         /\ todo' = [todo EXCEPT ![t] = KernelJobs[job]]
    BY <1>2 DEF Begin
  <2>3. t \in Threads /\ t # Boot
    BY ContextFacts DEF Threads
  <2>4. job \in Jobs /\ Job(KernelJobs[job], IF t \in Threads THEN Inner(job) ELSE Locks)
    BY <2>3, JobNames, ThreadJobs
  <2> QED
    BY <2>1, <2>2, <2>3, <2>4, BeginKeeps
<1>3. ASSUME NEW t \in UserThreads, Begin(t, Syscalls) PROVE IInv'
  <2>1. Running = t /\ todo[t] = <<>> /\ UNCHANGED <<cpu, writer, readers, registered>>
    BY <1>3 DEF Begin
  <2>2. PICK job \in DOMAIN Syscalls : /\ op' = [op EXCEPT ![t] = job]
                                       /\ todo' = [todo EXCEPT ![t] = Syscalls[job]]
    BY <1>3 DEF Begin
  <2>3. t \in Threads /\ t # Boot
    BY ContextFacts DEF Threads
  <2>4. job \in Jobs /\ Job(Syscalls[job], IF t \in Threads THEN Inner(job) ELSE Locks)
    BY <2>3, JobNames, UserJobs
  <2> QED
    BY <2>1, <2>2, <2>3, <2>4, BeginKeeps
<1>4. ASSUME NEW c \in Contexts, Proceed(c) PROVE IInv'
  <2>1. Running = c /\ todo[c] # <<>>
        /\ (Acquire(c) \/ Release(c) \/ TryLock(c) \/ Branch(c) \/ Remove(c) \/ Switch(c))
    BY <1>4 DEF Proceed
  <2> QED
    BY <2>1, AcquireKeeps, ReleaseKeeps, TryLockKeeps, BranchKeeps, RemoveKeeps, SwitchKeeps
<1>5. CASE TimerInterrupt
  <2>1. cpu # Boot /\ Interrupt("timer", switch_thread)
    BY <1>5 DEF TimerInterrupt, Booting
  <2> QED
    BY <2>1, HandlerJobs, JobNames, InterruptKeeps
<1>6. CASE SoundInterrupt
  <2>1. registered \in BOOLEAN
    BY DEF IInv, TypeOK
  <2>2. PICK s : s = log(registered)
    OBVIOUS
  <2>3. HandlerJob(s) /\ NoSwitch(s) /\ Takes(s, SoundLocks(registered)) /\ Draws(s)
    BY <2>1, <2>2, HandlerJobs
  <2>4. Interrupt("sound", s)
    BY <1>6, <2>2 DEF SoundInterrupt
  <2> QED
    BY <2>3, <2>4, JobNames, InterruptKeeps
<1>7. CASE PageFault
  <2>1. cpu \in Threads /\ todo[cpu] = <<>> /\ Interrupt("page_fault", handle_page_fault)
    BY <1>7 DEF PageFault, Threads
  <2> QED
    BY <2>1, HandlerJobs, JobNames, InterruptKeeps
<1>8. CASE UNCHANGED vars
  BY <1>8 DEF vars, IInv, TypeOK, ScriptsSafe, Allowed, TableMatches, StateOnCpu,
              BootFirst, HandlerScripts
<1> QED
  BY <1>1, <1>2, <1>3, <1>4, <1>5, <1>6, <1>7, <1>8 DEF Next

-----------------------------------------------------------------------------
(***************************************************************************)
(* The theorems.                                                           *)
(***************************************************************************)
(***************************************************************************)
(* Every context executes a script that takes its locks in order, and who  *)
(* holds a lock can be read off the scripts; only the thread on the CPU has *)
(* the scheduler's lock.                                                   *)
(***************************************************************************)
THEOREM Inductive == Spec => []IInv
BY InitHolds, NextKeeps, PTL DEF Spec

\* Whoever waits is about to take a lock it does not hold, in the order of Rank.
LEMMA WaiterFacts ==
  ASSUME IInv, NEW c \in Contexts, Waiting(c)
  PROVE  /\ todo[c] # <<>> /\ Head(todo[c]) = todo[c][1] /\ 1 \in 1 .. Len(todo[c])
         /\ todo[c][1].do \in {"lock", "read"} /\ TakesInOrder(todo[c], 1, Allowed(c))
         /\ \E d \in Contexts \ {c} : Held(todo[d], 1, Head(todo[c]).lock)
         /\ c \notin Holders(Head(todo[c]).lock)
<1>1. PICK s : s = todo[c]
  OBVIOUS
<1>2. s # <<>> /\ ~Available(Head(s))
  BY <1>1 DEF Waiting
<1>3. TypeOK /\ ScriptsSafe /\ TableMatches
  BY DEF IInv
<1>4. s \in Seq(Steps)
  BY <1>1, <1>3 DEF TypeOK
<1>5. 1 \in 1 .. Len(s) /\ Head(s) = s[1]
  BY <1>2, <1>4, TailIsSuffix
<1>6. Fine(s, 1, Allowed(c))
  BY <1>1, <1>3, <1>5 DEF ScriptsSafe, Safe
<1>7. s[1].do \in {"lock", "read"}
  BY <1>2, <1>5 DEF Available
<1>8. TakesInOrder(s, 1, Allowed(c))
  BY <1>6, <1>7 DEF Fine
<1>9. PICK l \in Locks : l = s[1].lock /\ ~Held(s, 1, l)
  BY <1>8 DEF TakesInOrder
<1>10. writer[l] # c /\ c \notin readers[l]
  BY <1>1, <1>3, <1>9 DEF TableMatches, Held
<1>11. c \notin Holders(l)
  BY <1>10 DEF Holders
<1>12. writer[l] \in Contexts \cup {Free} /\ readers[l] \subseteq Contexts
  BY <1>3 DEF TypeOK
<1>13. \E d \in Contexts \ {c} : Held(todo[d], 1, l)
  <2>1. \E d \in Contexts : writer[l] = d \/ d \in readers[l]
    <3>1. CASE s[1].do = "lock"
      <4>1. Holders(l) # {}
        BY <1>2, <1>5, <1>9, <3>1 DEF Available
      <4> QED
        BY <1>12, <4>1 DEF Holders
    <3>2. CASE s[1].do = "read"
      <4>1. writer[l] # Free
        BY <1>2, <1>5, <1>9, <3>2 DEF Available
      <4> QED
        BY <1>12, <4>1
    <3> QED
      BY <1>7, <3>1, <3>2
  <2>2. PICK d \in Contexts : writer[l] = d \/ d \in readers[l]
    BY <2>1
  <2>3. d # c
    BY <1>10, <2>2
  <2>4. Held(todo[d], 1, l)
    BY <1>3, <2>2 DEF TableMatches, Held
  <2> QED
    BY <2>3, <2>4
<1> QED
  BY <1>1, <1>2, <1>5, <1>7, <1>8, <1>9, <1>11, <1>13

\* The scheduler's lock is not held shared.
LEMMA StateExclusive ==
  ASSUME NEW s, NEW X, Safe(s, X), Held(s, 1, "state")
  PROVE  HeldX(s, 1, "state")
<1>1. SUFFICES ASSUME HeldS(s, 1, "state") PROVE FALSE
  BY DEF Held
<1>2. PICK k \in 1 .. Len(s) : s[k].lock = "state" /\ s[k].do = "unread"
  BY <1>1 DEF HeldS, HeldBy
<1>3. Fine(s, k, X)
  BY DEF Safe
<1> QED
  BY <1>2, <1>3 DEF Fine

\* A script that holds something is not empty.
LEMMA HoldersBusy ==
  ASSUME NEW s \in Seq(Steps), NEW l \in Locks, Held(s, 1, l)
  PROVE  s # <<>> /\ 1 \in 1 .. Len(s)
<1>1. s # <<>>
  BY EmptyScript DEF Script
<1> QED
  BY <1>1, TailIsSuffix

\* A waiter whose holder can no longer run waits for a catalogued lock.
LEMMA IInvHangs == IInv => HangsAreKnown
<1> SUFFICES ASSUME IInv PROVE HangsAreKnown
  OBVIOUS
<1>1. /\ TypeOK /\ ScriptsSafe /\ TableMatches /\ StateOnCpu /\ BootFirst
      /\ HandlerScripts
  BY DEF IInv
<1>2. \A d \in Contexts : todo[d] \in Seq(Steps)
  BY <1>1 DEF TypeOK
<1>3. \A d \in Contexts : \A l \in Locks : Held(todo[d], 1, l) => todo[d] # <<>> /\ 1 \in 1 .. Len(todo[d])
  BY <1>2, HoldersBusy
<1>4. {"state", "logger"} \subseteq Locks /\ Screen \subseteq Locks
  BY DEF Locks, Screen
<1>5. ASSUME NEW d \in Threads \cup {Boot}, HeldX(todo[d], 1, "state") PROVE d = cpu /\ todo[cpu] # <<>>
  <2>1. d \in Contexts /\ Held(todo[d], 1, "state")
    BY <1>5, ContextFacts DEF Held
  <2> QED
    BY <1>1, <1>3, <1>4, <1>5, <2>1 DEF StateOnCpu
<1>6. ASSUME NEW c \in Contexts, Hopeless(c) PROVE <<op[c], Head(todo[c]).lock>> \in KnownHangs
  <2>1. /\ Running = c /\ Waiting(c)
        /\ c = Handler \/ writer["state"] = c \/ c \in Holders(Head(todo[c]).lock)
    BY <1>6 DEF Hopeless
  <2>2. PICK l : l = Head(todo[c]).lock
    OBVIOUS
  <2>3. /\ todo[c] # <<>> /\ Head(todo[c]) = todo[c][1] /\ 1 \in 1 .. Len(todo[c])
        /\ todo[c][1].do \in {"lock", "read"} /\ TakesInOrder(todo[c], 1, Allowed(c))
        /\ \E d \in Contexts \ {c} : Held(todo[d], 1, Head(todo[c]).lock)
        /\ c \notin Holders(Head(todo[c]).lock)
    BY <2>1, WaiterFacts
  <2>4. l = todo[c][1].lock /\ l \in Locks
    BY <2>2, <2>3 DEF TakesInOrder
  <2>5. PICK d \in Contexts \ {c} : Held(todo[d], 1, l)
    BY <2>2, <2>3
  <2>6. todo[d] # <<>> /\ 1 \in 1 .. Len(todo[d])
    BY <1>3, <2>4, <2>5
  <2>7. /\ cpu \in Threads \cup {Boot}
        /\ c # Handler => cpu = c /\ todo[Handler] = <<>>
    BY <1>1, <2>1, WhoRuns
  <2>8. d # Handler => d \in Threads \cup {Boot}
    BY ContextFacts
  <2>9. CASE c \in Threads
    <3>1. c # Handler /\ d # Handler
      BY <2>6, <2>7, <2>9, ContextFacts
    <3>2. writer["state"] = c
      BY <2>1, <2>3, <3>1
    <3>3. HeldX(todo[c], 1, "state")
      BY <1>1, <1>4, <3>2 DEF TableMatches
    <3>4. l \in Inner(op[c])
      <4>1. Held(todo[c], 1, "state") => l \in Allowed(c)
        BY <2>3, <2>4 DEF TakesInOrder
      <4> QED
        BY <2>9, <3>3, <4>1 DEF Held, Allowed
    <3>5. <<op[c], l>> \in KnownHangs
      BY <3>4 DEF Inner
    <3> QED
      BY <2>2, <3>5
  <2>10. CASE c = Boot
    <3>1. cpu = Boot /\ todo[Handler] = <<>>
      BY <2>7, <2>10, ContextFacts
    <3>2. d \in Threads
      BY <2>6, <2>8, <2>10, <3>1
    <3> QED
      BY <1>1, <2>6, <3>1, <3>2 DEF BootFirst
  <2>11. CASE c = Handler
    <3>1. d \in Threads \cup {Boot}
      BY <2>8, <2>11
    <3>2. PICK s : s = todo[Handler]
      OBVIOUS
    <3>3. s # <<>> /\ 1 \in 1 .. Len(s) /\ l = s[1].lock /\ s[1].do \in {"lock", "read"}
      BY <2>3, <2>4, <2>11, <3>2
    <3>4. \A L : Takes(s, L) => l \in L
      BY <3>3 DEF Takes
    <3>5. <<op[Handler], l>> \in KnownHangs
      <4>1. CASE op[Handler] = "timer" /\ Takes(s, TimerLocks)
        <5>1. l \in TimerLocks
          BY <3>4, <4>1
        <5> QED
          BY <4>1, <5>1 DEF KnownHangs, TimerLocks
      <4>2. CASE /\ op[Handler] = "page_fault" /\ Takes(s, {"state", "processes", "frames", "limit"})
                 /\ todo[cpu] = <<>>
        <5>1. l \in {"state", "processes", "frames", "limit"}
          BY <3>4, <4>2
        <5>2. l # "state"
          <6>1. SUFFICES ASSUME l = "state" PROVE FALSE
            OBVIOUS
          <6>2. HeldX(todo[d], 1, "state")
            <7>1. Safe(todo[d], Allowed(d))
              BY <1>1 DEF ScriptsSafe
            <7> QED
              BY <2>5, <6>1, <7>1, StateExclusive
          <6> QED
            BY <1>5, <3>1, <4>2, <6>2
        <5> QED
          BY <4>2, <5>1, <5>2 DEF KnownHangs
      <4>3. CASE op[Handler] = "sound" /\ Takes(s, SoundLocks(registered)) /\ Draws(s)
        <5>1. l \in SoundLocks(registered)
          BY <3>4, <4>3
        <5>2. ~(registered /\ l \in Screen)
          <6>1. SUFFICES ASSUME registered, l \in Screen PROVE FALSE
            OBVIOUS
          <6>2. HeldX(s, 1, "logger")
            BY <3>3, <4>3, <6>1 DEF Draws
          <6>3. writer["logger"] = Handler
            BY <1>1, <1>4, <2>11, <3>2, <6>2 DEF TableMatches
          <6>4. cpu = Boot /\ ScreenInside(todo[Boot])
            BY <1>1, <6>1 DEF BootFirst
          <6>5. d = Boot
            BY <1>1, <2>6, <3>1, <6>4 DEF BootFirst
          <6>6. HeldX(todo[Boot], 1, "logger")
            <7>1. 1 .. 1 - 1 = {}
              OBVIOUS
            <7> QED
              BY <2>5, <2>6, <6>1, <6>4, <6>5, <7>1 DEF ScreenInside
          <6>7. writer["logger"] = Boot
            BY <1>1, <1>4, <6>6, ContextFacts DEF TableMatches
          <6> QED
            BY <6>3, <6>7, ContextFacts
        <5>3. l \in {"logger", "heap", "state", "processes"}
          BY <5>1, <5>2 DEF SoundLocks
        <5> QED
          BY <4>3, <5>3 DEF KnownHangs
      <4> QED
        BY <1>1, <3>2, <3>3, <4>1, <4>2, <4>3 DEF HandlerScripts
    <3> QED
      BY <2>2, <2>11, <3>5
  <2> QED
    BY <2>9, <2>10, <2>11, ContextFacts
<1> QED
  BY <1>1, <1>6 DEF HangsAreKnown

(***************************************************************************)
(* The waits that never end are the catalogued ones, for any number of     *)
(* threads: a thread that spins with the scheduler's lock held, or a       *)
(* handler that spins, waits for the heap, the frames, phys_limit(), the   *)
(* process manager, the logger or the scheduler, never for the display,    *)
(* the parser, the decoder or the EFI table, and nobody waits for itself.  *)
(***************************************************************************)
THEOREM OnlyKnownHangs == Spec => []HangsAreKnown
BY Inductive, IInvHangs, PTL

\* Along a circle of waiters the rank of the wanted lock would grow for ever.
LEMMA IInvNoCircle == IInv => NoCircularWait
<1> SUFFICES ASSUME IInv PROVE NoCircularWait
  OBVIOUS
<1>1. ASSUME NEW circle \in (SUBSET Threads) \ {{}},
             \A a \in circle : \E b \in circle : WaitsFor(a, b)
      PROVE  FALSE
  <2> DEFINE Wanted(a) == Head(todo[a]).lock
  <2>1. \A a \in circle : a \in Contexts
    BY ContextFacts
  <2>2. ASSUME NEW a \in circle
        PROVE  \E b \in circle : Rank(Wanted(a)) < Rank(Wanted(b))
    <3>1. PICK b \in circle : WaitsFor(a, b)
      BY <1>1
    <3>2. \E e \in circle : WaitsFor(b, e)
      BY <1>1
    <3>3. Waiting(a) /\ Wanted(a) # "state" /\ b \in Holders(Wanted(a))
      BY <3>1 DEF WaitsFor
    <3>4. Waiting(b) /\ Wanted(b) # "state"
      BY <3>2 DEF WaitsFor
    <3>5. Wanted(a) \in Locks
      BY <2>1, <3>3, WaiterFacts DEF TakesInOrder
    <3>6. TakesInOrder(todo[b], 1, Allowed(b)) /\ Wanted(b) = todo[b][1].lock
      BY <2>1, <3>4, WaiterFacts
    <3>7. Held(todo[b], 1, Wanted(a))
      <4>1. TableMatches
        BY DEF IInv
      <4>2. writer[Wanted(a)] = b \/ b \in readers[Wanted(a)]
        BY <3>3 DEF Holders
      <4> QED
        BY <2>1, <3>5, <4>1, <4>2 DEF TableMatches, Held
    <3>8. Rank(Wanted(a)) < Rank(Wanted(b))
      BY <3>3, <3>4, <3>5, <3>6, <3>7 DEF TakesInOrder
    <3> QED
      BY <3>8
  <2>3. \A a : Rank(Wanted(a)) \in 1 .. 4
    BY DEF Rank
  <2> HIDE DEF Wanted
  <2>4. PICK a \in circle : TRUE
    OBVIOUS
  <2>5. PICK b \in circle : Rank(Wanted(a)) < Rank(Wanted(b))
    BY <2>2
  <2>6. PICK c \in circle : Rank(Wanted(b)) < Rank(Wanted(c))
    BY <2>2
  <2>7. PICK d \in circle : Rank(Wanted(c)) < Rank(Wanted(d))
    BY <2>2
  <2>8. PICK e \in circle : Rank(Wanted(d)) < Rank(Wanted(e))
    BY <2>2
  <2> QED
    BY <2>3, <2>5, <2>6, <2>7, <2>8
<1> QED
  BY <1>1 DEF NoCircularWait

(***************************************************************************)
(* Threads never wait for each other in a circle, however many there are:  *)
(* each holds only locks that come before the one it waits for.            *)
(***************************************************************************)
THEOREM NoCircle == Spec => []NoCircularWait
BY Inductive, IInvNoCircle, PTL
=============================================================================
