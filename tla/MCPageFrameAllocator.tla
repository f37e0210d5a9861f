------------------------ MODULE MCPageFrameAllocator ------------------------
(***************************************************************************)
(* Twelve frames and four memory maps: regions out of order, adjacent ones *)
(* that must fuse, one that is only frame 0, and holes between regions.    *)
(* As boot loaders do, each map declares the kernel image and the ramdisk  *)
(* as available memory.                                                    *)
(***************************************************************************)
EXTENDS PageFrameAllocator

MCFrames == 0 .. 11

MCMemoryMaps == {
  <<Block(5, 11), Block(0, 5)>>,
  <<Block(9, 12), Block(0, 1), Block(4, 8), Block(1, 4)>>,
  <<Block(0, 4), Block(5, 9), Block(10, 12)>>,
  <<Block(8, 11), Block(5, 8), Block(0, 4)>>
}

MCKernelImage == Block(2, 4)

MCInitrd == Block(5, 8)
=============================================================================
