------------------------------ MODULE OtaFlash ------------------------------
(***************************************************************************)
(* The program flash the BLE update loaders work on, cut into erase blocks *)
(* (FLASH_BLOCK_SIZE), programming pages (FLASH_PAGE_SIZE) and units of 16 *)
(* bytes, the granularity of the addresses in the OTA commands (OpAdd*16). *)
(* An image region is a function from addresses to unit contents.  A unit  *)
(* is Erased, Junk (torn, overprogrammed or stale), or the unit an image   *)
(* version has at that address.                                            *)
(***************************************************************************)
EXTENDS Naturals, Sequences

CONSTANTS NBlocks,      \* erase blocks per image (IMAGE_SIZE / 4096)
          BlockPages,   \* pages per block (4096 / 256)
          PageUnits,    \* units per page (256 / 16)
          Versions,     \* firmware versions
          SizeOf,       \* units in the image of each version
          Erased, Junk  \* contents that are no image's data

TotalUnits == NBlocks * BlockPages * PageUnits

ASSUME GeometryAssumption ==
  /\ NBlocks \in Nat \ {0}
  /\ BlockPages \in Nat \ {0}
  /\ PageUnits \in Nat \ {0}

ASSUME SizeAssumption == SizeOf \in [Versions -> 1 .. TotalUnits]

Blocks  == 0 .. NBlocks - 1
Pages   == 0 .. BlockPages - 1
Offsets == 0 .. PageUnits - 1
Addr    == Blocks \X Pages \X Offsets

\* Address of the k-th unit of an image.
AddrOf(k) ==
  <<k \div (BlockPages * PageUnits), (k \div PageUnits) % BlockPages, k % PageUnits>>

Data(v, a) == <<v, a>>
Content    == {Erased, Junk} \cup (Versions \X Addr)
Image      == [Addr -> Content]

\* An erased unit is told from the data of an image.
ASSUME ContentAssumption == Erased \notin Versions \X Addr

\* The addresses image v occupies, and "this region holds image v".
Extent(v)     == {AddrOf(k) : k \in 0 .. SizeOf[v] - 1}
Holds(img, v) == \A a \in Extent(v) : img[a] = Data(v, a)
VersionIn(img) == CHOOSE v \in Versions : Holds(img, v)

\* FLASH_ErasePage on block b.
EraseBlock(img, b) == [a \in Addr |-> IF a[1] = b THEN Erased ELSE img[a]]

\* FLASH_ProgramPage_Fast: a cell that is not erased does not take the data.
ProgramPage(img, b, p, data) ==
  [a \in Addr |-> IF a[1] = b /\ a[2] = p
                    THEN IF img[a] = Erased THEN data[a[3]] ELSE Junk
                    ELSE img[a]]

\* A power failure while block b, or page p of it, is being written.
TornBlock(img, b)   == [a \in Addr |-> IF a[1] = b THEN Junk ELSE img[a]]
TornPage(img, b, p) == [a \in Addr |-> IF a[1] = b /\ a[2] = p THEN Junk ELSE img[a]]
=============================================================================
