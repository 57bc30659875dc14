----------------------------- MODULE FlashStore -----------------------------
(***************************************************************************)
(* What FLASHDRVR::write promises of a flash memory: bits are cleared byte *)
(* by byte where the caller asked for it, they are only set by erasing the *)
(* whole sector, a sector is erased only if the data asks for a bit to be  *)
(* set in it, and a verified success means that the data is there.  A cell *)
(* may fail to change.  FlashDrvr implements this module.                  *)
(***************************************************************************)
EXTENDS Integers

CONSTANTS Addrs, SectorOf(_)   \* the bytes and the sector each belongs to

VARIABLES mem,      \* the memory
          job       \* the write in progress, its result when it is over

storeVars == <<mem, job>>

Range(j) == j.addr .. j.addr + j.len - 1
Wanted(j, a) == j.data[a - j.addr + 1]
Holds(j, m) == \A a \in Range(j) : m[a] = Wanted(j, a)

StoreInit == mem \in [Addrs -> {0, 1}] /\ job.result = "none"

\* The image the memory starts with.
Load == job.result = "none" /\ mem' \in [Addrs -> {0, 1}] /\ UNCHANGED job

Begin == job.result = "none" /\ job'.result = "busy" /\ UNCHANGED mem

EraseSector ==
    /\ job.result = "busy" /\ UNCHANGED job
    /\ \E a \in Range(job) :
          /\ mem[a] = 0 /\ Wanted(job, a) = 1
          /\ mem' \in [Addrs -> {0, 1}]
          /\ \A b \in Addrs : mem'[b] # mem[b] => mem'[b] = 1 /\ SectorOf(b) = SectorOf(a)

ProgramBytes ==
    /\ job.result = "busy" /\ UNCHANGED job
    /\ mem' \in [Addrs -> {0, 1}]
    /\ \A b \in Addrs : mem'[b] # mem[b] =>
          mem'[b] = 0 /\ b \in Range(job) /\ Wanted(job, b) = 0

Finish ==
    /\ job.result = "busy" /\ UNCHANGED mem
    /\ \E r \in {"true", "false"} :
          /\ job' = [job EXCEPT !.result = r]
          /\ r = "true" /\ job.verify => Holds(job, mem)

StoreNext == Load \/ Begin \/ EraseSector \/ ProgramBytes \/ Finish
StoreSpec == StoreInit /\ [][StoreNext]_storeVars
=============================================================================
