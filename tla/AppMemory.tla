------------------------------ MODULE AppMemory ------------------------------
(***************************************************************************)
(* What an application may see of its memory: a map from its pages to      *)
(* their contents that only its own writes change.  Which physical folio   *)
(* holds a page, and whether the page is being exchanged, is invisible at  *)
(* this level.  FolioExchange is shown to implement this specification.    *)
(***************************************************************************)
CONSTANTS Pages, Accessed, Values

VARIABLES mem,    \* mem[p]: the content of page p
          last    \* the page and the value of the last access

memVars == <<mem, last>>

MemInit ==
    /\ mem \in [Pages -> Values]
    /\ last \in Accessed \X Values

Read(p) ==
    /\ last' = <<p, mem[p]>>
    /\ UNCHANGED mem

Write(p, v) ==
    /\ mem' = [mem EXCEPT ![p] = v]
    /\ last' = <<p, v>>

MemNext == \E p \in Accessed : Read(p) \/ \E v \in Values : Write(p, v)

MemSpec == MemInit /\ [][MemNext]_memVars

=============================================================================
