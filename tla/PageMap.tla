------------------------------ MODULE PageMap ------------------------------
(***************************************************************************)
(* What the guest memory promises, with no list of mappings in sight: for  *)
(* every byte of the address space, its protection (or Unmapped) and its   *)
(* content.  It is the page array that fuzz() in emu/test/mem.c keeps      *)
(* beside the real map, extended with the contents and with mem_find.      *)
(* One caller makes one call at a time; a call is made, performed in one   *)
(* step, and returns.                                                      *)
(***************************************************************************)
EXTENDS Words

CONSTANTS
    Prots,       \* protection bytes a mapping can have
    Values,      \* byte values a program writes
    Addrs,       \* addresses a caller passes
    Sizes,       \* sizes a caller passes to mem_map and mem_unmap
    Numbs,       \* lengths of accesses: mem_find, mem_write
    Junk,        \* content of memory nobody wrote since it was mapped
    Unmapped     \* "protection" of a byte no mapping holds

VARIABLES
    page,        \* page[b]: protection of byte b, or Unmapped
    content,     \* content[b]: what was last written at b, or Junk
    req,         \* the call being served
    ret,         \* its result
    at           \* where the call stands: idle, called, done, exit

vars == <<page, content, req, ret, at>>

AnyProt  == CHOOSE p \in Prots : TRUE
AnyValue == CHOOSE v \in Values : TRUE

Request(op, addr, size, prot, val) ==
    [op |-> op, addr |-> addr, size |-> size, prot |-> prot, val |-> val]
NoRequest == Request("none", 0, 0, AnyProt, AnyValue)

\* What callers ask.  A field an operation has no use for has a fixed value.
Requests ==
    {Request("map", a, s, p, AnyValue) : a \in Addrs \cup {0}, s \in Sizes, p \in Prots}
      \cup {Request("unmap", a, s, AnyProt, AnyValue) : a \in Addrs, s \in Sizes}
      \cup {Request("find", a, n, AnyProt, AnyValue) : a \in Addrs, n \in Numbs}
      \cup {Request("write", a, n, AnyProt, v) : a \in Addrs, n \in Numbs, v \in Values}

Span(addr, size) == {b \in Words : addr <= b /\ b < addr + size}

\* A range a mapping may take: not empty, inside the allowed part of memory,
\* and free to the last byte.
Fits(addr, size) ==
    /\ 0 < size /\ MMAP_MIN_ADDR <= addr /\ addr + size <= MemSize
    /\ \A b \in Span(addr, size) : page[b] = Unmapped

\* An access may use addr .. addr+numb-1 when one protection covers it all.
Accessible(addr, numb) ==
    /\ addr + numb <= MemSize
    /\ page[addr] # Unmapped
    /\ \A b \in Span(addr, numb) : page[b] = page[addr]

\* The first byte of the largest run of equally protected bytes around addr.
RunStart(addr) ==
    CHOOSE lo \in Words :
        /\ lo <= addr
        /\ \A b \in lo .. addr : page[b] = page[addr]
        /\ lo = 0 \/ page[lo - 1] # page[addr]

Paint(addr, size, prot) ==
    /\ page'    = [b \in Words |-> IF b \in Span(addr, size) THEN prot ELSE page[b]]
    /\ content' = [b \in Words |-> IF b \in Span(addr, size) THEN Junk ELSE content[b]]

-----------------------------------------------------------------------------

Init == /\ page    = [b \in Words |-> Unmapped]
        /\ content = [b \in Words |-> Junk]
        /\ req = NoRequest
        /\ ret = 0
        /\ at  = "idle"

Call == /\ at = "idle"
        /\ at' = "called"
        /\ req' \in Requests
        /\ UNCHANGED <<page, content, ret>>

Serving(op) == at = "called" /\ req.op = op /\ at' = "done" /\ UNCHANGED req

MapFixed ==
    LET a == PageDown(req.addr)
        s == RoundUp(req.addr, req.size)
    IN  /\ Serving("map") /\ req.addr # 0
        /\ \/ Fits(a, s) /\ Paint(a, s, req.prot) /\ ret' = a
           \/ ~Fits(a, s) /\ ret' = 0 /\ UNCHANGED <<page, content>>

\* mem_map(0, ...): any place will do.  Refusing is allowed only when there is
\* none, except that an exactly fitting place at MMAP_MIN_ADDR may be missed.
MapAnywhere ==
    LET s == RoundSize(req.size)
    IN  /\ Serving("map") /\ req.addr = 0
        /\ \/ \E r \in Words : /\ r % PageSize = 0
                               /\ Fits(r, s) /\ Paint(r, s, req.prot) /\ ret' = r
           \/ /\ \A r \in Words : r > MMAP_MIN_ADDR => ~Fits(r, s)
              /\ ret' = 0 /\ UNCHANGED <<page, content>>

Unmap == /\ Serving("unmap")
         /\ Paint(PageDown(req.addr), RoundUp(req.addr, req.size), Unmapped)
         /\ ret' = 0

Find == /\ Serving("find")
        /\ ret' = IF Accessible(req.addr, req.size) THEN RunStart(req.addr) ELSE 0
        /\ UNCHANGED <<page, content>>

Write == /\ Serving("write")
         /\ Accessible(req.addr, req.size)
         /\ content' = [b \in Words |-> IF b \in Span(req.addr, req.size)
                                        THEN req.val ELSE content[b]]
         /\ ret' = 0
         /\ UNCHANGED page

\* mem_get: an access outside the map ends the program.
Fault == /\ at = "called" /\ req.op = "write"
         /\ ~Accessible(req.addr, req.size)
         /\ at' = "exit"
         /\ UNCHANGED <<page, content, req, ret>>

Return == /\ at = "done"
          /\ at' = "idle" /\ req' = NoRequest /\ ret' = 0
          /\ UNCHANGED <<page, content>>

Next == \/ Call \/ Return \/ Fault
        \/ MapFixed \/ MapAnywhere \/ Unmap \/ Find \/ Write

Spec == Init /\ [][Next]_vars
=============================================================================
