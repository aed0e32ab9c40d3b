------------------------ MODULE CodeModuleRefinement ------------------------
(***************************************************************************)
(* bjit::Module implements LinkSpec.  The n-th call of procedure p is the  *)
(* field at FieldAt(offsets[p], n).  Its target, as the client asked for   *)
(* it, is the one its relocation has once all pending near patches are     *)
(* applied in order; its live target is the procedure whose first byte the *)
(* displacement in executable memory reaches.                              *)
(***************************************************************************)
EXTENDS CodeModule

CallsIn(sites) ==
    { c \in Procs \X (1..(size \div CallBytes)) :
        /\ FieldAt(offsets[c[1]], c[2]) \in sites
        /\ FieldAt(offsets[c[1]], c[2]) < RangeEnd(c[1]) }

SiteOf(c) == FieldAt(offsets[c[1]], c[2])

(* The relocations r after the near patches of a queue, in order.          *)
Applied(r, queue) ==
    LET after[n \in 0..Len(queue)] ==
            IF n = 0 THEN r ELSE Retarget(after[n - 1], queue[n])
    IN  after[Len(queue)]

Requested == Applied(relocs, nearPatches)

(* The procedure a loaded call reaches, 0 if it reaches none.              *)
Reached(s) ==
    IF \E p \in Procs : offsets[p] = CallTarget(s)
    THEN CHOOSE p \in Procs : offsets[p] = CallTarget(s)
    ELSE 0

Executable == perm = "rx" /\ pc # "patch"

RequestedCalls == [c \in CallsIn(DOMAIN relocs) |-> Requested[SiteOf(c)]]

RunningCode ==
    [calls |-> IF Executable
               THEN [c \in CallsIn(DOMAIN field) |-> Reached(SiteOf(c))]
               ELSE [c \in {} |-> 0],
     jumps |-> IF Executable THEN stubField ELSE [p \in {} |-> 0]]

LinkState ==
    IF Executable THEN "running" ELSE IF perm = "rw" THEN "updating" ELSE "unloaded"

Link == INSTANCE LinkSpec WITH
    Procedures <- Indices, Targets <- Indices, StubAddresses <- Addresses,
    calls <- RequestedCalls, jumps <- stubs, live <- RunningCode,
    state <- LinkState

(* Every behaviour of the module is one of LinkSpec: after a successful    *)
(* load() or patch() each call and each stub goes where the client last    *)
(* sent it, and a refused or pending patch changes nothing that runs.      *)
Refines == Link!LinkSpec

Asks(c, old, new) == patchCalls(old, new) \/ patchCallsIn(c[1], old, new)

(* The target the client has asked for changes for no call unless a        *)
(* request names that call: patchCalls redirects the calls of old and no   *)
(* others, patchCallsIn only those of its procedure, and a step of load(), *)
(* patch(), unload() or the compiler redirects none, whatever requests are *)
(* pending.  Code that is compiled while requests are pending keeps the    *)
(* targets it was compiled with: the requests are older than it is.        *)
CallsFollowRequests ==
    [][/\ \A c \in CallsIn(DOMAIN relocs) :
            LET before == Requested[SiteOf(c)]
                after  == Requested'[SiteOf(c)]
                Redirected(from, to) == IF before = from THEN to ELSE before
            IN  /\ after # before => Asks(c, before, after)
                /\ \A old, new \in Indices :
                    /\ patchCalls(old, new) => after = Redirected(old, new)
                    /\ \A p \in Indices : patchCallsIn(p, old, new) =>
                        after = IF c[1] = p THEN Redirected(old, new) ELSE before
       /\ \A prog \in Programs : compile(prog) =>
            \A i \in 1..Len(prog) : Requested'[FieldAt(size, i)] = prog[i]]_vars
=============================================================================
