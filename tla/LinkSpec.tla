------------------------------ MODULE LinkSpec ------------------------------
(***************************************************************************)
(* What bjit::Module promises its client, without offsets, displacements,  *)
(* queues or relocations: a program is a set of calls, each with the       *)
(* procedure it targets, and a set of stubs, each with the address it      *)
(* jumps to.  The client edits the program at any time; the code that runs *)
(* follows it whenever the module is loaded or patched.                    *)
(***************************************************************************)
EXTENDS Naturals

CONSTANTS Procedures, Targets, StubAddresses

VARIABLES
    calls,      \* <<procedure, n>> -> the target of its n-th call
    jumps,      \* stub -> address
    live,       \* [calls, jumps] of the executable code
    state       \* "unloaded", "running" or "updating"

linkVars == <<calls, jumps, live, state>>

Nothing == [calls |-> [c \in {} |-> 0], jumps |-> [p \in {} |-> 0]]

LinkInit ==
    /\ calls = Nothing.calls /\ jumps = Nothing.jumps
    /\ live = Nothing /\ state = "unloaded"

Extends(f, g) == DOMAIN g \subseteq DOMAIN f /\ \A x \in DOMAIN g : f[x] = g[x]

(* New code never changes what existing calls and stubs do.                *)
AddCode ==
    /\ Extends(calls', calls) /\ Extends(jumps', jumps)
    /\ UNCHANGED <<live, state>>

(* All existing calls of the procedures in "within" follow a redirection;  *)
(* calls compiled later do not.                                            *)
RedirectCalls(within, old, new) ==
    /\ calls' = [c \in DOMAIN calls |->
                    IF c[1] \in within /\ calls[c] = old THEN new ELSE calls[c]]
    /\ UNCHANGED <<jumps, live, state>>

RedirectStub(p, addr) ==
    /\ p \in DOMAIN jumps
    /\ jumps' = [jumps EXCEPT ![p] = addr]
    /\ UNCHANGED <<calls, live, state>>

(* From nothing, or from a patch in progress, to the client's program.     *)
Activate ==
    /\ state \in {"unloaded", "updating"}
    /\ state' = "running" /\ live' = [calls |-> calls, jumps |-> jumps]
    /\ UNCHANGED <<calls, jumps>>

(* Running code stops being executable, to be patched or unloaded.         *)
Suspend ==
    /\ state = "running"
    /\ state' \in {"updating", "unloaded"} /\ live' = Nothing
    /\ UNCHANGED <<calls, jumps>>

LinkNext ==
    \/ AddCode
    \/ \E old, new \in Targets :
            \/ RedirectCalls(Procedures, old, new)
            \/ \E p \in Procedures : RedirectCalls({p}, old, new)
    \/ \E p \in Procedures, addr \in StubAddresses : RedirectStub(p, addr)
    \/ Activate
    \/ Suspend

LinkSpec == LinkInit /\ [][LinkNext]_linkVars
=============================================================================
