------------------------------ MODULE OnceOnly ------------------------------
(***************************************************************************)
(* What a client of a keyed POST may rely on: the command takes effect at  *)
(* most once per key, the effect and the response it produced are recorded *)
(* in one step, and every request that succeeds, the first or a repeat,    *)
(* is answered with the recorded response.                                 *)
(***************************************************************************)
EXTENDS Naturals

CONSTANTS
    Request,    \* requests ever sent; a repeat is a request of its own
    Key,        \* Key[r]: its Idempotency-Key
    Content,    \* Content[r]: its endpoint and body
    Nobody      \* no request

Keys == {Key[r] : r \in Request}

VARIABLES
    origin,     \* origin[k]: the request whose effect and response stand for key k
    effects,    \* effects[k]: how often a command with key k has taken effect
    answer      \* answer[r]: the request whose response r was given, or "none", "refused"

onceVars == <<origin, effects, answer>>

Init ==
    /\ origin = [k \in Keys |-> Nobody]
    /\ effects = [k \in Keys |-> 0]
    /\ answer = [r \in Request |-> "none"]

TakeEffect(r) ==
    /\ origin[Key[r]] = Nobody
    /\ origin' = [origin EXCEPT ![Key[r]] = r]
    /\ effects' = [effects EXCEPT ![Key[r]] = @ + 1]
    /\ UNCHANGED answer

\* The response of the one effect, to the same content only.
Respond(r) ==
    /\ answer[r] = "none"
    /\ origin[Key[r]] # Nobody
    /\ Content[origin[Key[r]]] = Content[r]
    /\ answer' = [answer EXCEPT ![r] = origin[Key[r]]]
    /\ UNCHANGED <<origin, effects>>

\* In flight, a reused key or an error of the command: without effect.
Refuse(r) ==
    /\ answer[r] = "none"
    /\ answer' = [answer EXCEPT ![r] = "refused"]
    /\ UNCHANGED <<origin, effects>>

Next == \E r \in Request : TakeEffect(r) \/ Respond(r) \/ Refuse(r)

Spec == Init /\ [][Next]_onceVars
=============================================================================
