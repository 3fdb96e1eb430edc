---------------------------- MODULE Idempotency ----------------------------
(***************************************************************************)
(* IdempotencyMiddleware and IdempotencyStore for one tenant: a keyed POST *)
(* claims its key, runs the command and stores the response in a single    *)
(* database transaction, under READ COMMITTED.                             *)
(*                                                                         *)
(* A claim is several statements: a read of the key's committed row, a try *)
(* of the key's advisory lock, and an insert that does nothing on conflict.*)
(* The row a transaction inserts is seen by nobody else until it commits.  *)
(* Abstracted: bodies and headers (a request has a content, a response is  *)
(* that of the request that ran), and requests without key or tenant,      *)
(* which pass through.  delete_expired has no caller: keys are kept.       *)
(***************************************************************************)
EXTENDS Naturals

CONSTANTS
    Request,    \* requests ever sent; a client's retry is a request of its own
    Key,        \* Key[r]: its Idempotency-Key
    Content,    \* Content[r]: its endpoint and the hash of its body
    Nobody      \* no request

ASSUME IdempotencyAssumption ==
    /\ Nobody \notin Request
    /\ DOMAIN Key = Request
    /\ DOMAIN Content = Request

Keys == {Key[r] : r \in Request}

VARIABLES
    stored,     \* stored[k]: the request whose completed row is committed for k, or Nobody
    keyLock,    \* keyLock[k]: the request whose transaction holds k's advisory lock
    phase,      \* phase[r]: where the request's transaction stands
    effects,    \* history: effects[k] counts the commands of key k that were committed
    answer      \* answer[r]: what the client received

requestVars == <<stored, keyLock, phase, effects, answer>>

RequestInit ==
    /\ stored = [k \in Keys |-> Nobody]
    /\ keyLock = [k \in Keys |-> Nobody]
    /\ phase = [r \in Request |-> "sent"]
    /\ effects = [k \in Keys |-> 0]
    /\ answer = [r \in Request |-> "none"]

\* The transaction is over; its advisory lock goes with it.
EndTransaction(r) ==
    /\ phase' = [phase EXCEPT ![r] = "over"]
    /\ keyLock' = [k \in Keys |-> IF keyLock[k] = r THEN Nobody ELSE keyLock[k]]

Refused(r) ==
    /\ EndTransaction(r)
    /\ answer' = [answer EXCEPT ![r] = "refused"]
    /\ UNCHANGED <<stored, effects>>

\* _classify a committed row: replay the stored response, or IDEMPOTENCY_KEY_REUSED.
Classify(r) ==
    IF Content[stored[Key[r]]] = Content[r]
    THEN /\ EndTransaction(r)
         /\ answer' = [answer EXCEPT ![r] = stored[Key[r]]]
         /\ UNCHANGED <<stored, effects>>
    ELSE Refused(r)

\* claim: the first read of the key.
Look(r) ==
    /\ phase[r] = "sent"
    /\ IF stored[Key[r]] # Nobody THEN Classify(r)
       ELSE /\ phase' = [phase EXCEPT ![r] = "looked"]
            /\ UNCHANGED <<stored, keyLock, effects, answer>>

\* claim: the lock is not free, REQUEST_IN_FLIGHT.
Busy(r) ==
    /\ phase[r] = "looked"
    /\ keyLock[Key[r]] # Nobody
    /\ Refused(r)

\* claim: the lock is taken.
TryLock(r) ==
    /\ phase[r] = "looked"
    /\ keyLock[Key[r]] = Nobody
    /\ keyLock' = [keyLock EXCEPT ![Key[r]] = r]
    /\ phase' = [phase EXCEPT ![r] = "locked"]
    /\ UNCHANGED <<stored, effects, answer>>

\* Fault: the first read of the key is trusted.
InsertAlways(r) ==
    /\ phase[r] = "locked"
    /\ phase' = [phase EXCEPT ![r] = "running"]
    /\ UNCHANGED <<stored, keyLock, effects, answer>>

\* claim: INSERT ... ON CONFLICT DO NOTHING; a row committed since the first read
\* is read again and classified.
Insert(r) ==
    /\ phase[r] = "locked"
    /\ IF stored[Key[r]] # Nobody THEN Classify(r)
       ELSE /\ phase' = [phase EXCEPT ![r] = "running"]
            /\ UNCHANGED <<stored, keyLock, effects, answer>>

\* The endpoint answers with a status of 400 or more, or raises: all is rolled back
\* and the answer is not stored, so a retry runs the command anew.
CommandFails(r) ==
    /\ phase[r] = "running"
    /\ Refused(r)

\* The endpoint succeeds on the middleware's connection; complete stores its response.
CommandSucceeds(r) ==
    /\ phase[r] = "running"
    /\ phase' = [phase EXCEPT ![r] = "completing"]
    /\ UNCHANGED <<stored, keyLock, effects, answer>>

Committed(r) ==
    /\ stored' = [stored EXCEPT ![Key[r]] = r]
    /\ effects' = [effects EXCEPT ![Key[r]] = @ + 1]
    /\ keyLock' = [keyLock EXCEPT ![Key[r]] = Nobody]

\* The transaction commits, before anything is sent.
Commit(r) ==
    /\ phase[r] = "completing"
    /\ Committed(r)
    /\ phase' = [phase EXCEPT ![r] = "committed"]
    /\ UNCHANGED answer

\* The buffered response goes out.
Send(r) ==
    /\ phase[r] = "committed"
    /\ phase' = [phase EXCEPT ![r] = "over"]
    /\ answer' = [answer EXCEPT ![r] = r]
    /\ UNCHANGED <<stored, keyLock, effects>>

\* The process dies or the client is gone, before the commit or after it: the
\* client hears nothing and may send the request again.
Lose(r) ==
    /\ phase[r] # "over"
    /\ EndTransaction(r)
    /\ UNCHANGED <<stored, effects, answer>>

ClaimKey(r) == Look(r) \/ Busy(r) \/ TryLock(r) \/ Insert(r)

RequestNext ==
    \E r \in Request :
        \/ ClaimKey(r) \/ CommandFails(r) \/ CommandSucceeds(r)
        \/ Commit(r) \/ Send(r) \/ Lose(r)

RequestSpec == RequestInit /\ [][RequestNext]_requestVars

-----------------------------------------------------------------------------
(* Properties.                                                               *)

Once == INSTANCE OnceOnly WITH origin <- stored

\* The middleware implements OnceOnly: however retries of a request interleave and
\* whatever is lost on the way, its command takes effect once, and all successful
\* answers are the one recorded response, to the content that produced it.
ImplementsOnceOnly == Once!Spec
=============================================================================
