----------------------------- MODULE RunTokens -----------------------------
(***************************************************************************)
(* The bearer token of a run: minted when the fleet is launched and put    *)
(* into the environment of its containers, presented with every request of *)
(* a worker, and rolled in the answer to a heartbeat                       *)
(* (server/crypto.py, maybe_refresh_jwt, routes/agent.py, worker           *)
(* stoker_agent/control.py).                                               *)
(*                                                                         *)
(* A worker is refused from the moment its token expires, and a refused    *)
(* worker is never given another: rolling in time is all that keeps it     *)
(* connected.  Against it works that answers are lost and that the worker  *)
(* gives up only DeadMan after the last one.  Tokens are given by their    *)
(* expiry; signature, issuer and run id are not told apart.  One worker is *)
(* followed, since the tokens of two never meet.                           *)
(***************************************************************************)
EXTENDS Integers

CONSTANTS
    TTL,             \* STOKER_JWT_TTL_S
    Refresh,         \* JWT_REFRESH_FRACTION of it
    DeadMan,         \* STOKER_DEADMAN_S
    Interval,        \* longest time between two turns of the worker's loop
    Drain,           \* STOKER_DRAIN_BUDGET_S
    MaxTime          \* bound on the time that is looked at

\* 3600, 720, 600, two request timeouts of 30 and an interval of 5, and 40 by
\* default.
ASSUME TokenAssumption ==
    /\ TTL \in Nat /\ Refresh \in Nat /\ DeadMan \in Nat
    /\ Interval \in Nat /\ Drain \in Nat /\ MaxTime \in Nat
    /\ Refresh < TTL
    /\ DeadMan + Interval + Drain <= Refresh

VARIABLES
    now,
    phase,           \* "down", "claiming", "preparing", "warm", "up", "draining"
    token,           \* expiry of the token the worker presents
    ack,             \* time of the last answer
    due,             \* when the worker next acts, at the latest
    beaten           \* has a heartbeat of this process been answered

TokenVars == <<now, phase, token, ack, due, beaten>>

\* Expiry of the token in the environment: it is not minted again for a
\* container that starts later.
projected == TTL

TokenInit ==
    /\ now = 0 /\ phase = "down"
    /\ token = projected /\ ack = 0 /\ due = 0
    /\ beaten = FALSE

verify_run_jwt(expiry) == now < expiry

mint_run_jwt == now + TTL

\* Mutant: a new token once there is nothing left of the old one.
maybe_refresh_jwt_AtExpiry(expiry) == IF expiry - now <= 1 THEN mint_run_jwt ELSE expiry

\* The token the worker has once a heartbeat that presented this one is
\* answered.
maybe_refresh_jwt(expiry) == IF expiry - now <= Refresh THEN mint_run_jwt ELSE expiry

(***************************************************************************)
(* The worker                                                              *)
(***************************************************************************)

\* A container starts: the first, one the driver restarts, one of a scale-up.
boot ==
    /\ phase = "down"
    /\ phase' = "claiming"
    /\ token' = projected /\ ack' = now /\ beaten' = FALSE
    /\ due' = now + DeadMan
    /\ UNCHANGED now

Leave ==
    /\ phase' = "draining"
    /\ due' = now + Drain
    /\ UNCHANGED <<now, token, beaten>>

\* _post_with_backoff: retried until an answer or the dead man, which for
\* claim and ready is counted from the first attempt.
answered(step, next) ==
    /\ phase = step
    /\ verify_run_jwt(token)
    /\ phase' = next
    /\ ack' = now
    /\ UNCHANGED <<now, token, beaten>>

\* The preparation takes as long as the download and the engine need.
claim == answered("claiming", "preparing") /\ due' \in now .. MaxTime

\* download_bundle checks the same token, taken from the environment.
fetch_bundle ==
    /\ phase = "preparing"
    /\ \/ /\ verify_run_jwt(projected)
          /\ phase' = "warm"
          /\ due' = now + DeadMan
          /\ UNCHANGED <<now, token, ack, beaten>>
       \/ Leave /\ UNCHANGED ack

ready == answered("warm", "up") /\ due' = now

give_up ==
    /\ phase \in {"claiming", "warm"} /\ now = due
    /\ Leave /\ UNCHANGED ack

NextTurn == due' \in now + 1 .. now + Interval

\* A turn of the loop: the heartbeat is answered, or it is refused or lost on
\* either way and nothing changes but the time; then the dead man.
heartbeat ==
    /\ phase = "up"
    /\ \/ /\ verify_run_jwt(token)
          /\ token' = maybe_refresh_jwt(token)
          /\ ack' = now /\ beaten' = TRUE
          /\ NextTurn
          /\ UNCHANGED <<now, phase>>
       \/ /\ now - ack <= DeadMan
          /\ NextTurn
          /\ UNCHANGED <<now, phase, token, ack, beaten>>
       \/ /\ now - ack > DeadMan
          /\ Leave /\ UNCHANGED ack

\* A drain or superseded answer, the end of the duration, SIGTERM.
drain == phase \in {"preparing", "warm", "up"} /\ Leave /\ UNCHANGED ack

\* The final report is tried until the drain deadline; then the process ends.
final ==
    /\ phase = "draining"
    /\ phase' = "down"
    /\ UNCHANGED <<now, token, ack, due, beaten>>

crash ==
    /\ phase # "down"
    /\ phase' = "down"
    /\ UNCHANGED <<now, token, ack, due, beaten>>

tick ==
    /\ now < MaxTime
    /\ phase # "down" => now < due
    /\ now' = now + 1
    /\ UNCHANGED <<phase, token, ack, due, beaten>>

TokenNext ==
    \/ boot \/ claim \/ fetch_bundle \/ ready \/ give_up
    \/ heartbeat \/ drain \/ final \/ crash \/ tick

TokenSpec == TokenInit /\ [][TokenNext]_TokenVars

(***************************************************************************)
(* Properties                                                              *)
(***************************************************************************)

\* A worker that has been answered once is never refused for its token: not
\* while it still hopes for the control plane to come back, and not when it
\* sends its final report after giving up.
TokenOutlivesWorker == beaten /\ phase \in {"up", "draining"} => verify_run_jwt(token)

\* A container that starts may present its token (the driver restarts workers
\* for as long as the run lasts, and a scale-up adds some).
ProjectedTokenValid == phase = "claiming" => verify_run_jwt(token)
=============================================================================
