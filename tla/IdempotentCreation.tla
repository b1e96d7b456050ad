------------------------- MODULE IdempotentCreation -------------------------
(***************************************************************************)
(* What the Idempotency-Key gives a client.  A key creates at most one     *)
(* job.  A request that arrives when its key has a job is told at once: of *)
(* that job if its body is the job's, of a conflict otherwise; it is never *)
(* refused.  A request that arrives before that may create the job of its  *)
(* key and is then accepted with it, is refused, or ends in an error; it   *)
(* is neither accepted with the job of another nor refused beside its own. *)
(*                                                                         *)
(* The documentation promises more (docs/business-rules.md, section 8):    *)
(* that of the requests which arrive before the job, those that find it    *)
(* when they insert theirs are told of it too.  The code ends them in an   *)
(* error.                                                                  *)
(***************************************************************************)
CONSTANTS
  Requests,
  Keys,
  Bodies     \* the hashes of request bodies

VARIABLES
  created,  \* [key, body, job] of every job
  answer    \* each request: Unsent, [key, body, code |-> "waiting"], or its answer

vars == <<created, answer>>

Unsent == [code |-> "unsent"]

Init == created = {} /\ answer = [r \in Requests |-> Unsent]

JobsOf(key) == {c \in created : c.key = key}

\* What a request becomes when it arrives.
FirstAnswers(key, body) ==
  IF JobsOf(key) = {}
  THEN {[key |-> key, body |-> body, code |-> "waiting"]}
  ELSE {[key |-> key, body |-> body, code |-> "accepted", job |-> c.job] :
          c \in {d \in JobsOf(key) : d.body = body}}
       \union
       {[key |-> key, body |-> body, code |-> "conflict"] :
          c \in {d \in JobsOf(key) : d.body # body}}

Arrive(request) ==
  /\ answer[request] = Unsent
  /\ \E key \in Keys, body \in Bodies : \E a \in FirstAnswers(key, body) :
       answer' = [answer EXCEPT ![request] = a]
  /\ UNCHANGED created

Create(request) ==
  /\ answer[request].code = "waiting"
  /\ \A c \in created : c.key # answer[request].key /\ c.job # request
  /\ created' = created \union
       {[key |-> answer[request].key, body |-> answer[request].body, job |-> request]}
  /\ UNCHANGED answer

\* What a request that waited may be told.
LastAnswers(request) ==
  LET asked == answer[request]
  IN  {[key |-> asked.key, body |-> asked.body, code |-> "error"]}
      \union
      IF \E c \in created : c.job = request
      THEN {[key |-> asked.key, body |-> asked.body, code |-> "accepted", job |-> request]}
      ELSE {[key |-> asked.key, body |-> asked.body, code |-> "refused"]}

Answer(request) ==
  /\ answer[request].code = "waiting"
  /\ \E a \in LastAnswers(request) : answer' = [answer EXCEPT ![request] = a]
  /\ UNCHANGED created

Next == \E request \in Requests : Arrive(request) \/ Create(request) \/ Answer(request)

Spec == Init /\ [][Next]_vars
=============================================================================
