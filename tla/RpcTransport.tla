---------------------------- MODULE RpcTransport ----------------------------
(***************************************************************************)
(* ReqwestClient (client/src/clients/reqwest_client.rs): the tasks that    *)
(* share a client put their requests into a bounded channel, and one       *)
(* worker posts them one after the other and hands each answer to a        *)
(* channel that belongs to the request.  Nothing limits how long the       *)
(* server may take.                                                        *)
(***************************************************************************)
EXTENDS Integers, Sequences

CONSTANTS
  Callers,      \* tasks that hold the client
  Capacity,     \* of the request channel, 1024 in the code
  MaxRequests   \* bound: requests that are made

ASSUME TransportAssumption == Capacity \in Nat \ {0} /\ MaxRequests \in Nat

VARIABLES
  nextId,   \* the shared counter of request ids
  caller,   \* where each task is in request_raw, with which id
  queue,    \* the request channel: ids, oldest first
  post,     \* the request the worker is posting, or NoRequest
  posted,   \* history: the requests that went to the server
  open      \* some clone of the client is left

rpcVars == <<nextId, caller, queue, post, posted, open>>

NoRequest == -1

(* at:   "idle", "sending" (awaiting the request channel) or "waiting"      *)
(* id:   the request of the call, or of the last one                        *)
(* got:  of the last call: "pending", "error" or "ok"                       *)
(* what: the request whose result the last call returned                    *)
Idle == [at |-> "idle", id |-> NoRequest, got |-> "pending", what |-> NoRequest]

TransportInit ==
  /\ nextId = 0
  /\ caller = [c \in Callers |-> Idle]
  /\ queue = <<>>
  /\ post = NoRequest
  /\ posted = {}
  /\ open = TRUE

(* request_raw, to its first await. *)
MakeRequest(c) ==
  /\ open /\ caller[c].at = "idle"
  /\ nextId < MaxRequests
  /\ caller' = [caller EXCEPT ![c] =
                  [at |-> "sending", id |-> nextId, got |-> "pending", what |-> NoRequest]]
  /\ nextId' = nextId + 1
  /\ UNCHANGED <<queue, post, posted, open>>

(* self.tx.send(message): waits while the channel is full. *)
Enqueue(c) ==
  /\ caller[c].at = "sending"
  /\ Len(queue) < Capacity
  /\ queue' = Append(queue, caller[c].id)
  /\ caller' = [caller EXCEPT ![c].at = "waiting"]
  /\ UNCHANGED <<nextId, post, posted, open>>

(* The future of request_raw is dropped: what is queued stays queued. *)
GiveUp(c) ==
  /\ caller[c].at # "idle"
  /\ caller' = [caller EXCEPT ![c].at = "idle", ![c].got = "pending"]
  /\ UNCHANGED <<nextId, queue, post, posted, open>>

(* The last clone of the client is dropped; a call borrows one. *)
Close ==
  /\ open /\ \A c \in Callers : caller[c].at = "idle"
  /\ open' = FALSE
  /\ UNCHANGED <<nextId, caller, queue, post, posted>>

(* task: rx.recv(), which still yields what was queued before Close. *)
TakeRequest ==
  /\ post = NoRequest /\ queue # <<>>
  /\ post' = Head(queue)
  /\ queue' = Tail(queue)
  /\ posted' = posted \union {Head(queue)}
  /\ UNCHANGED <<nextId, caller, open>>

(* Mutants of Deliver: the id of the answer is not compared; the worker      *)
(* waits until somebody takes the answer.                                   *)
DeliverUnchecked(got, what) ==
  caller' = [c \in Callers |->
    IF caller[c].at = "waiting" /\ caller[c].id = post
    THEN [caller[c] EXCEPT !.at = "idle", !.got = got,
                           !.what = IF got = "ok" THEN what ELSE NoRequest]
    ELSE caller[c]]

DeliverRendezvous(got, what) ==
  /\ \E c \in Callers : caller[c].at = "waiting" /\ caller[c].id = post
  /\ caller' = [c \in Callers |->
       IF caller[c].at = "waiting" /\ caller[c].id = post
       THEN [caller[c] EXCEPT !.at = "idle",
                              !.got = IF got = "ok" /\ what = post THEN "ok" ELSE "error",
                              !.what = IF got = "ok" /\ what = post THEN what ELSE NoRequest]
       ELSE caller[c]]

(* tx_response.send, and request_raw from rx.recv() on.  If the caller went  *)
(* away, the answer goes nowhere.  An answer with another id is an error;    *)
(* one without an id is not compared, and a server leaves it out only of an  *)
(* error it cannot attribute.                                               *)
Deliver(got, what) ==
  caller' = [c \in Callers |->
    IF caller[c].at = "waiting" /\ caller[c].id = post
    THEN [caller[c] EXCEPT !.at = "idle",
                           !.got = IF got = "ok" /\ what = post THEN "ok" ELSE "error",
                           !.what = IF got = "ok" /\ what = post THEN what ELSE NoRequest]
    ELSE caller[c]]

(* The server answers with a result, in which it may have mixed up two       *)
(* requests, or with a JSON-RPC error or a body without a result.           *)
Answered ==
  /\ post # NoRequest
  /\ \/ \E what \in posted : Deliver("ok", what)
     \/ Deliver("error", NoRequest)
  /\ post' = NoRequest
  /\ UNCHANGED <<nextId, queue, posted, open>>

(* Mutant of PostFails: the worker puts the request back. *)
PostFailsAgain ==
  /\ post # NoRequest
  /\ queue' = Append(queue, post)
  /\ post' = NoRequest
  /\ UNCHANGED <<nextId, caller, posted, open>>

(* The connection, the status or the body's encoding is bad. *)
PostFails ==
  /\ post # NoRequest
  /\ Deliver("error", NoRequest)
  /\ post' = NoRequest
  /\ UNCHANGED <<nextId, queue, posted, open>>

TransportNext ==
  \/ \E c \in Callers : MakeRequest(c) \/ Enqueue(c) \/ GiveUp(c)
  \/ Close \/ TakeRequest \/ Answered \/ PostFails

TransportSpec == TransportInit /\ [][TransportNext]_rpcVars

(* The worker is scheduled, a slot that is free for ever goes to whoever     *)
(* waits for it, and the server answers or the connection breaks.           *)
TransportFairness ==
  /\ WF_rpcVars(TakeRequest)
  /\ WF_rpcVars(Answered \/ PostFails)
  /\ \A c \in Callers : SF_rpcVars(Enqueue(c))

-----------------------------------------------------------------------------
(* What a call returns as its result is the result of its own request, also  *)
(* when answers are mixed up and earlier calls of the task were dropped.    *)
OwnAnswer == \A c \in Callers : caller[c].got = "ok" => caller[c].what = caller[c].id

(* No request goes to the server a second time: what must not be repeated,   *)
(* a submission, is repeated only by those who call.                        *)
PostedOnce ==
  [][ post' # post /\ post' # NoRequest => post' \notin posted ]_rpcVars

(* Every call ends, whichever callers gave up while their requests were      *)
(* queued or posted, and however full the channel was.                      *)
CallsEnd == \A c \in Callers : caller[c].at # "idle" ~> caller[c].at = "idle"
=============================================================================
