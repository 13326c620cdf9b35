---------------------------- MODULE CenterUpdate ----------------------------
(***************************************************************************)
(* framework/CF_framework_center.h: a request of a client from the socket  *)
(* through the task queue to the candidate and, in parallel, to every      *)
(* calculation module, and the code the client gets.                       *)
(*                                                                         *)
(* The candidate and the modules (external) take an update in or refuse it *)
(* and answer; a connection may fail before or after that.                 *)
(* UC_CenterMessage (external) runs process_task for each module,          *)
(* combine_task when all are through, and may give up waiting.             *)
(***************************************************************************)
EXTENDS Integers, Sequences, FiniteSets

CONSTANTS Listeners,   \* the threads of thread_listen
          Procs,       \* the threads of thread_process
          Modules,     \* m_cfg.fw_calc_num of them
          Tasks,       \* requests; the actions are all of one user
          None,        \* model value
          Kind,        \* task -> "action", "document" or "subscribe"
          Refusable,   \* requests the candidate may refuse
          QueueSize,   \* fw_queue_size
          MaxFailures  \* bound on failing calls

ASSUME UpdateAssumption ==
  /\ Kind \in [Tasks -> {"action", "document", "subscribe"}]
  /\ None \notin Tasks /\ Refusable \subseteq Tasks /\ IsFiniteSet(Modules)
  /\ QueueSize \in Nat \ {0} /\ MaxFailures \in Nat

VARIABLES
  listener,  \* the request each listener reads, or None
  taskQueue, \* m_taskQueue
  proc,      \* the task of each process thread and its step
  reply,     \* what the client got: Pending, Closed, -1 or a count
  seen,      \* the candidate has taken in these requests, actions being history
  refused,   \* the candidate has answered these with a refusal
  history,   \* the history sent along with each action
  todo,      \* modules whose process_task has not run, per task
  acked,     \* modules that answered code 0, per task
  applied,   \* module -> the requests it has taken in
  before,    \* history variable: actions answered when the request came
  failures

vars == <<listener, taskQueue, proc, reply, seen, refused, history, todo, acked,
          applied, before, failures>>

Rest == [pc |-> "idle", task |-> None]
Pending == -2
Closed == -3   \* without an answer
Codes == 0..Cardinality(Modules)
Actions == {t \in Tasks : Kind[t] = "action"}
Answered == {t \in Actions : reply[t] \in Codes}
Fresh == {t \in Tasks : /\ reply[t] = Pending /\ t \notin {listener[l] : l \in Listeners}
                        /\ \A i \in DOMAIN taskQueue : taskQueue[i] # t
                        /\ \A p \in Procs : proc[p].task # t}

Init == /\ listener = [l \in Listeners |-> None]
        /\ taskQueue = <<>>
        /\ proc = [p \in Procs |-> Rest]
        /\ reply = [t \in Tasks |-> Pending]
        /\ seen = {}
        /\ refused = {}
        /\ history = [t \in Tasks |-> {}]
        /\ todo = [t \in Tasks |-> {}]
        /\ acked = [t \in Tasks |-> {}]
        /\ applied = [m \in Modules |-> {}]
        /\ before = [t \in Tasks |-> {}]
        /\ failures = 0

Fails == failures < MaxFailures /\ failures' = failures + 1

-----------------------------------------------------------------------------
(* thread_listen *)
Accept(l) ==
  /\ listener[l] = None
  /\ \E t \in Fresh : /\ listener' = [listener EXCEPT ![l] = t]
                      /\ before' = [before EXCEPT ![t] = Answered]
  /\ UNCHANGED <<taskQueue, proc, reply, seen, refused, history, todo, acked, applied, failures>>

(* mutant: a full queue is not waited for *)
ReceiveAnyway(l) ==
  /\ listener[l] # None
  /\ taskQueue' = Append(taskQueue, listener[l])
  /\ listener' = [listener EXCEPT ![l] = None]
  /\ UNCHANGED <<proc, reply, seen, refused, history, todo, acked, applied, before, failures>>

(* the request is received, parsed and queued; PushData waits while the queue
   is full *)
Receive(l) ==
  /\ listener[l] # None
  /\ Len(taskQueue) < QueueSize
  /\ taskQueue' = Append(taskQueue, listener[l])
  /\ listener' = [listener EXCEPT ![l] = None]
  /\ UNCHANGED <<proc, reply, seen, refused, history, todo, acked, applied, before, failures>>

(* head, length, body or parse error: the connection is closed unanswered *)
ReceiveFails(l) ==
  /\ listener[l] # None /\ Fails
  /\ reply' = [reply EXCEPT ![listener[l]] = Closed]
  /\ listener' = [listener EXCEPT ![l] = None]
  /\ UNCHANGED <<taskQueue, proc, seen, refused, history, todo, acked, applied, before>>

-----------------------------------------------------------------------------
(* thread_process *)
First(t) == IF Kind[t] = "action" THEN "history" ELSE "update"

PopTask(p) ==
  /\ proc[p].pc = "idle" /\ taskQueue # <<>>
  /\ LET t == Head(taskQueue) IN proc' = [proc EXCEPT ![p] = [pc |-> First(t), task |-> t]]
  /\ taskQueue' = Tail(taskQueue)
  /\ UNCHANGED <<listener, reply, seen, refused, history, todo, acked, applied, before, failures>>

(* mutant: the thread does not go back for the next task *)
SendAndStay(p, code) == /\ reply' = [reply EXCEPT ![proc[p].task] = code]
                        /\ proc' = proc

(* the answer is sent, the connection closed, the thread takes the next task *)
Send(p, code) == /\ reply' = [reply EXCEPT ![proc[p].task] = code]
                 /\ proc' = [proc EXCEPT ![p] = Rest]

(* process_action: candidate_query(history) *)
QueryHistory(p) ==
  /\ proc[p].pc = "history"
  /\ history' = [history EXCEPT ![proc[p].task] = seen \cap Actions]
  /\ proc' = [proc EXCEPT ![p].pc = "update"]
  /\ UNCHANGED <<listener, taskQueue, reply, seen, refused, todo, acked, applied, before, failures>>

(* mutant: an empty answer counts as an empty history *)
QueryHistoryEmpty(p) ==
  /\ proc[p].pc = "history" /\ Fails
  /\ proc' = [proc EXCEPT ![p].pc = "update"]
  /\ UNCHANGED <<listener, taskQueue, reply, seen, refused, history, todo, acked, applied, before>>

(* ... which fails, or returns nothing *)
QueryHistoryFails(p) ==
  /\ proc[p].pc = "history" /\ Fails
  /\ Send(p, -1)
  /\ UNCHANGED <<listener, taskQueue, seen, refused, history, todo, acked, applied, before>>

(* the candidate answers with a refusal *)
Refuses(t) == t \in Refusable /\ refused' = refused \cup {t} /\ UNCHANGED seen

(* process_subscribe: the client gets the code of the candidate, which takes
   the subscription in or refuses it *)
Subscribe(p) ==
  /\ proc[p].pc = "update" /\ Kind[proc[p].task] = "subscribe"
  /\ \/ seen' = seen \cup {proc[p].task} /\ UNCHANGED refused /\ Send(p, 0)
     \/ Refuses(proc[p].task) /\ Send(p, -1)
  /\ UNCHANGED <<listener, taskQueue, history, todo, acked, applied, before, failures>>

(* candidate_query(update): the candidate takes it in or refuses it; only the
   status of the transport is looked at, so the modules get it either way *)
UpdateCandidate(p) ==
  /\ proc[p].pc = "update" /\ Kind[proc[p].task] # "subscribe"
  /\ \/ seen' = seen \cup {proc[p].task} /\ UNCHANGED refused
     \/ Refuses(proc[p].task)
  /\ todo' = [todo EXCEPT ![proc[p].task] = Modules]
  /\ proc' = [proc EXCEPT ![p].pc = "wait"]
  /\ UNCHANGED <<listener, taskQueue, reply, history, acked, applied, before, failures>>

(* mutant: the modules get the update though the candidate failed *)
UpdateCandidateIgnored(p) ==
  /\ proc[p].pc = "update" /\ Fails
  /\ todo' = [todo EXCEPT ![proc[p].task] = Modules]
  /\ proc' = [proc EXCEPT ![p].pc = "wait"]
  /\ UNCHANGED <<listener, taskQueue, reply, seen, refused, history, acked, applied, before>>

(* ... which fails before or after the candidate took it in *)
UpdateCandidateFails(p) ==
  /\ proc[p].pc = "update" /\ Fails
  /\ seen' \in {seen, seen \cup {proc[p].task}}
  /\ Send(p, -1)
  /\ UNCHANGED <<listener, taskQueue, refused, history, todo, acked, applied, before>>

(* ICM_Update_Processor::process_task for module m *)
ProcessTask(t, m) ==
  /\ m \in todo[t]
  /\ todo' = [todo EXCEPT ![t] = @ \ {m}]
  /\ applied' = [applied EXCEPT ![m] = @ \cup {t}]
  /\ acked' = [acked EXCEPT ![t] = @ \cup {m}]
  /\ UNCHANGED <<listener, taskQueue, proc, reply, seen, refused, history, before, failures>>

(* ... which does not reach the module, is refused by it, or loses its answer *)
ProcessTaskFails(t, m) ==
  /\ m \in todo[t] /\ Fails
  /\ todo' = [todo EXCEPT ![t] = @ \ {m}]
  /\ applied' \in {applied, [applied EXCEPT ![m] = @ \cup {t}]}
  /\ UNCHANGED <<listener, taskQueue, proc, reply, seen, refused, history, acked, before>>

(* mutant: no answer is taken for code 0 *)
CombineLenient(p) ==
  /\ proc[p].pc = "wait" /\ todo[proc[p].task] = {}
  /\ Send(p, 0)
  /\ UNCHANGED <<listener, taskQueue, seen, refused, history, todo, acked, applied, before,
                 failures>>

(* get_message returns combine_task's count of the modules without code 0 *)
Combine(p) ==
  /\ proc[p].pc = "wait" /\ todo[proc[p].task] = {}
  /\ Send(p, Cardinality(Modules) - Cardinality(acked[proc[p].task]))
  /\ UNCHANGED <<listener, taskQueue, seen, refused, history, todo, acked, applied, before,
                 failures>>

(* put_message fails, or get_message gives up on the modules *)
PutMessageFails(p) ==
  /\ proc[p].pc = "wait" /\ todo[proc[p].task] = Modules /\ Fails
  /\ todo' = [todo EXCEPT ![proc[p].task] = {}]
  /\ Send(p, -1)
  /\ UNCHANGED <<listener, taskQueue, seen, refused, history, acked, applied, before>>

GetMessageFails(p) ==
  /\ proc[p].pc = "wait" /\ Fails
  /\ Send(p, -1)
  /\ UNCHANGED <<listener, taskQueue, seen, refused, history, todo, acked, applied, before>>

-----------------------------------------------------------------------------
Listen(l) == Accept(l) \/ Receive(l) \/ ReceiveFails(l)

Process(p) == \/ PopTask(p) \/ QueryHistory(p) \/ QueryHistoryFails(p)
              \/ Subscribe(p) \/ UpdateCandidate(p) \/ UpdateCandidateFails(p)
              \/ Combine(p) \/ PutMessageFails(p) \/ GetMessageFails(p)

Calculate(t, m) == ProcessTask(t, m) \/ ProcessTaskFails(t, m)

Next == \/ \E l \in Listeners : Listen(l)
        \/ \E p \in Procs : Process(p)
        \/ \E t \in Tasks, m \in Modules : Calculate(t, m)

(* every thread goes on; of the calls that are out, one ends, if only by its
   time limit (cp_set_overtime) *)
Fairness == /\ \A l \in Listeners : WF_vars(Listen(l))
            /\ \A p \in Procs : WF_vars(Process(p))
            /\ WF_vars(\E t \in Tasks, m \in Modules : Calculate(t, m))

Spec == Init /\ [][Next]_vars /\ Fairness

-----------------------------------------------------------------------------
(* What each variable ranges over. *)
TypeOK ==
  /\ listener \in [Listeners -> Tasks \cup {None}]
  /\ taskQueue \in Seq(Tasks) /\ Len(taskQueue) <= QueueSize
  /\ proc \in [Procs -> [pc : {"idle", "history", "update", "wait"}, task : Tasks \cup {None}]]
  /\ reply \in [Tasks -> Codes \cup {-1, Pending, Closed}]
  /\ seen \subseteq Tasks /\ refused \subseteq Tasks
  /\ history \in [Tasks -> SUBSET Actions] /\ before \in [Tasks -> SUBSET Actions]
  /\ todo \in [Tasks -> SUBSET Modules] /\ acked \in [Tasks -> SUBSET Modules]
  /\ applied \in [Modules -> SUBSET Tasks]
  /\ failures \in 0..MaxFailures

(* Code 0 for a subscription means that the candidate has taken it in.  Code 0
   for an action or a document means that every module has, and that the
   candidate has answered, whatever failed or came late for other requests: it
   is combine_task's count of the modules without code 0.  It does not mean that
   the candidate took it in: process_action and process_document do not look at
   the code it answered. *)
CodeZeroMeansAll ==
  \A t \in Tasks : reply[t] = 0 =>
    /\ t \in (IF Kind[t] = "subscribe" THEN seen ELSE seen \cup refused)
    /\ Kind[t] # "subscribe" => \A m \in Modules : t \in applied[m]

(* No module calculates with an action or a document that the candidate has
   not answered, to take it in or to refuse it, not even one that runs after
   the client was told of an error. *)
ModulesAfterCandidate == \A m \in Modules : applied[m] \subseteq seen \cup refused

(* The history that goes to the modules with an action holds every action that
   was answered with a code before the request came in and that the candidate
   had not refused: of two actions of a user one after the other, the second is
   never calculated without the first.  (Of two at once, each may miss the
   other; one the candidate refused is answered like any other and is in no
   history.) *)
HistoryHoldsAnswered ==
  \A t \in Actions, m \in Modules : t \in applied[m] => before[t] \subseteq history[t] \cup refused

(* Every request that was accepted is answered or closed. *)
EveryRequestEnds ==
  \A t \in Tasks : (\E l \in Listeners : listener[l] = t) ~> reply[t] # Pending
=============================================================================
