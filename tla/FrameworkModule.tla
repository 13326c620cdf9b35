--------------------------- MODULE FrameworkModule ---------------------------
(***************************************************************************)
(* framework/CF_framework_module.h: thread_kafka takes updates from the    *)
(* topic in order, the threads of thread_network take requests from        *)
(* clients, and both call the model.                                       *)
(*                                                                         *)
(* A message is its position in the topic.  librdkafka (external) counts a *)
(* message as consumed when consume() returns it and writes the count to   *)
(* the offset file every 100 ms.  The model keeps what its update calls    *)
(* did when they returned 0 (see PeriodicLog); one that failed or died may *)
(* have left a part.                                                       *)
(***************************************************************************)
EXTENDS Naturals, FiniteSets

CONSTANTS Messages,   \* how many messages the topic holds
          Workers,    \* the threads of thread_network
          Clients,    \* requests, one connection each
          Garbled,    \* clients whose request ParseFromArray rejects
          Unpackable, \* clients whose Any does not unpack
          None,       \* model value
          MaxOpen,    \* how many connections the process may have open
          MaxCrashes, MaxFaults   \* bounds

ASSUME ModuleAssumption == /\ Messages \in Nat /\ MaxOpen \in Nat \ {0}
                           /\ Garbled \subseteq Clients /\ None \notin Clients
                           /\ Unpackable \subseteq Clients \ Garbled
                           /\ MaxCrashes \in Nat /\ MaxFaults \in Nat

VARIABLES
  up,        \* the process runs and init_framework is through
  consumed,  \* messages consume() has returned to this process, or before it
  offset,    \* what the offset file says
  current,   \* the message thread_kafka works on, or 0
  done,      \* messages whose update returned 0
  refused,   \* messages that parse_json or an update refused
  worker,    \* what each network thread works on
  conn,      \* the state of each client's connection
  reply,     \* its respond_code, or None
  crashes, faults

topic == <<consumed, offset, current, done, refused>>
network == <<worker, conn, reply>>
vars == <<up, topic, network, crashes, faults>>

Free == [pc |-> "accept", client |-> None]
Open == {c \in Clients : conn[c] = "open"}

Init == /\ up = FALSE
        /\ consumed = 0 /\ offset = 0 /\ current = 0
        /\ done = {} /\ refused = {}
        /\ worker = [w \in Workers |-> Free]
        /\ conn = [c \in Clients |-> "new"]
        /\ reply = [c \in Clients |-> "none"]
        /\ crashes = 0 /\ faults = 0

-----------------------------------------------------------------------------
(* init_framework: the socket listens, the model is opened (recovering its
   logs), the consumer starts at the stored offset, then the threads *)
initFramework ==
  /\ ~up
  /\ up' = TRUE
  /\ consumed' = offset
  /\ UNCHANGED <<offset, current, done, refused, network, crashes, faults>>

(* A client connects; the listening socket keeps it till it is accepted. *)
Connect(c) ==
  /\ up /\ conn[c] = "new"
  /\ conn' = [conn EXCEPT ![c] = "waiting"]
  /\ UNCHANGED <<up, topic, worker, reply, crashes, faults>>

-----------------------------------------------------------------------------
(* mutant: several messages are fetched ahead *)
consumeAhead ==
  /\ up /\ current = 0
  /\ \E n \in (consumed + 1)..Messages : consumed' = n /\ current' = consumed + 1
  /\ UNCHANGED <<up, offset, done, refused, network, crashes, faults>>

(* UC_Kafka::message *)
consume ==
  /\ up /\ current = 0 /\ consumed < Messages
  /\ consumed' = consumed + 1 /\ current' = consumed + 1
  /\ UNCHANGED <<up, offset, done, refused, network, crashes, faults>>

(* mutant: the offset of the next message but one is written *)
commitOffsetNext ==
  /\ up /\ offset < consumed
  /\ offset' = consumed + 1
  /\ UNCHANGED <<up, consumed, current, done, refused, network, crashes, faults>>

(* librdkafka's timer *)
commitOffset ==
  /\ up /\ offset < consumed
  /\ offset' = consumed
  /\ UNCHANGED <<up, consumed, current, done, refused, network, crashes, faults>>

(* thread_kafka: the update returns 0 *)
updateMessage ==
  /\ up /\ current # 0
  /\ done' = done \cup {current} /\ current' = 0
  /\ UNCHANGED <<up, consumed, offset, refused, network, crashes, faults>>

(* ... is not called or fails: the message is reported and passed over *)
dropMessage ==
  /\ up /\ current # 0 /\ faults < MaxFaults
  /\ faults' = faults + 1
  /\ refused' = refused \cup {current} /\ current' = 0
  /\ UNCHANGED <<up, consumed, offset, done, network, crashes>>

-----------------------------------------------------------------------------
(* recv_request: cp_accept_socket needs a free descriptor *)
accept(w) ==
  /\ up /\ worker[w].pc = "accept"
  /\ Cardinality(Open) < MaxOpen
  /\ \E c \in Clients : /\ conn[c] = "waiting"
                        /\ conn' = [conn EXCEPT ![c] = "open"]
                        /\ worker' = [worker EXCEPT ![w] = [pc |-> "parse", client |-> c]]
  /\ UNCHANGED <<up, topic, reply, crashes, faults>>

(* recv_request: no length, too long, or not all of it: closed unanswered *)
recvFails(w) ==
  /\ up /\ worker[w].pc = "parse" /\ faults < MaxFaults
  /\ faults' = faults + 1
  /\ conn' = [conn EXCEPT ![worker[w].client] = "closed"]
  /\ worker' = [worker EXCEPT ![w] = Free]
  /\ UNCHANGED <<up, topic, reply, crashes>>

(* ParseFromArray; a request it rejects is left where it is, its connection
   open and in nobody's hands *)
parse(w) ==
  /\ up /\ worker[w].pc = "parse"
  /\ worker' = [worker EXCEPT ![w] = IF worker[w].client \in Garbled
                                       THEN Free ELSE [@ EXCEPT !.pc = "handle"]]
  /\ UNCHANGED <<up, topic, conn, reply, crashes, faults>>

(* the switch over main_protocol, query_interface included: the code is 0 when
   the model's call returned 0, the call's code when it failed, and a code of
   the framework when it was not made *)
handle(w) ==
  /\ up /\ worker[w].pc = "handle"
  /\ LET c == worker[w].client
     IN \/ c \notin Unpackable /\ reply' = [reply EXCEPT ![c] = "zero"] /\ UNCHANGED faults
        \/ c \in Unpackable /\ reply' = [reply EXCEPT ![c] = "failed"] /\ UNCHANGED faults
        \/ /\ c \notin Unpackable /\ faults < MaxFaults
           /\ faults' = faults + 1
           /\ reply' = [reply EXCEPT ![c] = "failed"]
  /\ worker' = [worker EXCEPT ![w].pc = "send"]
  /\ UNCHANGED <<up, topic, conn, crashes>>

(* mutant: the connection stays open after the answer *)
sendOpen(w) ==
  /\ up /\ worker[w].pc = "send"
  /\ worker' = [worker EXCEPT ![w] = Free]
  /\ UNCHANGED <<up, topic, conn, reply, crashes, faults>>

(* send_request: the answer, or -1 for one too long, then the connection is
   closed whether or not it was sent *)
send(w) ==
  /\ up /\ worker[w].pc = "send"
  /\ conn' = [conn EXCEPT ![worker[w].client] = "answered"]
  /\ worker' = [worker EXCEPT ![w] = Free]
  /\ UNCHANGED <<up, topic, reply, crashes, faults>>

-----------------------------------------------------------------------------
(* The process dies: its connections break, what the model persisted stays. *)
Crash ==
  /\ up /\ crashes < MaxCrashes
  /\ crashes' = crashes + 1
  /\ up' = FALSE
  /\ current' = 0
  /\ worker' = [w \in Workers |-> Free]
  /\ conn' = [c \in Clients |-> IF conn[c] \in {"waiting", "open"} THEN "closed" ELSE conn[c]]
  /\ UNCHANGED <<consumed, offset, done, refused, reply, faults>>

Kafka == consume \/ updateMessage \/ dropMessage

Network(w) == accept(w) \/ recvFails(w) \/ parse(w) \/ handle(w) \/ send(w)

Next == \/ initFramework \/ Crash
        \/ Kafka \/ commitOffset
        \/ \E c \in Clients : Connect(c)
        \/ \E w \in Workers : Network(w)

(* the process is started again, and its threads go on *)
Fairness == /\ WF_vars(initFramework) /\ WF_vars(Kafka)
            /\ \A w \in Workers : WF_vars(Network(w))

Spec == Init /\ [][Next]_vars /\ Fairness

-----------------------------------------------------------------------------
(* What each variable ranges over. *)
TypeOK ==
  /\ up \in BOOLEAN
  /\ consumed \in 0..Messages /\ offset \in 0..Messages /\ offset <= consumed
  /\ current \in {0, consumed}
  /\ done \subseteq 1..Messages /\ refused \subseteq 1..Messages
  /\ worker \in [Workers -> [pc : {"accept", "parse", "handle", "send"},
                             client : Clients \cup {None}]]
  /\ conn \in [Clients -> {"new", "waiting", "open", "closed", "answered"}]
  /\ reply \in [Clients -> {"none", "zero", "failed"}]
  /\ crashes \in 0..MaxCrashes /\ faults \in 0..MaxFaults

Missing == (1..offset) \ (done \cup refused \cup {current})

(* The offset file may be ahead of the updates, but by no more than the
   messages in hand at a crash: one per crash.  Everything else that the file
   passed over was done or refused. *)
OneLostPerCrash == Cardinality(Missing) <= crashes

(* As long as not too many requests are garbled, every client that gets
   through to the socket is answered or its connection closed.  (Each garbled
   one takes a descriptor for good.) *)
ClientsServed ==
  Cardinality(Garbled) < MaxOpen =>
    \A c \in Clients \ Garbled : conn[c] = "waiting" ~> conn[c] \in {"answered", "closed"}
=============================================================================
