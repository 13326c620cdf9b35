--------------------------- MODULE CenterMessage ---------------------------
(***************************************************************************)
(* framework/CF_framework_center.h: the messages of the center's clients.  *)
(* parse_json turns a JSON object into a row of fields without names, in   *)
(* the buffer of a task; thread_process and the logs read that row by      *)
(* offsets of their own.  The two sides are written down apart from each   *)
(* other, and a task's buffer still holds what was in it before.           *)
(*                                                                         *)
(* A byte of the buffer is known by what was put there: which message,     *)
(* field, part of the field, and which byte of it.                         *)
(***************************************************************************)
EXTENDS Naturals, Sequences, FiniteSets, SequencesExt

CONSTANTS Messages,    \* what clients send: see Message
          BinarySize,  \* fw_max_binary_size
          MaxMessages  \* bound

VARIABLES
  phase,    \* of the task: "free", "parsing", "parsed", "refused"
  msg,      \* the client's message
  number,   \* which message it is
  lookups,  \* fields to be looked up
  pieces,   \* what is to be written of the field found last
  len,      \* binary_size: bytes written
  buf,      \* parse_buf
  readings  \* what was read of the last message

messageVars == <<phase, msg, number, lookups, pieces, len, buf, readings>>

-----------------------------------------------------------------------------
(* What each of the six functions looks for and writes, in this order *)
parse_action == <<"type", "clicktime", "userid", "docid", "staytime", "action", "location">>
parse_document == <<"type", "docid", "publictime", "pushtime", "power", "category", "word",
                    "srp", "circle", "topflag", "topsrp", "topcircle">>
parse_subscribe == <<"type", "userid", "circle", "srp">>
parse_recommend == <<"type", "log", "userid", "requestnum">>
parse_heartbeat == <<"type", "heartbeat">>
parse_feedback == <<"type", "userid", "returnnum", "returnlist">>

Fields == [action |-> parse_action, document |-> parse_document,
           subscribe |-> parse_subscribe, recommend |-> parse_recommend,
           heartbeat |-> parse_heartbeat, feedback |-> parse_feedback, other |-> <<>>]

Types == DOMAIN Fields
Names == UNION {ToSet(Fields[t]) : t \in Types}
Texts == {"location", "heartbeat"}
Lists == {"category", "srp", "circle", "topsrp", "topcircle"}
Long == {"userid", "docid"}

(* A client's message: the fields it has (anything else counts as "unknown";
   what is no JSON has none), how long its texts are, and for each field of
   several values how long they are.  An entry of "word" is an object that may
   lack one of its two members. *)
Entry == [size : Nat, lacks : {"nothing", "word", "count"}]
Message == [type : Types, has : SUBSET (Names \cup {"unknown"}),
            text : [Texts -> Nat],
            items : [Lists \cup {"returnlist"} -> Seq(Nat)],
            words : Seq(Entry)]

(* The buffer holds at least the length that its first four bytes are for. *)
ASSUME MessageAssumption ==
  /\ Messages \subseteq Message
  /\ BinarySize \in Nat /\ BinarySize >= 4 /\ MaxMessages \in Nat

Parts == {"num", "value", "missing", "size", "text", "count", "id"}
PieceOf == [field : Names, part : Parts \X Nat, size : Nat]
Piece(field, part, size) == [field |-> field, part |-> part, size |-> size]
Number(field) == Piece(field, <<"num", 0>>, 4)
Value(field) == Piece(field, <<"value", 0>>, IF field \in Long THEN 8 ELSE 4)
Missing(field) == Piece(field, <<"missing", 0>>, 0)

(* The rows after each other; each has n pieces *)
Rows(rows, n) == [k \in 1..(n * Len(rows)) |-> rows[((k - 1) \div n) + 1][((k - 1) % n) + 1]]

(* A text or an entry of a list: its length and its bytes *)
Text(field, i, n) == <<Piece(field, <<"size", i>>, 4), Piece(field, <<"text", i>>, n)>>

(* parse_array *)
Array(field, lengths) ==
  <<Number(field)>> \o Rows([i \in DOMAIN lengths |-> Text(field, i, lengths[i])], 2)

(* parse_arrayObject; what is missing of an entry ends the parsing *)
WordAndCount(field, i, entry) ==
  LET word == Text(field, i, entry.size)
  IN  <<IF entry.lacks = "word" THEN Missing(field) ELSE word[1], word[2],
        IF entry.lacks = "count" THEN Missing(field) ELSE Piece(field, <<"count", i>>, 4)>>
ArrayObject(field, entries) ==
  <<Number(field)>> \o Rows([i \in DOMAIN entries |-> WordAndCount(field, i, entries[i])], 3)

(* the loop over "returnlist" in parse_feedback *)
Articles(field, lengths) ==
  <<Number(field)>> \o [i \in DOMAIN lengths |-> Piece(field, <<"id", i>>, 8)]

Pieces(m, field) ==
  CASE field \in Texts -> Text(field, 1, m.text[field])
    [] field \in Lists -> Array(field, m.items[field])
    [] field = "word" -> ArrayObject(field, m.words)
    [] field = "returnlist" -> Articles(field, m.items[field])
    [] OTHER -> <<Value(field)>>

(* The sum of the first k numbers of n: how many cells there are in k rows of
   those lengths.  (What one more row adds is a fact about finite sets; of a
   fold it could not be proved without induction.) *)
SumTo(n, k) == Cardinality(UNION {{i} \X (1..n[i]) : i \in 1..k})

(* How many bytes there are before piece i, and in all *)
Offset(ps, i) == SumTo([h \in DOMAIN ps |-> ps[h].size], i - 1)
Width(ps) == Offset(ps, Len(ps) + 1)

-----------------------------------------------------------------------------
(* What is read of a parsed message, and where.  A walk reads a row of pieces
   from an offset on, each by the lengths read before. *)
Read(piece, at) == [piece |-> piece, at |-> at]
Walk(ps, at) == {Read(ps[i], at + Offset(ps, i)) : i \in DOMAIN ps}

(* thread_listen *)
ReadsListen(m) ==
  {Read(Value("type"), 0)} \cup
  (IF m.type = "recommend" THEN {Read(Value("log"), 4)} ELSE {})

(* process_action, save_log_action *)
ReadsAction == {Read(Value("clicktime"), 4), Read(Value("userid"), 8),
                Read(Value("docid"), 16), Read(Value("action"), 28)}

(* mutant: the categories are looked for where the power is *)
save_log_document_short(m) ==
  {Read(Value("docid"), 4), Read(Value("pushtime"), 16)}
  \cup Walk(Pieces(m, "category"), 20)
  \cup Walk(Pieces(m, "word"), 20 + Width(Pieces(m, "category")))

(* save_log_document *)
save_log_document(m) ==
  {Read(Value("docid"), 4), Read(Value("pushtime"), 16)}
  \cup Walk(Pieces(m, "category"), 24)
  \cup Walk(Pieces(m, "word"), 24 + Width(Pieces(m, "category")))

(* process_query(task) *)
ReadsQuery == {Read(Value("userid"), 8), Read(Value("requestnum"), 16)}

(* process_feedback(task): the user, how many, and right behind it the list *)
ReadsFeedback == {Read(Value("userid"), 4), Read(Value("returnnum"), 12)}
ReadsReturned(m) ==
  {Read(Piece("returnlist", <<"id", i>>, 8), 16 + 8 * (i - 1)) :
     i \in DOMAIN m.items["returnlist"]}

Reads(m) == ReadsListen(m) \cup
  CASE m.type = "action" -> ReadsAction
    [] m.type = "document" -> save_log_document(m)
    [] m.type = "recommend" -> ReadsQuery
    [] m.type = "feedback" -> ReadsFeedback \cup ReadsReturned(m)
    [] OTHER -> {}

-----------------------------------------------------------------------------
(* get_task_node: binary_buf has four bytes for the length, the rest is
   parse_buf *)
Room == BinarySize - 4
Nothing == [of |-> 0, field |-> "nothing", part |-> <<"nothing", 0>>, byte |-> 0]
Byte(n, piece, k) == [of |-> n, field |-> piece.field, part |-> piece.part, byte |-> k]
Bytes(n, piece) == [k \in 0..(piece.size - 1) |-> Byte(n, piece, k)]
NoMessage == [type |-> "other", has |-> {}]

MessageInit == /\ phase = "free" /\ msg = NoMessage /\ number = 0
               /\ lookups = <<>> /\ pieces = <<>> /\ len = 0
               /\ buf = [k \in 0..(Room - 1) |-> Nothing]
               /\ readings = {}

(* mutant: at least as many *)
CountAtLeast(m) == Cardinality(m.has) >= Len(Fields[m.type])

(* cJSON_GetArraySize(json) against the number of fields of the type *)
Count(m) == Cardinality(m.has) = Len(Fields[m.type])

(* parse_json up to the type's own function, and that function's first check *)
parse_json ==
  /\ phase = "free" /\ number < MaxMessages
  /\ \E m \in Messages :
       /\ msg' = m
       /\ IF \/ "type" \notin m.has \/ m.type = "other"
             \/ ~Count(m)
            THEN phase' = "refused" /\ lookups' = <<>>
            ELSE phase' = "parsing" /\ lookups' = Fields[m.type]
  /\ number' = number + 1 /\ pieces' = <<>> /\ len' = 0 /\ readings' = {}
  /\ UNCHANGED buf

(* cJSON_GetObjectItem *)
GetObjectItem ==
  /\ phase = "parsing" /\ pieces = <<>> /\ lookups # <<>>
  /\ IF Head(lookups) \in msg.has
       THEN /\ pieces' = Pieces(msg, Head(lookups))
            /\ lookups' = Tail(lookups)
            /\ UNCHANGED phase
       ELSE phase' = "refused" /\ UNCHANGED <<pieces, lookups>>
  /\ UNCHANGED <<msg, number, len, buf, readings>>

(* mutant: compared before it is counted *)
FitsLate(p) == len <= Room

(* the comparison of len with binary_size *)
Fits(p) == len + p.size <= Room

(* the length is counted and compared before each piece is written *)
Put ==
  /\ phase = "parsing" /\ pieces # <<>>
  /\ LET p == Head(pieces)
     IN IF p.part[1] = "missing" \/ ~Fits(p)
          THEN phase' = "refused" /\ UNCHANGED <<pieces, len, buf>>
          ELSE /\ buf' = [k \in DOMAIN buf |->
                            IF k \in len..(len + p.size - 1)
                              THEN Byte(number, p, k - len) ELSE buf[k]]
               /\ len' = len + p.size
               /\ pieces' = Tail(pieces)
               /\ UNCHANGED phase
  /\ UNCHANGED <<msg, number, lookups, readings>>

Parsed ==
  /\ phase = "parsing" /\ pieces = <<>> /\ lookups = <<>>
  /\ phase' = "parsed"
  /\ UNCHANGED <<msg, number, lookups, pieces, len, buf, readings>>

(* thread_process, to the end of the task: put_task_node *)
ReadTask ==
  /\ phase = "parsed"
  /\ readings' = {[wanted |-> Bytes(number, r.piece),
               got |-> [k \in 0..(r.piece.size - 1) |-> buf[r.at + k]],
               field |-> r.piece.field] : r \in Reads(msg)}
  /\ phase' = "free"
  /\ UNCHANGED <<msg, number, lookups, pieces, len, buf>>

(* put_task_node without an answer *)
Close ==
  /\ phase = "refused"
  /\ phase' = "free"
  /\ UNCHANGED <<msg, number, lookups, pieces, len, buf, readings>>

MessageNext == parse_json \/ GetObjectItem \/ Put \/ Parsed \/ ReadTask \/ Close
MessageSpec == MessageInit /\ [][MessageNext]_messageVars

-----------------------------------------------------------------------------
(* A message is written inside the buffer of its task. *)
MessageTypeOK == /\ phase \in {"free", "parsing", "parsed", "refused"}
                 /\ msg \in Messages \cup {NoMessage}
                 /\ number \in 0..MaxMessages
                 /\ lookups \in Seq(Names)
                 /\ pieces \in Seq(PieceOf)
                 /\ len \in 0..Room
                 /\ DOMAIN buf = 0..(Room - 1)

(* Which messages a task is made of, said without the walk over the fields:
   those with just the fields of their type and room for all of them. *)
Whole(m) == /\ m.type # "other" /\ m.has = ToSet(Fields[m.type])
            /\ "word" \in m.has => \A i \in DOMAIN m.words : m.words[i].lacks = "nothing"

(* How many bytes there are before the g-th field, and in all *)
Start(m, g) == SumTo([h \in DOMAIN Fields[m.type] |-> Width(Pieces(m, Fields[m.type][h]))], g - 1)
Size(m) == Start(m, Len(Fields[m.type]) + 1)

(* parse_json accepts exactly the messages with all fields of their type and
   no other that fit, however their texts and lists add up (the sum is checked
   piece by piece in six functions), and returns their size. *)
AcceptsWhatFits ==
  /\ phase = "parsed" => Whole(msg) /\ Size(msg) <= Room /\ len = Size(msg)
  /\ phase = "refused" => ~(Whole(msg) /\ Size(msg) <= Room)

(* What the handlers and the logs read at their fixed offsets are the bytes of
   the field they mean, of this message and not of the one the buffer held
   before.  The articles of a feedback are the subject of ReturnedArticles. *)
ReadsAreFields ==
  \A s \in readings : s.field # "returnlist" => s.got = s.wanted

(* "returnlist num(4) docid(8)" (line 2244): the articles read of a feedback
   and logged as "<did1>\t<did2>" (line 1597) are those the client sent. *)
ReturnedArticles ==
  \A s \in readings : s.field = "returnlist" => s.got = s.wanted
=============================================================================
