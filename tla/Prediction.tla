----------------------------- MODULE Prediction -----------------------------
(***************************************************************************)
(* core/content_based.cpp, predictUserInterests and what calls it, over    *)
(* the three sources of a prediction: the news trends (NewsTrends), the    *)
(* long-term interests of user_interests.cpp, a table that a tool writes   *)
(* (tools/converter.cpp) and DistTable::reload reads, and the current      *)
(* interests (UserInterests), of which it only matters here whether the    *)
(* user has any: then they give every category of kCategory a weight.      *)
(*                                                                         *)
(* The persistent thread trains and reloads one after the other (pc of     *)
(* NewsTrends, upc).  The query threads, the framework's and those of      *)
(* gRPC, take the pointers of both tables and walk them without a lock.    *)
(***************************************************************************)
EXTENDS NewsTrends, Sequences

CONSTANTS Users,          \* with long-term interests
          InOrder,        \* the users, as they come in the converter's map
          kCategory,      \* the categories of category_table_name
          Interests,      \* Interests[u]: the categories of u in the table
          MaxJobs,        \* bound on the trainings and reloads
          MaxConversions, \* bound
          MaxFaults       \* bound on deaths and on reads and writes that fail

ASSUME PredictionAssumption ==
  /\ InOrder \in Seq(Users) /\ \A u \in Users : \E i \in DOMAIN InOrder : InOrder[i] = u
  /\ kCategory \subseteq Categories
  /\ Interests \in [Users -> SUBSET Categories]
  /\ MaxJobs \in Nat /\ MaxConversions \in Nat \ {0} /\ MaxFaults \in Nat

VARIABLES
  upc,         \* the persistent thread's next step in a reload
  userMap,     \* the two maps, of each user's row the conversion it is of, or 0
  userServed,  \* user_dist_: which of them is served; the other is the bak
  pos,         \* the next record of the table to read
  tableOf,     \* of each map: the conversion it was read of, whether that
               \* reading ended at the end of a table nobody was writing, and
               \* the users that table had lost
  userFile,    \* the records of user-interests.dat
  toWrite,     \* the users the converter has yet to write; it runs or not
  converting, conversions,
  lost,        \* history: the users whose write failed in this conversion
  reloads, faults,
  query        \* each query thread's

table == <<upc, userMap, userServed, pos, tableOf, reloads>>
converter == <<userFile, toWrite, converting, conversions, lost>>
interests == <<table, converter, faults>>
predictionVars == <<vars, interests, query>>

bak == 3 - userServed
Rows(users, v) == [i \in DOMAIN users |-> [user |-> users[i], by |-> v]]
NoRows == [u \in Users |-> 0]
(* A query's step and user; while the user's row is walked, what was read of it,
   from which map, and how many reloads ran alongside; then the row's categories
   and whether they were more than one; the answer *)
Asleep == [step |-> "idle", user |-> 0, ptr |-> 1, row |-> 0, todo |-> {}, read |-> {},
           overlaps |-> 0, long |-> {}, torn |-> FALSE, known |-> FALSE,
           answer |-> {}, status |-> "none"]

PredictionInit ==
  /\ Init
  /\ upc = "idle" /\ userServed = 1 /\ pos = 1 /\ reloads = 0
  /\ userMap = [m \in {1, 2} |-> IF m = 1 THEN [u \in Users |-> 1] ELSE NoRows]
  /\ tableOf = [m \in {1, 2} |-> [by |-> 1, whole |-> TRUE, lost |-> {}]]
  /\ userFile = Rows(InOrder, 1)
  /\ toWrite = <<>> /\ converting = FALSE /\ conversions = 1 /\ lost = {}
  /\ faults = 0
  /\ query = [r \in Readers |-> Asleep]

-----------------------------------------------------------------------------
(* DistTable::reload of the users' table, in the persistent thread *)
Insert(users, rec) ==
  IF users[rec.user] = 0 THEN [users EXCEPT ![rec.user] = rec.by] ELSE users
Opened == [by |-> conversions, whole |-> ~converting, lost |-> lost]
Alongside == [r \in Readers |->
  IF query[r].step = "long" THEN [query[r] EXCEPT !.overlaps = @ + 1] ELSE query[r]]

(* mutant: the map to be read into is not cleared *)
reloadBeforeKeeps ==
  /\ pc = "idle" /\ upc = "idle" /\ training + reloads < MaxJobs
  /\ reloads' = reloads + 1
  /\ upc' = "load" /\ pos' = 1
  /\ tableOf' = [tableOf EXCEPT ![bak] = Opened]
  /\ query' = Alongside
  /\ UNCHANGED <<vars, userMap, userServed, converter, faults>>

(* reloadBefore, and the table's open *)
reloadBefore ==
  /\ pc = "idle" /\ upc = "idle" /\ training + reloads < MaxJobs
  /\ reloads' = reloads + 1
  /\ userMap' = [userMap EXCEPT ![bak] = NoRows]
  /\ upc' = "load" /\ pos' = 1
  /\ tableOf' = [tableOf EXCEPT ![bak] = Opened]
  /\ query' = Alongside
  /\ UNCHANGED <<vars, userServed, converter, faults>>

(* a record read, or a row with no data: the end *)
loadDistribution ==
  /\ upc = "load"
  /\ IF pos \in DOMAIN userFile
       THEN /\ userMap' = [userMap EXCEPT ![bak] = Insert(@, userFile[pos])]
            /\ pos' = pos + 1
            /\ UNCHANGED upc
       ELSE upc' = "reloadCompleted" /\ UNCHANGED <<userMap, pos>>
  /\ UNCHANGED <<vars, userServed, tableOf, reloads, converter, faults, query>>

(* reader.read fails: a line in the log, and the table is served as it is *)
readFails ==
  /\ upc = "load" /\ faults + restarts < MaxFaults
  /\ faults' = faults + 1
  /\ upc' = "reloadCompleted"
  /\ tableOf' = [tableOf EXCEPT ![bak].whole = FALSE]
  /\ UNCHANGED <<vars, userMap, userServed, pos, reloads, converter, query>>

reloadCompleted ==
  /\ upc = "reloadCompleted"
  /\ userServed' = bak
  /\ upc' = "idle"
  /\ UNCHANGED <<vars, userMap, pos, tableOf, reloads, converter, faults, query>>

reload == reloadBefore \/ loadDistribution \/ readFails \/ reloadCompleted

-----------------------------------------------------------------------------
(* The converter writes the table where it is read: create() empties it.  A
   reload that is reading it then is no longer of one table. *)
Disturbed == IF upc = "load" THEN [tableOf EXCEPT ![bak].whole = FALSE] ELSE tableOf

dumpUserInterests ==
  /\ ~converting /\ conversions < MaxConversions
  /\ converting' = TRUE /\ conversions' = conversions + 1
  /\ userFile' = <<>>
  /\ toWrite' = InOrder /\ lost' = {}
  /\ tableOf' = Disturbed
  /\ UNCHANGED <<vars, upc, userMap, userServed, pos, reloads, faults, query>>

(* tabfile.write, whose status is dropped: what fails, there or in close() of
   what was left to it, is a record missing in a table that looks like any
   other. *)
dumpUser ==
  /\ converting /\ toWrite # <<>>
  /\ toWrite' = Tail(toWrite)
  /\ \/ /\ userFile' = userFile \o Rows(<<Head(toWrite)>>, conversions)
        /\ UNCHANGED <<lost, faults>>
     \/ /\ faults + restarts < MaxFaults
        /\ faults' = faults + 1
        /\ lost' = lost \cup {Head(toWrite)}
        /\ UNCHANGED userFile
  /\ UNCHANGED <<vars, table, converting, conversions, query>>

close ==
  /\ converting /\ toWrite = <<>>
  /\ converting' = FALSE
  /\ UNCHANGED <<vars, table, userFile, toWrite, conversions, lost, faults, query>>

-----------------------------------------------------------------------------
(* A prediction, in a query thread. *)
Set(r, new) == query' = [query EXCEPT ![r] = new]

(* queryUserInterests: the pointer and the user's row *)
queryUserInterests(r) ==
  /\ query[r].step = "idle"
  /\ \E u \in Users :
       Set(r, [Asleep EXCEPT
                 !.step = IF userMap[userServed][u] = 0 THEN "current" ELSE "long",
                 !.user = u, !.ptr = userServed, !.row = userMap[userServed][u],
                 !.todo = IF userMap[userServed][u] = 0 THEN {} ELSE Interests[u],
                 !.overlaps = IF upc = "idle" THEN 0 ELSE 1])
  /\ UNCHANGED <<vars, interests>>

(* its categories in order; of a row that has been cleared meanwhile nothing
   more is found, the mildest of the outcomes *)
walkUser(r) ==
  LET q == query[r]
      v == userMap[q.ptr][q.user]
  IN  /\ q.step = "long"
      /\ IF q.todo = {}
           THEN Set(r, [q EXCEPT !.step = "current"])
           ELSE \E c \in q.todo :
                  /\ \A d \in q.todo : c <= d
                  /\ Set(r, [q EXCEPT !.todo = @ \ {c},
                                      !.read = IF v = 0 THEN @ ELSE @ \cup {<<c, v>>}])
      /\ UNCHANGED <<vars, interests>>

(* queryCurrentTrends, after what the long-term row gave is known *)
queryNewsTrends(r) ==
  LET q == query[r]
  IN  /\ q.step = "current"
      /\ queryCurrentTrends(r)
      /\ Set(r, [Asleep EXCEPT !.step = "trends", !.user = q.user,
                               !.row = q.row, !.long = {e[1] : e \in q.read},
                               !.torn = q.overlaps > 1])
      /\ UNCHANGED interests

(* predictUserInterests: the categories that get a weight.  Those of the table
   are told from the users' rows, the current interests give every category of
   kCategory. *)

(* mutant: one of the two interests is enough to mix them *)
MixEither(long, now, news) ==
  IF long # {} \/ now # {} THEN kCategory \cap long \cap now ELSE news

Mix(long, now, news) ==
  IF long # {} /\ now # {} THEN kCategory \cap long \cap now
  ELSE IF now # {} THEN kCategory \cap now
  ELSE IF long # {} THEN kCategory \cap long
  ELSE news

(* Whether queryUserCurrentInterests finds the user is open: clicks come and
   go with the logs whenever they like.  An empty mix is Corruption. *)
predictUserInterests(r) ==
  \E now \in {{}, kCategory} :
    LET q    == query[r]
        cats == Mix(q.long, now, {c \in Categories : got[r][c] # Absent})
    IN  /\ q.step = "trends"
        /\ answer(r)
        /\ Set(r, [q EXCEPT !.step = "answered", !.known = now # {}, !.answer = cats,
                            !.status = IF cats = {} THEN "Corruption" ELSE "OK"])
        /\ UNCHANGED interests

(* marshalUserInterests returns to ServiceGlue or to ServiceGrpc *)
query_user_category(status) == IF status \in {"Corruption", "IOError"} THEN 0 - 1 ELSE 0
failed_status_glue(status) ==
  CASE status = "OK" -> "OK"
    [] status = "NotFound" -> "NOT_FOUND"
    [] status = "Corruption" -> "INTERNAL"
    [] OTHER -> "UNKNOWN"

reply(r) ==
  /\ query[r].step = "answered"
  /\ Set(r, Asleep)
  /\ UNCHANGED <<vars, interests>>

predict(r) == \/ queryUserInterests(r) \/ walkUser(r) \/ queryNewsTrends(r)
              \/ predictUserInterests(r) \/ reply(r)

-----------------------------------------------------------------------------
(* the table read to its end; of a user's records the first is kept *)
LoadedFrom(users) ==
  \A u \in Users :
    LET at == {i \in DOMAIN userFile : userFile[i].user = u}
    IN  IF at = {} THEN users[u] = 0
        ELSE \E i \in at : (\A j \in at : i <= j) /\ users[u] = userFile[i].by

(* The process dies, LOG(FATAL) in persistent_library included; openModel of
   the next one reads both tables before anything is asked. *)
Reopen ==
  /\ faults + restarts < MaxFaults
  /\ Restart
  /\ upc' = "idle" /\ userServed' = 2 /\ pos' = 1
  /\ \E users \in [Users -> 0..MaxConversions] :
       /\ LoadedFrom(users)
       /\ userMap' = [m \in {1, 2} |-> IF m = 2 THEN users ELSE NoRows]
  /\ tableOf' = [m \in {1, 2} |-> Opened]
  /\ query' = [r \in Readers |-> Asleep]
  /\ UNCHANGED <<reloads, converter, faults>>

PredictionNext ==
  \/ /\ upc = "idle" /\ (pc = "idle" => training + reloads < MaxJobs)
     /\ train
     /\ UNCHANGED <<interests, query>>
  \/ reload
  \/ dumpUserInterests \/ dumpUser \/ close
  \/ \E r \in Readers : predict(r)
  \/ \E r \in Readers : walk(r) /\ UNCHANGED <<interests, query>>
  \/ Reopen

PredictionSpec == PredictionInit /\ [][PredictionNext]_predictionVars

-----------------------------------------------------------------------------
Query == [step : {"idle", "long", "current", "trends", "answered"},
          user : Users \cup {0}, ptr : {1, 2}, row : 0..MaxConversions,
          todo : SUBSET Categories, read : SUBSET (Categories \X (1..MaxConversions)),
          overlaps : Nat, long : SUBSET Categories, torn : BOOLEAN, known : BOOLEAN,
          answer : SUBSET Categories, status : {"none", "OK", "Corruption"}]

PredictionTypeOK ==
  /\ TypeOK
  /\ upc \in {"idle", "load", "reloadCompleted"}
  /\ upc # "idle" => pc = "idle"
  /\ userMap \in [{1, 2} -> [Users -> 0..MaxConversions]]
  /\ userServed \in {1, 2}
  /\ pos \in Nat \ {0}
  /\ tableOf \in [{1, 2} -> [by : 0..MaxConversions, whole : BOOLEAN, lost : SUBSET Users]]
  /\ lost \subseteq Users
  /\ userFile \in Seq([user : Users, by : 1..MaxConversions])
  /\ query \in [Readers -> Query]

(* the categories of the long-term row a query has found *)
Named(q) == IF q.row = 0 THEN {} ELSE Interests[q.user]

(* What a prediction is mixed of: of the user's long-term row all categories,
   of one conversion, and one whole distribution of the news trends, as long as
   no more than one reload and one training run alongside; both tables are
   swapped in while queries walk them (user_interests.cpp:178-185). *)
ReadsOneVersion ==
  /\ ReadsOneDistribution
  /\ \A r \in Readers : query[r].step = "current" /\ query[r].overlaps <= 1 =>
       query[r].read = Named(query[r]) \X {query[r].row}

(* The trends' table in its file is one training's.  The users' table served
   was read to the end of one conversion, and lacks only users whose own record
   the converter failed to write, which nobody notices (converter.cpp:211),
   unless a read has failed or the converter was writing: reload() takes either
   for the end of the table (dist_table.cpp:72-79). *)
TablesWhole ==
  /\ TableComplete
  /\ tableOf[userServed].whole =>
       \A u \in Users \ tableOf[userServed].lost :
          userMap[userServed][u] = tableOf[userServed].by

(* A user with current interests is refused, the module answering -1 and the
   call INTERNAL, in one case only: the query has found a long-term row of them
   that names categories, and none of kCategory.  Then the mix of both is empty
   (content_based.cpp:431-444), although either alone might have been answered.
   Without a row, for it is in neither table or was lost on its way, the
   current interests answer. *)
CurrentUserAnswered ==
  \A r \in Readers :
    LET q == query[r]
        foreign == Named(q) # {} /\ Named(q) \cap kCategory = {}
    IN  q.step = "answered" /\ q.known /\ ~q.torn =>
          /\ foreign <=> query_user_category(q.status) = 0 - 1
          /\ foreign <=> failed_status_glue(q.status) = "INTERNAL"
          /\ foreign <=> q.answer = {}
=============================================================================
