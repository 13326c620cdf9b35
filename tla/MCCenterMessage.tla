-------------------------- MODULE MCCenterMessage --------------------------
EXTENDS CenterMessage

(* Lengths that differ, and an empty list *)
Lengths == [f \in Lists \cup {"returnlist"} |->
              CASE f = "category" -> <<1, 2>>
                [] f = "srp" -> <<>>
                [] f = "returnlist" -> <<8, 8>>
                [] OTHER -> <<1>>]
Words == <<[size |-> 2, lacks |-> "nothing"], [size |-> 0, lacks |-> "nothing"]>>
Lacking(part) == [Words EXCEPT ![2].lacks = part]

Sent(t, has, words) ==
  [type |-> t, has |-> has, text |-> [f \in Texts |-> 3], items |-> Lengths, words |-> words]
Right == {Sent(t, ToSet(Fields[t]), Words) : t \in Types}
(* The buffer's room is 96: the document of Right just fits, these are a byte
   too long, in the last piece and in one before it. *)
LongText == [Sent("action", ToSet(Fields.action), Words)
               EXCEPT !.text["location"] = 61]
LongWord == [Sent("document", ToSet(Fields.document), Words) EXCEPT !.words[2].size = 1]
Wrong ==
  {Sent("action", ToSet(Fields.action) \cup {"unknown"}, Words),
   Sent("action", (ToSet(Fields.action) \ {"userid"}) \cup {"unknown"}, Words),
   Sent("recommend", {"log", "userid", "requestnum"}, Words),
   Sent("feedback", ToSet(Fields.feedback) \ {"returnlist"}, Words),
   Sent("document", ToSet(Fields.document), Lacking("word")),
   Sent("document", ToSet(Fields.document), Lacking("count"))}

MCMessages == Right \cup Wrong \cup {LongText, LongWord}
=============================================================================
