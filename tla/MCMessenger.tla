---------------------------- MODULE MCMessenger ----------------------------
(* Two senders that compete for the limiters, one sender with time for the  *)
(* last attempt, one sender beside the health loop, and texts of three      *)
(* parts with up to two tags opened at once.                                *)
EXTENDS Messenger

MCSetups == {[messenger |-> "telegram", senders |-> {"s1", "s2"}, kinds |-> {"send"},
              budget |-> 4, moods |-> {"busy"}, probing |-> FALSE, renders |-> FALSE],
             [messenger |-> "slack", senders |-> {"s1"}, kinds |-> {"edit", "answer"},
              budget |-> 6, moods |-> {"busy", "down"}, probing |-> FALSE, renders |-> FALSE],
             [messenger |-> "slack", senders |-> {"s1"}, kinds |-> {"send"},
              budget |-> 4, moods |-> {"up", "busy", "down"}, probing |-> TRUE, renders |-> FALSE],
             [messenger |-> "telegram", senders |-> {}, kinds |-> {},
              budget |-> 1, moods |-> {"up"}, probing |-> FALSE, renders |-> TRUE]}
MCSenders == {"s1", "s2"}

Word == [j \in 1 .. 8 |-> "x"]
Faces == [j \in 1 .. 4 |-> "emoji"]
OpenMarks == {<<"<b>">>, <<"<i>">>}
CloseMarks == {<<"</b>">>, <<"</i>">>}
Starts == {<<>>} \cup OpenMarks
Ends == {<<>>} \cup CloseMarks
AnyMark == Starts \cup CloseMarks \cup {<<" ">>, <<"\n", "\n">>}
MCTexts ==
    {m[1] \o m[2] \o Word \o m[3] \o Faces \o Word \o m[4] \o Word \o Faces \o m[5] \o m[6] :
        m \in {n \in Starts \X Starts \X AnyMark \X AnyMark \X Ends \X Ends :
                 Cardinality({j \in 1 .. 4 : n[j] \in OpenMarks}) <= 2}}

MCRetryAfters == {0, 3}
=============================================================================
