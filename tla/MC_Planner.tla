---------------------------- MODULE MC_Planner ------------------------------
(* Replies that keep to the prompt: every line is a row, and depends only   *)
(* on lines before it. One of the task types has nobody to run it.          *)
EXTENDS Planner

MCEarlier(i) == {EmptyBag} \cup {SetToBag({d}) : d \in 1..(i - 1)}
MCLine(i) == [row : {TRUE}, type : {"Implementation", "Research"}, deps : MCEarlier(i)]
MCReply ==
  {<<a, b, c, d>> : a \in MCLine(1), b \in MCLine(2), c \in MCLine(3), d \in MCLine(4)}
=============================================================================
