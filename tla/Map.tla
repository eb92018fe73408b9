--------------------------------- MODULE Map ---------------------------------
(***************************************************************************)
(* What a table of names promises its callers (src/header/ds/nkht.h): a    *)
(* map from keys to values.  A set may be refused, but only for a key that *)
(* has no value yet, and then nothing changes.  Once a set has failed for  *)
(* want of memory, the keys that have values keep them, and nothing is     *)
(* promised of the others.  Nothing is said of slots, hashes or growing.   *)
(***************************************************************************)
CONSTANTS
  Keys, Vals,
  NoVal,     (* stands for no value                                        *)
  NoKey      (* stands for no key                                          *)

VARIABLES
  map,       (* the value of each key                                      *)
  spoilt,    (* whether a set has failed                                   *)
  reply      (* the last call, its return code and its output              *)

vars == <<map, spoilt, reply>>

Reply(call, res, out) == [call |-> call, res |-> res, out |-> out]

Init == map = [k \in Keys |-> NoVal] /\ spoilt = FALSE /\ reply = Reply(<<"none">>, "ok", <<>>)

Set(k, v) ==
  \/ /\ map' = [map EXCEPT ![k] = v] /\ UNCHANGED spoilt
     /\ reply' = Reply(<<"set", k, v>>, "ok", <<>>)
  \/ /\ map[k] = NoVal /\ UNCHANGED <<map, spoilt>>
     /\ reply' = Reply(<<"set", k, v>>, "EXFULL", <<>>)
  \/ /\ map[k] = NoVal /\ UNCHANGED map /\ spoilt' = TRUE
     /\ reply' = Reply(<<"set", k, v>>, "ENOTRECOVERABLE", <<>>)
  \/ /\ map[k] = NoVal /\ spoilt /\ UNCHANGED <<map, spoilt>>
     /\ reply' = Reply(<<"set", k, v>>, "ok", <<>>)

Get(k) ==
  /\ \/ map[k] # NoVal /\ reply' = Reply(<<"get", k>>, "ok", <<map[k]>>)
     \/ map[k] = NoVal /\ reply' = Reply(<<"get", k>>, "ENODATA", <<>>)
     \/ /\ map[k] = NoVal /\ spoilt
        /\ \E v \in Vals \cup {NoVal} : reply' = Reply(<<"get", k>>, "ok", <<v>>)
  /\ UNCHANGED <<map, spoilt>>

\* Some key and its value, or the end of the iteration.
Iterate ==
  /\ \/ reply' = Reply(<<"iterate">>, "ENODATA", <<>>)
     \/ \E k \in Keys : map[k] # NoVal /\ reply' = Reply(<<"iterate">>, "ok", <<k, map[k]>>)
     \/ /\ spoilt
        /\ \E v \in Vals \cup {NoVal} : reply' = Reply(<<"iterate">>, "ok", <<NoKey, v>>)
  /\ UNCHANGED <<map, spoilt>>

Restart == reply' = Reply(<<"start">>, "ok", <<>>) /\ UNCHANGED <<map, spoilt>>

Destroy ==
  /\ map' = [k \in Keys |-> NoVal] /\ spoilt' = FALSE
  /\ reply' = Reply(<<"destroy">>, "ok", <<>>)

Next ==
  \/ \E k \in Keys : Get(k) \/ \E v \in Vals : Set(k, v)
  \/ Iterate
  \/ Restart
  \/ Destroy

Spec == Init /\ [][Next]_vars
=============================================================================
