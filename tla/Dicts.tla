------------------------------- MODULE Dicts -------------------------------
(***************************************************************************)
(* Python's dicts: functions whose domain is the set of the keys.          *)
(***************************************************************************)

\* d after d[k] = v.
Put(d, k, v) == [x \in DOMAIN d \cup {k} |-> IF x = k THEN v ELSE d[x]]

==========================================================================
