------------------------------ MODULE MergePatch ------------------------------
(***************************************************************************)
(* The status writes of the controller (patchStatus): a JSON merge patch,  *)
(* computed from the copy of the object the informer cache serves and      *)
(* applied by the API server to whatever is there by then.                 *)
(***************************************************************************)

\* A mutant: the condition's fields are merged one by one.
PatchedByField(live, base, new) ==
  {[f \in DOMAIN live |-> IF new[f] # base[f] THEN new[f] ELSE live[f]]}

ConditionFields == {"ready", "readyGeneration"}

SameCondition(s, t) == \A f \in ConditionFields : s[f] = t[f]

\* A merge patch carries the fields in which the new status differs from the
\* base it is computed from, the list of conditions as one field; the server
\* changes only those.  Two conditions of one generation that are both Unknown,
\* or both False, may still differ in reason or message, and are then sent.
Patched(live, base, new) ==
  {[f \in DOMAIN live |->
      IF f \in ConditionFields THEN condition[f]
      ELSE IF new[f] # base[f] THEN new[f] ELSE live[f]] :
     condition \in {new} \cup (IF SameCondition(new, base) THEN {live} ELSE {})}

===============================================================================
