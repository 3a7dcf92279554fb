---------------------------- MODULE MCOperation ----------------------------
EXTENDS Operation, TLC

CONSTANTS a, b, c, StartDay

MCDay  == (a :> 1 @@ b :> 2 @@ c :> 3)
DaysOf == [n \in Name |-> MCDay[n]]

\* The databases of the first day: none, one without category, or one of each
\* later generation, of either identity rule, with rows of the days before or
\* without.
None0 == [n \in Name |-> 0]
Seens == {None0, [None0 EXCEPT ![a] = 1], [None0 EXCEPT ![b] = 2]}
Origins(s) == {0} \cup (IF s = None0 THEN {} ELSE {Damaged, IF s[a] > 0 THEN 1 ELSE 2})
Old == UNION {{[cols |-> g, meta |-> TRUE, version |-> g, rule |-> r, origin |-> o,
                seen |-> s, keyed |-> IF g >= 5 THEN {n \in Name : s[n] > 0} ELSE {}]
                 : g \in 3 .. 7, r \in {Ours, "other"}, o \in Origins(s)} : s \in Seens}
Oldest == {[cols |-> 1, meta |-> FALSE, version |-> 0, rule |-> "none",
            origin |-> 0, seen |-> s, keyed |-> {}] : s \in Seens}
Fresh == [cols |-> 0, meta |-> FALSE, version |-> 0, rule |-> "none",
          origin |-> 0, seen |-> None0, keyed |-> {}]

MCInit == today = StartDay /\ disk \in Old \cup Oldest \cup {Fresh} /\ Init
MCSpec == MCInit /\ [][Next]_vars
=============================================================================
