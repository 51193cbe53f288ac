-------------------------- MODULE MigrationPlanMC --------------------------
(***************************************************************************)
(* Instances of MigrationPlan for TLC. Segments have 12 rowids, so that a  *)
(* table of 12 rows in batches of one is large (more than ten batches), is *)
(* split by hash in 8 and can be cut by DBMS_PE in more chunks than the    *)
(* plan wants. The statistics are independent of the rows.                 *)
(***************************************************************************)
EXTENDS MigrationPlan

MCHash(r, n) == (r * 5) % n
MCCuts == {<<12>>, <<2, 3, 7, 12>>, [i \in 1..12 |-> i]}

T(name, refs, num) ==
  [name |-> name, refs |-> refs, skip |-> FALSE, parts |-> <<>>, num |-> num, strategy |-> "",
   chunkSize |-> 0, batch |-> 0, filter |-> {}, low |-> 0, high |-> 0]
P(high, num) == [high |-> high, num |-> num]
Small(name, refs) == T(name, refs, 5)
Large(name, refs) == T(name, refs, 12)
Parts(name, refs, parts) == [T(name, refs, 17) EXCEPT !.parts = parts]

TwoParts == <<P(2, 12), P(0, 5)>>
ThreeParts == <<P(2, 5), P(3, 5), P(0, 12)>>

(* Every range of the values 1..4 over three partitions, and no range. *)
Ranges == {<<[Parts(1, <<>>, ThreeParts) EXCEPT !.low = l, !.high = h, !.filter = f]>> :
             l \in 0..4, h \in 0..4, f \in {{}, {1, 3}}}

(* References: a chain out of order, a circle, a table of its own, a table  *)
(* outside the schema, a skipped parent.                                    *)
References ==
  { <<Small(1, <<2, 3>>), Small(2, <<3>>), Small(3, <<>>)>>,
    <<Small(1, <<2>>), Small(2, <<3>>), Small(3, <<1>>), Small(4, <<2, 4>>)>>,
    <<Small(1, <<4>>), Small(2, <<1, 9>>), [Small(3, <<>>) EXCEPT !.skip = TRUE], Large(4, <<3>>)>> }

(* Strategies and sizes of single tables and of tables before others. *)
Sizes ==
  { <<[Large(1, <<>>) EXCEPT !.strategy = s, !.chunkSize = c], Large(2, <<>>)>> :
      s \in {"", "ora_hash", "offset"}, c \in {0, 4} }
  \cup { <<[Parts(1, <<>>, TwoParts) EXCEPT !.strategy = s, !.batch = b]>> : s \in StrategyNames, b \in {0, 2} }

InPlace == { <<Large(1, <<>>), Parts(2, <<1>>, TwoParts)>>,
             <<Small(1, <<>>), Parts(2, <<>>, <<P(0, 12)>>), Parts(3, <<>>, <<P(0, 12)>>)>> }

(* A large table behind a large partitioned one. *)
Behind == { <<Parts(1, <<>>, TwoParts), Large(2, <<>>)>> }

MCSchemas == Ranges \cup References \cup Sizes \cup InPlace \cup Behind
=============================================================================
