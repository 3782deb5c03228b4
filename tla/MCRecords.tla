------------------------------- MODULE MCRecords -------------------------------
(***************************************************************************)
(* Instances of Records for TLC: what is quoted, what cites what, and what *)
(* is summed.                                                              *)
(***************************************************************************)
EXTENDS Records, FiniteSetsExt

\* Two of the adapters belong to one domain, two of the quotes to one origin
\* and two to one group.
MCDomain == "a1" :> "d" @@ "a2" :> "e" @@ "a3" :> "e"
MCOrigin == "q1" :> "o1" @@ "q2" :> "o2" @@ "q3" :> "o1"
MCGroup == "q1" :> "g1" @@ "q2" :> "g2" @@ "q3" :> "g2"
MCAmount == "q1" :> 1 @@ "q2" :> 3 @@ "q3" :> 2
MCValidUntil == "q1" :> 2 @@ "q2" :> 1 @@ "q3" :> 2

\* A price cites a survey and the plan that the survey cites.
MCSources == "plan" :> {} @@ "survey" :> {"plan"} @@ "price" :> {"survey", "plan"}
MCBasis == "c1" :> {"price"} @@ "c2" :> {}

-----------------------------------------------------------------------------
\* What is summed: every amount that the two paths may round differently is
\* near a tie of the rounding for some of these.
Dec(c, places) == [c |-> c, e |-> - places]

MCLeg ==
    [cargo : {{<<Dec(a, 0), Dec(2, 0)>>} : a \in {1, 2, 3, 5}}
             \cup {{<<Dec(a, 0), Dec(2, 0)>>, <<Dec(b, 1), Dec(15, 1)>>} :
                        a \in {2, 3}, b \in {15, 31, 44}},
     fixed : {Dec(125, 1), Dec(0, 0)}, distance : {Dec(123, 1), Dec(27, 0)},
     factor : {Dec(15, 1)}, rate : {Dec(7, 1), Dec(3, 1)}, toll : {Dec(25, 1)},
     item : {<<Dec(12, 1), Dec(2, 0), Dec(5, 1)>>}, parts : {{"transport"}, {}}]

Period == [from : 0 .. 2, to : 1 .. 3, rate : {Dec(17, 2), Dec(31, 2)}]
Disjoint(S) == \A p, q \in S : p = q \/ p.to <= q.from \/ q.to <= p.from

MCPlan ==
    [flows : [1 .. 2 -> [day : 0 .. 3, amount : {-25, 20}]], end : {3},
     periods : {S \in UNION {kSubset(k, {p \in Period : p.from < p.to}) : k \in 0 .. 2} : Disjoint(S)},
     fee : {[notional |-> Dec(10, 0), rate |-> Dec(3, 2), days |-> 2]}, parts : {{"transport"}}]

MCRisk ==
    [probability : {Dec(3, 2), Dec(25, 2), Dec(50, 2)}, low : {Dec(1, 0), Dec(9, 0)},
     likely : {Dec(n, 0) : n \in 10 .. 16}, high : {Dec(n, 0) : n \in 36 .. 46}]

MCCosting ==
    [1 .. 2 -> [category : {"A", "B"}, key : {"k1", "k2"}, quantity : {Dec(35, 1), Dec(2, 0)},
                rate : {Dec(15, 1), Dec(17, 2)}, factor : {Dec(1, 0), Dec(11, 1)}, sign : {1, -1}]]

MCOverride == Dec(25, 1)
=============================================================================
