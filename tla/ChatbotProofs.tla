---------------------------- MODULE ChatbotProofs ----------------------------
(***************************************************************************)
(* Theorems about Chatbot for any sessions, number of requests, budgets    *)
(* and tools of the server, and about ToolSets for any list of tools.      *)
(***************************************************************************)
EXTENDS Chatbot, ListsProofs, FiniteSetTheorems

LEMMA GreatestElement ==
  ASSUME NEW m \in Nat, NEW T \in SUBSET (1..m), T # {}
  PROVE  Max(T) \in T /\ \A j \in T : j <= Max(T)
  <1> DEFINE U == {m - i : i \in T}
  <1>1. U \in SUBSET Nat /\ U # {}
    <2>1. \A i \in T : m - i \in Nat
      OBVIOUS
    <2>2. PICK i \in T : TRUE
      OBVIOUS
    <2> QED BY <2>1, <2>2
  <1>2. Min(U) \in U /\ \A j \in U : Min(U) <= j
    BY <1>1, LeastElement
  <1>3. PICK i \in T : Min(U) = m - i
    <2> DEFINE u == Min(U)
    <2>1. u \in U
      BY <1>2
    <2> HIDE DEF u
    <2>2. \E i \in T : u = m - i
      BY <2>1
    <2> QED BY <2>2 DEF u
  <1>4. ASSUME NEW j \in T PROVE j <= i
    <2>1. m - j \in U
      OBVIOUS
    <2>2. m - i <= m - j
      BY <2>1, <1>2, <1>3
    <2> QED BY <2>2
  <1> QED BY <1>4 DEF Max

-----------------------------------------------------------------------------
(* Sets of tools.                                                          *)

(* A set has a name once.                                                  *)
Unique(set) == \A i, j \in DOMAIN set : set[i].name = set[j].name => i = j

(* In a set, the tool of the name is the one add_tool looks at.            *)
LEMMA AddToolAs ==
  ASSUME NEW S, NEW set \in Seq(S), NEW tool
  PROVE  \/ /\ \A i \in DOMAIN set : set[i].name # tool.name
            /\ AddTool(set, tool) = Append(set, tool)
         \/ \E i \in DOMAIN set :
              /\ set[i].name = tool.name
              /\ AddTool(set, tool) =
                   IF tool.active \/ ~set[i].active THEN [set EXCEPT ![i] = tool] ELSE set
  <1> Len(set) \in Nat /\ DOMAIN set = 1..Len(set)
    OBVIOUS
  <1>1. CASE tool.name \notin Names(set)
    BY <1>1 DEF AddTool, Names
  <1>2. CASE tool.name \in Names(set)
    <2> DEFINE T == Named(set, tool.name)
               i == Min(T)
    <2>1. T \in SUBSET Nat /\ T # {}
      BY <1>2 DEF Named, Names
    <2>2. i \in T
      <3> HIDE DEF T
      <3> QED BY <2>1, LeastElement
    <2>3. i \in DOMAIN set /\ set[i].name = tool.name
      BY <2>2 DEF Named
    <2>4. AddTool(set, tool) = IF tool.active \/ ~set[i].active THEN [set EXCEPT ![i] = tool] ELSE set
      BY <1>2 DEF AddTool
    <2> HIDE DEF i
    <2> QED BY <2>3, <2>4
  <1> QED BY <1>1, <1>2

(* What add_tool makes of a set: a set with the tools it had, but the tool *)
(* in the place of one of its name, unless that one alone is active.       *)
Adds(r, set, tool) ==
  /\ Unique(r)
  /\ \A i \in DOMAIN r :
       \/ /\ r[i] = tool
          /\ \A j \in DOMAIN set : set[j].name = tool.name => tool.active \/ ~set[j].active
       \/ \E j \in DOMAIN set :
            r[i] = set[j] /\ (set[j].name = tool.name => ~tool.active /\ set[j].active)
  /\ \A i \in DOMAIN set : \E j \in DOMAIN r : r[j].name = set[i].name
  /\ \E j \in DOMAIN r : r[j].name = tool.name

LEMMA AddToolAdds ==
  ASSUME NEW S, NEW set \in Seq(S), NEW tool \in S, Unique(set)
  PROVE  AddTool(set, tool) \in Seq(S) /\ Adds(AddTool(set, tool), set, tool)
  <1> DEFINE r == AddTool(set, tool)
  <1> Len(set) \in Nat /\ DOMAIN set = 1..Len(set)
    OBVIOUS
  <1>1. CASE r = Append(set, tool) /\ \A i \in DOMAIN set : set[i].name # tool.name
    <2>1. /\ r \in Seq(S) /\ Len(r) = Len(set) + 1 /\ r[Len(set) + 1] = tool
          /\ \A i \in 1..Len(set) : r[i] = set[i]
      BY <1>1, AppendProperties
    <2> HIDE DEF r
    <2>2. DOMAIN r = 1..(Len(set) + 1)
      BY <2>1
    <2>3. \A i \in DOMAIN r : i \in DOMAIN set \/ i = Len(set) + 1
      BY <2>2
    <2>4. DOMAIN set \subseteq DOMAIN r /\ Len(set) + 1 \in DOMAIN r
      BY <2>2
    <2>5. Unique(r)
      BY <2>1, <2>3, <1>1 DEF Unique
    <2>6. \A i \in DOMAIN r :
              \/ /\ r[i] = tool
                 /\ \A j \in DOMAIN set : set[j].name = tool.name => tool.active \/ ~set[j].active
              \/ \E j \in DOMAIN set :
                   r[i] = set[j] /\ (set[j].name = tool.name => ~tool.active /\ set[j].active)
      BY <2>1, <2>3, <1>1
    <2>7. \A i \in DOMAIN set : \E j \in DOMAIN r : r[j].name = set[i].name
      BY <2>1, <2>4
    <2>8. \E j \in DOMAIN r : r[j].name = tool.name
      BY <2>1, <2>4
    <2>9. r \in Seq(S) /\ Adds(r, set, tool)
      BY <2>1, <2>5, <2>6, <2>7, <2>8 DEF Adds
    <2> QED BY <2>9 DEF r
  <1>2. ASSUME NEW i \in DOMAIN set, set[i].name = tool.name, tool.active \/ ~set[i].active,
               r = [set EXCEPT ![i] = tool]
        PROVE  r \in Seq(S) /\ Unique(r) /\ DOMAIN r = DOMAIN set /\ r[i] = tool
               /\ \A j \in DOMAIN set : j # i => r[j] = set[j]
    <2>1. r \in Seq(S) /\ DOMAIN r = DOMAIN set /\ r[i] = tool
               /\ \A j \in DOMAIN set : j # i => r[j] = set[j]
      BY <1>2
    <2> HIDE DEF r
    <2>2. Unique(r)
      BY <2>1, <1>2 DEF Unique
    <2> QED BY <2>1, <2>2
  <1>3. ASSUME NEW i \in DOMAIN set, set[i].name = tool.name,
               r = IF tool.active \/ ~set[i].active THEN [set EXCEPT ![i] = tool] ELSE set
        PROVE  r \in Seq(S) /\ Adds(r, set, tool)
    <2>1. CASE tool.active \/ ~set[i].active
      <3>1. r \in Seq(S) /\ Unique(r) /\ DOMAIN r = DOMAIN set /\ r[i] = tool
               /\ \A j \in DOMAIN set : j # i => r[j] = set[j]
        <4>1. r = [set EXCEPT ![i] = tool]
          BY <1>3, <2>1
        <4> HIDE DEF r
        <4> QED BY <1>2, <1>3, <2>1, <4>1
      <3> HIDE DEF r
      <3>2. \A j \in DOMAIN set : j # i => set[j].name # tool.name
        BY <1>3 DEF Unique
      <3>3. \A j \in DOMAIN set : set[j].name = tool.name => tool.active \/ ~set[j].active
        BY <3>2, <2>1
      <3> QED BY <3>1, <3>2, <3>3, <1>3 DEF Adds
    <2>2. CASE ~ (tool.active \/ ~set[i].active)
      <3>1. r = set
        BY <1>3, <2>2
      <3> HIDE DEF r
      <3>2. \A j \in DOMAIN set : set[j].name = tool.name => j = i
        BY <1>3 DEF Unique
      <3> QED BY <3>1, <3>2, <1>3, <2>2 DEF Adds
    <2> QED BY <2>1, <2>2
  <1>4. \/ r = Append(set, tool) /\ \A i \in DOMAIN set : set[i].name # tool.name
        \/ \E i \in DOMAIN set :
              /\ set[i].name = tool.name
              /\ r = IF tool.active \/ ~set[i].active THEN [set EXCEPT ![i] = tool] ELSE set
    BY AddToolAs
  <1> HIDE DEF r
  <1> QED BY <1>1, <1>3, <1>4 DEF r

(* The turns of a loop of add_tool.                                        *)
IsAdding(F, set, list) ==
  F = [n \in 0..Len(list) |-> IF n = 0 THEN set ELSE AddTool(F[n - 1], list[n])]

LEMMA AddingDefined ==
  ASSUME NEW S, NEW list \in Seq(S), NEW set
  PROVE  \E F : IsAdding(F, set, list)
  <1> Len(list) \in Nat
    OBVIOUS
  <1> DEFINE Built(F, n) == /\ F = [i \in 0..n |-> F[i]]
                            /\ F[0] = set
                            /\ \A i \in 1..n : F[i] = AddTool(F[i - 1], list[i])
             G == {n \in 0..Len(list) : \E F : Built(F, n)}
  <1>1. 0 \in G
    <2>1. Built([i \in 0..0 |-> set], 0)
      OBVIOUS
    <2> HIDE DEF Built
    <2> QED BY <2>1
  <1>2. ASSUME NEW n \in 0..(Len(list) - 1), n \in G PROVE n + 1 \in G
    <2>1. PICK F : Built(F, n)
      BY <1>2
    <2> n + 1 \in 0..Len(list)
      OBVIOUS
    <2> HIDE DEF Built
    <2> DEFINE E == [i \in 0..(n + 1) |-> IF i = n + 1 THEN AddTool(F[n], list[n + 1]) ELSE F[i]]
    <2>2. ASSUME NEW i \in 1..(n + 1) PROVE E[i] = AddTool(E[i - 1], list[i])
      <3>1. E[i - 1] = F[i - 1]
        OBVIOUS
      <3>2. CASE i = n + 1
        BY <3>1, <3>2
      <3>3. CASE i # n + 1
        <4>1. i \in 1..n /\ E[i] = F[i]
          BY <3>3
        <4> QED BY <2>1, <3>1, <4>1 DEF Built
      <3> QED BY <3>2, <3>3
    <2>3. E = [i \in 0..(n + 1) |-> E[i]]
      OBVIOUS
    <2>4. E[0] = set
      BY <2>1 DEF Built
    <2>5. Built(E, n + 1)
      <3> HIDE DEF E
      <3> QED BY <2>2, <2>3, <2>4 DEF Built
    <2> QED BY <2>5
  <1>3. Len(list) \in G
    <2>1. \A n \in 0..(Len(list) - 1) : n \in G => n + 1 \in G
      BY <1>2
    <2> HIDE DEF G
    <2> QED BY <1>1, <2>1, CountUp, Len(list) \in 0..Len(list)
  <1>4. PICK F : Built(F, Len(list))
    BY <1>3
  <1>5. \A i \in 0..Len(list) : F[i] = IF i = 0 THEN set ELSE AddTool(F[i - 1], list[i])
    <2>1. \A i \in 0..Len(list) : i # 0 => i \in 1..Len(list)
      OBVIOUS
    <2> QED BY <1>4, <2>1
  <1>6. F = [i \in 0..Len(list) |-> F[i]]
    BY <1>4
  <1>7. IsAdding(F, set, list)
    BY <1>5, <1>6 DEF IsAdding
  <1> QED BY <1>7

LEMMA AddToolsFold ==
  ASSUME NEW S, NEW list \in Seq(S), NEW set
  PROVE  \E F : /\ F[0] = set
                /\ \A n \in 1..Len(list) : F[n] = AddTool(F[n - 1], list[n])
                /\ AddTools(set, list) = F[Len(list)]
  <1> Len(list) \in Nat
    OBVIOUS
  <1> DEFINE C == CHOOSE F : IsAdding(F, set, list)
  <1>1. IsAdding(C, set, list)
    BY AddingDefined
  <1>2. AddTools(set, list) = C[Len(list)]
    BY DEF AddTools, IsAdding
  <1> HIDE DEF C
  <1>3. C[0] = set /\ \A n \in 1..Len(list) : C[n] = AddTool(C[n - 1], list[n])
    <2>1. \A n \in 0..Len(list) : C[n] = IF n = 0 THEN set ELSE AddTool(C[n - 1], list[n])
      BY <1>1 DEF IsAdding
    <2>2. 0 \in 0..Len(list) /\ \A n \in 1..Len(list) : n \in 0..Len(list) /\ n # 0
      OBVIOUS
    <2> QED BY <2>1, <2>2
  <1> QED BY <1>2, <1>3

(* The k-th tool is the one to be found under its name among the first n:  *)
(* the last that is active, or the last of all.                            *)
Found(list, n, k) ==
  IF list[k].active
  THEN \A l \in (k + 1)..n : list[l].name = list[k].name => ~list[l].active
  ELSE \A l \in 1..n : list[l].name = list[k].name => ~list[l].active /\ l <= k

(* A set that has, of each name of the first n, the tool to be found.      *)
Holds(set, list, n) ==
  /\ Unique(set)
  /\ \A j \in DOMAIN set : \E k \in 1..n : set[j] = list[k] /\ Found(list, n, k)
  /\ \A k \in 1..n : \E j \in DOMAIN set : set[j].name = list[k].name

LEMMA HoldsNext ==
  ASSUME NEW S, NEW list \in Seq(S), NEW n \in 0..(Len(list) - 1), NEW set \in Seq(S), Holds(set, list, n)
  PROVE  AddTool(set, list[n + 1]) \in Seq(S) /\ Holds(AddTool(set, list[n + 1]), list, n + 1)
  <1> DEFINE t == list[n + 1]
             r == AddTool(set, t)
  <1> Len(list) \in Nat /\ n \in Nat
    OBVIOUS
  <1>0. t \in S /\ Unique(set)
    BY DEF Holds
  <1>1. r \in Seq(S) /\ Adds(r, set, t)
    BY <1>0, AddToolAdds
  <1> HIDE DEF r
  <1>2. \A k \in 1..(n + 1) : k \in 1..n \/ k = n + 1
    OBVIOUS
  <1>3. ASSUME NEW k \in 1..n, Found(list, n, k), list[k].name = t.name => ~t.active /\ list[k].active
        PROVE  Found(list, n + 1, k)
    <2>1. CASE list[k].active
      <3>1. \A l \in (k + 1)..(n + 1) : l \in (k + 1)..n \/ l = n + 1
        OBVIOUS
      <3> QED BY <1>3, <2>1, <3>1 DEF Found
    <2>2. CASE ~list[k].active
      BY <1>2, <1>3, <2>2 DEF Found
    <2> QED BY <2>1, <2>2
  <1>4. ASSUME NEW i \in DOMAIN r
        PROVE  \E k \in 1..(n + 1) : r[i] = list[k] /\ Found(list, n + 1, k)
    <2>1. CASE \E j \in DOMAIN set :
                   r[i] = set[j] /\ (set[j].name = t.name => ~t.active /\ set[j].active)
      <3>1. PICK j \in DOMAIN set :
                   r[i] = set[j] /\ (set[j].name = t.name => ~t.active /\ set[j].active)
        BY <2>1
      <3>2. PICK k \in 1..n : set[j] = list[k] /\ Found(list, n, k)
        BY DEF Holds
      <3>3. Found(list, n + 1, k)
        BY <1>3, <3>1, <3>2
      <3> QED BY <3>1, <3>2, <3>3
    <2>2. CASE /\ r[i] = t
               /\ \A j \in DOMAIN set : set[j].name = t.name => t.active \/ ~set[j].active
      <3>1. n + 1 \in 1..(n + 1) /\ r[i] = list[n + 1] /\ (n + 2)..(n + 1) = {}
        BY <2>2
      <3>2. ASSUME ~t.active, NEW l \in 1..n, list[l].name = t.name PROVE ~list[l].active
        <4>1. PICK j \in DOMAIN set : set[j].name = list[l].name
          BY DEF Holds
        <4>2. PICK k \in 1..n : set[j] = list[k] /\ Found(list, n, k)
          BY DEF Holds
        <4>3. ~list[k].active /\ list[l].name = list[k].name
          BY <2>2, <3>2, <4>1, <4>2
        <4> QED BY <4>2, <4>3 DEF Found
      <3>3. Found(list, n + 1, n + 1)
        <4>1. CASE t.active
          BY <4>1, <3>1 DEF Found
        <4>2. CASE ~t.active
          BY <4>2, <3>2, <1>2 DEF Found
        <4> QED BY <4>1, <4>2
      <3> QED BY <3>1, <3>3
    <2> QED BY <1>1, <2>1, <2>2 DEF Adds
  <1>5. \A k \in 1..(n + 1) : \E j \in DOMAIN r : r[j].name = list[k].name
    <2>1. ASSUME NEW k \in 1..n PROVE \E j \in DOMAIN r : r[j].name = list[k].name
      <3>1. PICK i \in DOMAIN set : set[i].name = list[k].name
        BY DEF Holds
      <3> QED BY <3>1, <1>1 DEF Adds
    <2> QED BY <2>1, <1>1, <1>2 DEF Adds
  <1>6. Holds(r, list, n + 1)
    BY <1>1, <1>4, <1>5 DEF Holds, Adds
  <1> QED BY <1>1, <1>6 DEF r

LEMMA FullToolSetHolds ==
  ASSUME NEW S, NEW list \in Seq(S)
  PROVE  GetFullToolSet(list) \in Seq(S) /\ Holds(GetFullToolSet(list), list, Len(list))
  <1> Len(list) \in Nat
    OBVIOUS
  <1> DEFINE none == <<>>
  <1>1. none \in Seq(S) /\ DOMAIN none = {} /\ 1..0 = {}
    OBVIOUS
  <1>2. GetFullToolSet(list) = AddTools(none, list)
    BY DEF GetFullToolSet
  <1> HIDE DEF none
  <1>3. PICK F : /\ F[0] = none
                 /\ \A n \in 1..Len(list) : F[n] = AddTool(F[n - 1], list[n])
                 /\ AddTools(none, list) = F[Len(list)]
    BY AddToolsFold
  <1> DEFINE G == {n \in 0..Len(list) : F[n] \in Seq(S) /\ Holds(F[n], list, n)}
  <1>4. 0 \in G
    <2>1. Holds(none, list, 0)
      BY <1>1 DEF Holds, Unique
    <2>2. F[0] \in Seq(S) /\ Holds(F[0], list, 0)
      BY <2>1, <1>1, <1>3
    <2>3. 0 \in 0..Len(list)
      OBVIOUS
    <2> QED BY <2>2, <2>3
  <1>5. ASSUME NEW n \in 0..(Len(list) - 1), n \in G PROVE n + 1 \in G
    <2>1. n + 1 \in 0..Len(list) /\ n + 1 \in 1..Len(list) /\ (n + 1) - 1 = n
      OBVIOUS
    <2>2. F[n + 1] = AddTool(F[n], list[n + 1])
      BY <1>3, <2>1
    <2>3. F[n] \in Seq(S) /\ Holds(F[n], list, n)
      BY <1>5
    <2>4. AddTool(F[n], list[n + 1]) \in Seq(S) /\ Holds(AddTool(F[n], list[n + 1]), list, n + 1)
      BY <2>3, HoldsNext
    <2> QED BY <2>1, <2>2, <2>4
  <1>6. Len(list) \in G
    <2>1. \A n \in 0..(Len(list) - 1) : n \in G => n + 1 \in G
      BY <1>5
    <2> HIDE DEF G
    <2> QED BY <1>4, <2>1, CountUp, Len(list) \in 0..Len(list)
  <1> QED BY <1>2, <1>3, <1>6

(* There is one to be found of each name.                                  *)
LEMMA FoundOnce ==
  ASSUME NEW S, NEW list \in Seq(S), NEW k \in 1..Len(list), NEW l \in 1..Len(list),
         list[k].name = list[l].name, Found(list, Len(list), k), Found(list, Len(list), l)
  PROVE  k = l
  <1> Len(list) \in Nat
    OBVIOUS
  <1>1. CASE list[k].active
    <2>1. list[l].active
      BY <1>1 DEF Found
    <2>2. ~ (k < l) /\ ~ (l < k)
      BY <1>1, <2>1 DEF Found
    <2> QED BY <2>2
  <1>2. CASE ~list[k].active
    <2>1. ~list[l].active
      BY <1>2 DEF Found
    <2> QED BY <1>2, <2>1 DEF Found
  <1> QED BY <1>1, <1>2

(* get_func returns it.                                                    *)
LEMMA GetFuncFound ==
  ASSUME NEW S, NEW list \in Seq(S), NEW name, name \in Names(list)
  PROVE  \E k \in 1..Len(list) : /\ list[k].name = name
                                 /\ Found(list, Len(list), k)
                                 /\ GetFunc(list, name) = {list[k]}
  <1> Len(list) \in Nat /\ DOMAIN list = 1..Len(list)
    OBVIOUS
  <1> DEFINE A == {i \in Named(list, name) : list[i].active}
             B == Named(list, name)
             T == IF A # {} THEN A ELSE B
  <1>1. B # {} /\ B \subseteq 1..Len(list) /\ \A i \in 1..Len(list) : i \in B <=> list[i].name = name
    BY DEF Named, Names
  <1>2. A \subseteq 1..Len(list) /\ \A i \in 1..Len(list) : i \in A <=> list[i].name = name /\ list[i].active
    BY <1>1 DEF Named
  <1>3. GetFunc(list, name) = {list[Max(T)]}
    BY DEF GetFunc
  <1> HIDE DEF A, B
  <1>4. T \in SUBSET (1..Len(list)) /\ T # {}
    BY <1>1, <1>2
  <1>5. Max(T) \in T /\ \A j \in T : j <= Max(T)
    <2> HIDE DEF T
    <2> QED BY <1>4, GreatestElement
  <1>6. Max(T) \in 1..Len(list) /\ list[Max(T)].name = name
    BY <1>1, <1>2, <1>5
  <1>7. Found(list, Len(list), Max(T))
    <2> DEFINE m == Max(T)
    <2>1. CASE A # {}
      <3>1. T = A
        BY <2>1
      <3>2. list[m].active /\ \A j \in A : j <= m
        BY <1>2, <1>5, <3>1
      <3>3. ASSUME NEW l \in (m + 1)..Len(list), list[l].name = list[m].name PROVE ~list[l].active
        <4>1. m \in Nat /\ l \in 1..Len(list) /\ ~ (l <= m)
          BY <1>6
        <4>2. l \notin A
          BY <3>2, <4>1
        <4> HIDE DEF m
        <4> QED BY <3>3, <4>1, <4>2, <1>2, <1>6 DEF m
      <3> HIDE DEF m
      <3>4. Found(list, Len(list), m)
        BY <3>2, <3>3 DEF Found
      <3> QED BY <3>4 DEF m
    <2>2. CASE A = {}
      <3>1. T = B
        BY <2>2
      <3>2. m \in B /\ \A j \in B : j <= m
        BY <1>5, <3>1
      <3>3. \A l \in 1..Len(list) : list[l].name = name => ~list[l].active /\ l \in B
        BY <1>1, <1>2, <2>2
      <3> HIDE DEF m
      <3>4. m \in 1..Len(list) /\ list[m].name = name
        BY <1>1, <3>2
      <3>5. Found(list, Len(list), m)
        BY <3>2, <3>3, <3>4 DEF Found
      <3> QED BY <3>5 DEF m
    <2> QED BY <2>1, <2>2
  <1> HIDE DEF T
  <1> QED BY <1>3, <1>6, <1>7

(***************************************************************************)
(* Whatever list of tools the manager has, get_func finds under a name     *)
(* what the full set of the list has under it: the two choose alike when   *)
(* tools of one name were loaded, deactivated and loaded again.            *)
(***************************************************************************)
THEOREM GetFuncIsGetTool ==
  ASSUME NEW S, NEW list \in Seq(S), NEW name
  PROVE  GetFunc(list, name) = GetTool(GetFullToolSet(list), name)
  <1> DEFINE set == GetFullToolSet(list)
  <1> Len(list) \in Nat /\ DOMAIN list = 1..Len(list)
    OBVIOUS
  <1>1. set \in Seq(S) /\ Holds(set, list, Len(list))
    BY FullToolSetHolds
  <1> HIDE DEF set
  <1>2. DOMAIN set \subseteq Nat
    BY <1>1
  <1>3. Names(set) = Names(list)
    <2>1. ASSUME NEW j \in DOMAIN set PROVE \E k \in DOMAIN list : list[k].name = set[j].name
      BY <1>1 DEF Holds
    <2>2. ASSUME NEW k \in DOMAIN list PROVE \E j \in DOMAIN set : set[j].name = list[k].name
      BY <1>1 DEF Holds
    <2> QED BY <2>1, <2>2 DEF Names
  <1>4. CASE name \notin Names(list)
    <2>1. GetFunc(list, name) = {} /\ GetTool(set, name) = {}
      BY <1>3, <1>4 DEF GetFunc, GetTool
    <2> QED BY <2>1 DEF set
  <1>5. CASE name \in Names(list)
    <2>1. PICK k \in 1..Len(list) : /\ list[k].name = name
                                    /\ Found(list, Len(list), k)
                                    /\ GetFunc(list, name) = {list[k]}
      BY <1>5, GetFuncFound
    <2> DEFINE T == Named(set, name)
    <2>2. T \in SUBSET Nat /\ T # {}
      <3>1. T \in SUBSET Nat
        BY <1>2 DEF Named
      <3>2. PICK j \in DOMAIN set : set[j].name = name
        BY <1>3, <1>5 DEF Names
      <3> QED BY <3>1, <3>2 DEF Named
    <2>3. Min(T) \in T
      <3> HIDE DEF T
      <3> QED BY <2>2, LeastElement
    <2>4. Min(T) \in DOMAIN set /\ set[Min(T)].name = name
      BY <2>3 DEF Named
    <2>5. PICK l \in 1..Len(list) : set[Min(T)] = list[l] /\ Found(list, Len(list), l)
      BY <1>1, <2>4 DEF Holds
    <2>6. l = k
      BY <2>1, <2>4, <2>5, FoundOnce
    <2>7. GetTool(set, name) = {set[Min(T)]}
      BY <1>3, <1>5 DEF GetTool
    <2> QED BY <2>1, <2>5, <2>6, <2>7 DEF set
  <1> QED BY <1>4, <1>5

(* What is kept are the elements at the positions.                         *)
LEMMA NamesKept ==
  ASSUME NEW S, NEW list \in Seq(S), NEW I, NEW name
  PROVE  name \in Names(Kept(list, I)) <=> \E k \in DOMAIN list : k \in I /\ list[k].name = name
  <1> DEFINE r == Kept(list, I)
  <1>1. PICK h : Selects(h, r, list, I)
    BY KeptSelects
  <1> HIDE DEF r
  <1>2. /\ h \in [DOMAIN r -> DOMAIN list] /\ \A i \in DOMAIN r : r[i] = list[h[i]]
        /\ \A k \in DOMAIN list : k \in I <=> \E i \in DOMAIN r : h[i] = k
    BY <1>1 DEF Selects, Embeds
  <1>3. name \in Names(r) <=> \E k \in DOMAIN list : k \in I /\ list[k].name = name
    BY <1>2 DEF Names
  <1> QED BY <1>3 DEF r

LEMMA ActiveNames ==
  ASSUME NEW S, NEW list \in Seq(S)
  PROVE  Names(ActiveTools(GetFullToolSet(list))) = Names(ActiveTools(list))
  <1> DEFINE set == GetFullToolSet(list)
  <1> Len(list) \in Nat /\ DOMAIN list = 1..Len(list)
    OBVIOUS
  <1>1. set \in Seq(S) /\ Holds(set, list, Len(list))
    BY FullToolSetHolds
  <1> HIDE DEF set
  <1>2. ASSUME NEW s \in Seq(S), NEW name
        PROVE  name \in Names(ActiveTools(s)) <=> \E k \in DOMAIN s : s[k].active /\ s[k].name = name
    <2> DEFINE I == {i \in DOMAIN s : s[i].active}
    <2>1. \A k \in DOMAIN s : k \in I <=> s[k].active
      OBVIOUS
    <2>2. ActiveTools(s) = Kept(s, I)
      BY DEF ActiveTools
    <2> HIDE DEF I
    <2>3. name \in Names(Kept(s, I)) <=> \E k \in DOMAIN s : k \in I /\ s[k].name = name
      BY NamesKept
    <2> QED BY <2>1, <2>2, <2>3
  <1>3. ASSUME NEW name, NEW j \in DOMAIN set, set[j].active, set[j].name = name
        PROVE  \E k \in DOMAIN list : list[k].active /\ list[k].name = name
    BY <1>1, <1>3 DEF Holds
  <1>4. ASSUME NEW name, NEW k \in DOMAIN list, list[k].active, list[k].name = name
        PROVE  \E j \in DOMAIN set : set[j].active /\ set[j].name = name
    <2>1. PICK j \in DOMAIN set : set[j].name = name
      BY <1>1, <1>4 DEF Holds
    <2>2. PICK l \in 1..Len(list) : set[j] = list[l] /\ Found(list, Len(list), l)
      BY <1>1 DEF Holds
    <2>3. set[j].active
      BY <1>4, <2>1, <2>2 DEF Found
    <2> QED BY <2>1, <2>3
  <1>5. ASSUME NEW name PROVE name \in Names(ActiveTools(set)) <=> name \in Names(ActiveTools(list))
    <2>1. name \in Names(ActiveTools(set)) <=> \E k \in DOMAIN set : set[k].active /\ set[k].name = name
      BY <1>1, <1>2
    <2>2. name \in Names(ActiveTools(list)) <=> \E k \in DOMAIN list : list[k].active /\ list[k].name = name
      BY <1>2
    <2> QED BY <2>1, <2>2, <1>3, <1>4
  <1>6. Names(ActiveTools(set)) = Names(ActiveTools(list))
    <2>1. \A x \in Names(ActiveTools(set)) : x \in Names(ActiveTools(list))
      BY <1>5
    <2>2. \A x \in Names(ActiveTools(list)) : x \in Names(ActiveTools(set))
      BY <1>5
    <2> QED BY <2>1, <2>2
  <1> QED BY <1>6 DEF set

(* The tool just added is found.                                           *)
LEMMA AddedFound ==
  ASSUME NEW S, NEW list \in Seq(S), NEW func \in S, func.active
  PROVE  GetFunc(AddFunc(list, func), func.name) = {func}
  <1> DEFINE s == RemoveFunc(list, func.name)
             r == Append(s, func)
  <1>1. s \in Seq(S)
    BY KeptSelects DEF RemoveFunc
  <1> HIDE DEF s
  <1>2. r \in Seq(S) /\ Len(r) = Len(s) + 1 /\ Len(s) \in Nat /\ r[Len(r)] = func
    BY <1>1, AppendProperties
  <1>3. AddFunc(list, func) = r
    BY DEF AddFunc, s
  <1> HIDE DEF r
  <1>4. Len(r) \in DOMAIN r
    BY <1>2
  <1>5. func.name \in Names(r)
    BY <1>2, <1>4 DEF Names
  <1>6. PICK k \in 1..Len(r) : /\ r[k].name = func.name
                               /\ Found(r, Len(r), k)
                               /\ GetFunc(r, func.name) = {r[k]}
    <2>1. r \in Seq(S)
      BY <1>2
    <2> QED BY ONLY <2>1, <1>5, GetFuncFound
  <1>7. Len(r) \in 1..Len(r) /\ (Len(r) + 1)..Len(r) = {}
    BY <1>2
  <1>8. Found(r, Len(r), Len(r))
    BY <1>2, <1>7 DEF Found
  <1>9. k = Len(r)
    BY <1>2, <1>6, <1>7, <1>8, FoundOnce
  <1> QED BY <1>2, <1>3, <1>6, <1>9

-----------------------------------------------------------------------------
(* The tools of the server.                                                *)

Has(set, tool) == \E i \in DOMAIN set : set[i] = tool

(* An active tool is there once it is added, and those of other names are. *)
LEMMA AddedActive ==
  ASSUME NEW S, NEW set \in Seq(S), NEW tool \in S, Unique(set), tool.active
  PROVE  /\ AddTool(set, tool) \in Seq(S) /\ Unique(AddTool(set, tool))
         /\ Has(AddTool(set, tool), tool)
         /\ \A other : Has(set, other) /\ other.name # tool.name => Has(AddTool(set, tool), other)
  <1> DEFINE r == AddTool(set, tool)
  <1>1. r \in Seq(S) /\ Adds(r, set, tool)
    BY AddToolAdds
  <1> HIDE DEF r
  <1>2. Has(r, tool)
    BY <1>1 DEF Adds, Has
  <1>3. ASSUME NEW other, Has(set, other), other.name # tool.name PROVE Has(r, other)
    <2>1. PICK i \in DOMAIN set : set[i] = other
      BY <1>3 DEF Has
    <2>2. PICK j \in DOMAIN r : r[j].name = other.name
      BY <1>1, <2>1 DEF Adds
    <2>3. PICK l \in DOMAIN set : r[j] = set[l]
      BY <1>1, <1>3, <2>2 DEF Adds
    <2>4. l = i
      BY <2>1, <2>2, <2>3 DEF Unique
    <2> QED BY <2>1, <2>3, <2>4 DEF Has
  <1>4. r \in Seq(S) /\ Unique(r)
    BY <1>1 DEF Adds
  <1> QED BY <1>2, <1>3, <1>4 DEF r

LEMMA AddTwo ==
  ASSUME NEW set, NEW a, NEW b
  PROVE  AddTools(set, <<a, b>>) = AddTool(AddTool(set, a), b)
  <1> DEFINE l == <<a, b>>
  <1>1. l \in Seq({a, b}) /\ Len(l) = 2 /\ l[1] = a /\ l[2] = b
    OBVIOUS
  <1> HIDE DEF l
  <1>2. PICK F : /\ F[0] = set
                 /\ \A n \in 1..Len(l) : F[n] = AddTool(F[n - 1], l[n])
                 /\ AddTools(set, l) = F[Len(l)]
    BY <1>1, AddToolsFold, ZenonT(30)
  <1>3. F[1] = AddTool(F[0], a) /\ F[2] = AddTool(F[1], b)
    <2>1. 1 \in 1..2 /\ 2 \in 1..2 /\ 1 - 1 = 0 /\ 2 - 1 = 1
      OBVIOUS
    <2>2. \A n \in 1..2 : F[n] = AddTool(F[n - 1], l[n])
      BY ONLY <1>1, <1>2
    <2>3. F[1] = AddTool(F[1 - 1], l[1]) /\ F[2] = AddTool(F[2 - 1], l[2])
      BY ONLY <2>1, <2>2
    <2> QED BY ONLY <1>1, <2>1, <2>3
  <1>4. AddTools(set, l) = F[2] /\ F[0] = set
    BY <1>1, <1>2
  <1>5. AddTools(set, l) = AddTool(AddTool(set, a), b)
    BY ONLY <1>3, <1>4
  <1> QED BY <1>5 DEF l

LEMMA AddThree ==
  ASSUME NEW set, NEW a, NEW b, NEW c
  PROVE  AddTools(set, <<a, b, c>>) = AddTool(AddTool(AddTool(set, a), b), c)
  <1> DEFINE l == <<a, b, c>>
  <1>1. l \in Seq({a, b, c}) /\ Len(l) = 3 /\ l[1] = a /\ l[2] = b /\ l[3] = c
    OBVIOUS
  <1> HIDE DEF l
  <1>2. PICK F : /\ F[0] = set
                 /\ \A n \in 1..Len(l) : F[n] = AddTool(F[n - 1], l[n])
                 /\ AddTools(set, l) = F[Len(l)]
    BY <1>1, AddToolsFold, ZenonT(30)
  <1>3. F[1] = AddTool(F[0], a) /\ F[2] = AddTool(F[1], b) /\ F[3] = AddTool(F[2], c)
    <2>1. /\ 1 \in 1..3 /\ 2 \in 1..3 /\ 3 \in 1..3
          /\ 1 - 1 = 0 /\ 2 - 1 = 1 /\ 3 - 1 = 2
      OBVIOUS
    <2>2. \A n \in 1..3 : F[n] = AddTool(F[n - 1], l[n])
      BY ONLY <1>1, <1>2
    <2>3. /\ F[1] = AddTool(F[1 - 1], l[1]) /\ F[2] = AddTool(F[2 - 1], l[2])
          /\ F[3] = AddTool(F[3 - 1], l[3])
      BY ONLY <2>1, <2>2
    <2> QED BY ONLY <1>1, <2>1, <2>3
  <1>4. AddTools(set, l) = F[3] /\ F[0] = set
    BY <1>1, <1>2
  <1>5. AddTools(set, l) = AddTool(AddTool(AddTool(set, a), b), c)
    BY ONLY <1>3, <1>4
  <1> QED BY <1>5 DEF l

LocalTools(set) == Unique(set) /\ Has(set, Local("calculate")) /\ Has(set, Local("Skill"))

LEMMA BuiltTools ==
  ASSUME NEW served \in ServedLists, NEW withPlanning \in BOOLEAN
  PROVE  /\ BuildTools(served, withPlanning) \in Seq(AnyTool)
         /\ LocalTools(BuildTools(served, withPlanning))
  <1> DEFINE c == Local("calculate")
             w == Local("write_todos")
             k == Local("Skill")
             r == GetFullToolSet(served)
             x == AddTool(r, c)
             y == AddTool(x, w)
  <1>1. /\ c.name = "calculate" /\ w.name = "write_todos" /\ k.name = "Skill"
        /\ c.active /\ w.active /\ k.active
    BY DEF Local, Tool
  <1>2. {c, w, k} \subseteq AnyTool
    BY DEF AnyTool
  <1>3. served \in Seq(AnyTool)
    <2>1. Cardinality(Served) \in Nat
      BY ChatbotAssumption, FS_CardinalityType
    <2>2. CASE served = <<>>
      BY <2>2
    <2>3. CASE served \in [1..Cardinality(Served) -> {FromServer(name) : name \in Served}]
      <3>1. served \in [1..Cardinality(Served) -> AnyTool]
        BY <2>3 DEF AnyTool
      <3> QED BY <2>1, <3>1
    <2> QED BY <2>2, <2>3 DEF ServedLists
  <1>4. BuildTools(served, withPlanning) = IF withPlanning THEN AddTool(y, k) ELSE AddTool(x, k)
    BY AddTwo, AddThree DEF BuildTools
  <1> HIDE DEF c, w, k
  <1>5. r \in Seq(AnyTool) /\ Unique(r)
    BY <1>3, FullToolSetHolds DEF Holds
  <1> HIDE DEF r
  <1>6. x \in Seq(AnyTool) /\ Unique(x) /\ Has(x, c)
    BY <1>1, <1>2, <1>5, AddedActive
  <1> HIDE DEF x
  <1>7. y \in Seq(AnyTool) /\ Unique(y) /\ Has(y, c)
    BY <1>1, <1>2, <1>6, AddedActive
  <1> HIDE DEF y
  <1>8. ASSUME NEW set \in Seq(AnyTool), Unique(set), Has(set, c)
        PROVE  AddTool(set, k) \in Seq(AnyTool) /\ LocalTools(AddTool(set, k))
    <2>1. /\ AddTool(set, k) \in Seq(AnyTool) /\ Unique(AddTool(set, k))
          /\ Has(AddTool(set, k), k) /\ Has(AddTool(set, k), c)
      BY <1>1, <1>2, <1>8, AddedActive
    <2> QED BY <2>1 DEF LocalTools, c, k
  <1>9. /\ AddTool(y, k) \in Seq(AnyTool) /\ LocalTools(AddTool(y, k))
        /\ AddTool(x, k) \in Seq(AnyTool) /\ LocalTools(AddTool(x, k))
    BY <1>6, <1>7, <1>8
  <1>10. CASE withPlanning
    BY <1>4, <1>9, <1>10
  <1>11. CASE ~withPlanning
    BY <1>4, <1>9, <1>11
  <1> QED BY <1>10, <1>11

(* Such a set has its names once, and the local tools under theirs.        *)
LEMMA LocalToolsFound ==
  ASSUME NEW S, NEW set \in Seq(S), LocalTools(set)
  PROVE  /\ \A name \in Names(set) : Cardinality(Named(set, name)) = 1
         /\ \A name \in {"calculate", "Skill"} : GetTool(set, name) = {Local(name)}
  <1>1. ASSUME NEW i \in DOMAIN set
        PROVE  Named(set, set[i].name) = {i} /\ GetTool(set, set[i].name) = {set[i]}
    <2> DEFINE name == set[i].name
    <2>1. Named(set, name) = {i} /\ name \in Names(set)
      BY DEF Named, Names, LocalTools, Unique
    <2>2. Min({i}) = i
      <3>1. {i} \in SUBSET Nat /\ {i} # {}
        OBVIOUS
      <3>2. Min({i}) \in {i}
        BY ONLY <3>1, LeastElement
      <3> QED BY ONLY <3>2
    <2> HIDE DEF name
    <2>3. GetTool(set, name) = {set[i]}
      BY <2>1, <2>2 DEF GetTool
    <2> QED BY <2>1, <2>3 DEF name
  <1>2. ASSUME NEW name \in Names(set) PROVE Cardinality(Named(set, name)) = 1
    <2>1. PICK i \in DOMAIN set : set[i].name = name
      BY DEF Names
    <2> QED BY <1>1, <2>1, FS_Singleton, ZenonT(30)
  <1>3. ASSUME NEW name \in {"calculate", "Skill"} PROVE GetTool(set, name) = {Local(name)}
    <2>1. PICK i \in DOMAIN set : set[i] = Local(name)
      BY DEF LocalTools, Has
    <2>2. set[i].name = name
      BY <2>1 DEF Local, Tool
    <2> QED BY <1>1, <2>1, <2>2
  <1> QED BY <1>2, <1>3

(* The executor of a /plan turn.                                           *)
LEMMA ExecutorSet ==
  ASSUME tools \in Seq(AnyTool)
  PROVE  ExecutorTools \in Seq(AnyTool)
  BY KeptSelects DEF ExecutorTools, RemoveTool

-----------------------------------------------------------------------------
(***************************************************************************)
(* Histories.  Whole is a history or what a turn has read of one, after    *)
(* the turns in sv were saved; Under is what a turn t that is under way    *)
(* has made of it.                                                         *)
(***************************************************************************)
\* The positions in sv of the turns that are among those in q.
Among(q, sv) == {i \in DOMAIN sv : sv[i] \in ToSet(q)}

Prompted(m) == SystemMessages(m) = IF m = <<>> THEN {} ELSE {1}

Whole(m, sv) ==
  /\ m \in Seq(Msg)
  /\ \A i \in DOMAIN m : m[i].turn \in ToSet(sv)
  /\ ToSet(TurnsOf(m)) \subseteq ToSet(sv)
  /\ TurnsOf(m) = Kept(sv, Among(TurnsOf(m), sv))
  /\ Prompted(m)

UnderAfter(m, t, sv, q) ==
  /\ q \in Seq(Ids)
  /\ ToSet(q) \subseteq ToSet(sv)
  /\ q = Kept(sv, Among(q, sv))
  /\ TurnsOf(m) = Append(q, t)

Under(m, t, sv) ==
  /\ m \in Seq(Msg)
  /\ \A i \in DOMAIN m : m[i].turn \in ToSet(sv) \cup {t}
  /\ m # <<>> /\ m[Len(m)].turn = t
  /\ Prompted(m)
  /\ \E q : UnderAfter(m, t, sv, q)

LEMMA TurnsAppend ==
  ASSUME NEW h \in Seq(Msg), NEW m \in Msg
  PROVE  /\ TurnsOf(h) \in Seq(Ids)
         /\ TurnsOf(Append(h, m)) =
              IF h = <<>> \/ m.turn # h[Len(h)].turn THEN Append(TurnsOf(h), m.turn) ELSE TurnsOf(h)
  <1> DEFINE s == [i \in DOMAIN h |-> h[i].turn]
             r == Append(h, m)
             v == [i \in DOMAIN r |-> r[i].turn]
             I == {i \in DOMAIN h : i = 1 \/ h[i].turn # h[i - 1].turn}
             J == {i \in DOMAIN r : i = 1 \/ r[i].turn # r[i - 1].turn}
  <1> Len(h) \in Nat /\ DOMAIN h = 1..Len(h)
    OBVIOUS
  <1>1. /\ r \in Seq(Msg) /\ Len(r) = Len(h) + 1 /\ DOMAIN r = 1..(Len(h) + 1)
        /\ r[Len(h) + 1] = m /\ \A i \in 1..Len(h) : r[i] = h[i]
    BY AppendProperties
  <1>2. m.turn \in Ids /\ \A i \in DOMAIN h : h[i].turn \in Ids
    <2>1. \A x \in Msg : x.turn \in Ids
      BY DEF Msg
    <2>2. \A i \in DOMAIN h : h[i] \in Msg
      OBVIOUS
    <2> QED BY <2>1, <2>2
  <1>3. s \in Seq(Ids) /\ Len(s) = Len(h)
    BY <1>2
  <1>4. TurnsOf(h) = Kept(s, I) /\ TurnsOf(r) = Kept(v, J)
    BY DEF TurnsOf
  <1> HIDE DEF r
  <1>5. v = Append(s, m.turn)
    <2>1. \A i \in 1..(Len(h) + 1) : i \in 1..Len(h) \/ i = Len(h) + 1
      OBVIOUS
    <2>2. v \in Seq(Ids) /\ Len(v) = Len(h) + 1
      BY <1>1, <1>2, <2>1
    <2>3. /\ Append(s, m.turn) \in Seq(Ids) /\ Len(Append(s, m.turn)) = Len(h) + 1
          /\ Append(s, m.turn)[Len(h) + 1] = m.turn /\ \A i \in 1..Len(h) : Append(s, m.turn)[i] = s[i]
      <3> HIDE DEF s
      <3> QED BY <1>2, <1>3, AppendProperties
    <2>4. \A i \in 1..(Len(h) + 1) : v[i] = Append(s, m.turn)[i]
      <3>1. \A i \in 1..Len(h) : v[i] = s[i]
        BY <1>1
      <3>2. v[Len(h) + 1] = m.turn
        BY <1>1
      <3> HIDE DEF v, s
      <3> QED BY <2>1, <2>3, <3>1, <3>2
    <2> HIDE DEF v, s
    <2> QED BY <2>2, <2>3, <2>4, SeqEqual
  <1>6. \A i \in 1..Len(s) : i \in J <=> i \in I
    <2>1. ASSUME NEW i \in 1..Len(h) PROVE i \in J <=> i \in I
      <3>1. i \in 1..(Len(h) + 1) /\ (i = 1 \/ i - 1 \in 1..Len(h))
        OBVIOUS
      <3> QED BY <3>1, <1>1
    <2> QED BY <2>1, <1>3
  <1>7. Len(s) + 1 \in J <=> h = <<>> \/ m.turn # h[Len(h)].turn
    <2>1. CASE h = <<>>
      <3>1. Len(h) = 0
        BY <2>1
      <3> QED BY <3>1, <2>1, <1>1, <1>3
    <2>2. CASE h # <<>>
      <3>1. Len(h) # 0 /\ Len(h) \in 1..Len(h) /\ (Len(h) + 1) - 1 = Len(h)
        BY <2>2, EmptySeq
      <3> QED BY <3>1, <2>2, <1>1, <1>3
    <2> QED BY <2>1, <2>2
  <1> HIDE DEF s, v, I, J
  <1>8. Kept(Append(s, m.turn), J) = IF Len(s) + 1 \in J THEN Append(Kept(s, I), m.turn) ELSE Kept(s, I)
    <2>1. s \in Seq(Ids) /\ m.turn \in Ids
      BY <1>2, <1>3
    <2> DEFINE x == m.turn
    <2>2. x \in Ids
      BY <2>1
    <2> HIDE DEF x
    <2>3. Kept(Append(s, x), J) = IF Len(s) + 1 \in J THEN Append(Kept(s, I), x) ELSE Kept(s, I)
      BY <2>1, <2>2, <1>6, KeptAppend
    <2> QED BY <2>3 DEF x
  <1>9. Kept(s, I) \in Seq(Ids)
    BY <1>3, KeptSelects
  <1> QED BY <1>4, <1>5, <1>7, <1>8, <1>9 DEF r

LEMMA PromptedAppend ==
  ASSUME NEW h \in Seq(Msg), Prompted(h), NEW m \in Msg,
         IF h = <<>> THEN m.kind = "system" ELSE m.kind # "system"
  PROVE  Append(h, m) \in Seq(Msg) /\ Append(h, m) # <<>> /\ Prompted(Append(h, m))
  <1> DEFINE r == Append(h, m)
  <1> Len(h) \in Nat /\ DOMAIN h = 1..Len(h)
    OBVIOUS
  <1>1. /\ r \in Seq(Msg) /\ Len(r) = Len(h) + 1 /\ DOMAIN r = 1..(Len(h) + 1) /\ r # <<>>
        /\ r[Len(h) + 1] = m /\ \A i \in 1..Len(h) : r[i] = h[i]
    BY AppendProperties
  <1> HIDE DEF r
  <1>2. \A i \in 1..(Len(h) + 1) : i \in 1..Len(h) \/ i = Len(h) + 1
    OBVIOUS
  <1>3. CASE h = <<>>
    <2>1. Len(h) = 0
      BY <1>3
    <2>2. \A i \in DOMAIN r : r[i].kind = "system" <=> i = 1
      BY <2>1, <1>1, <1>3
    <2>3. 1 \in DOMAIN r
      BY <2>1, <1>1
    <2>4. SystemMessages(r) = {1}
      BY <2>2, <2>3 DEF SystemMessages
    <2> QED BY <1>1, <2>4 DEF Prompted, r
  <1>4. CASE h # <<>>
    <2>1. \A i \in DOMAIN h : h[i].kind = "system" <=> i = 1
      BY <1>4 DEF Prompted, SystemMessages
    <2>2. 1 \in DOMAIN h /\ DOMAIN h \subseteq DOMAIN r
      <3>1. Len(h) # 0
        BY <1>4, EmptySeq
      <3> QED BY <1>1, <3>1
    <2>3. \A i \in DOMAIN r : r[i].kind = "system" <=> i = 1
      <3>1. Len(h) + 1 # 1
        BY <2>2
      <3> QED BY <2>1, <2>2, <3>1, <1>1, <1>2, <1>4
    <2>4. SystemMessages(r) = {1}
      BY <2>2, <2>3 DEF SystemMessages
    <2> QED BY <1>1, <2>4 DEF Prompted, r
  <1> QED BY <1>3, <1>4

LEMMA ToSetAppend ==
  ASSUME NEW S, NEW s \in Seq(S), NEW x \in S
  PROVE  ToSet(Append(s, x)) = ToSet(s) \cup {x}
  <1> DEFINE r == Append(s, x)
  <1>1. /\ DOMAIN r = 1..(Len(s) + 1) /\ DOMAIN s = 1..Len(s) /\ Len(s) \in Nat
        /\ r[Len(s) + 1] = x /\ \A i \in 1..Len(s) : r[i] = s[i]
    BY AppendProperties
  <1>2. ToSet(r) = {r[i] : i \in DOMAIN r} /\ ToSet(s) = {s[i] : i \in DOMAIN s}
    BY DEF ToSet
  <1> HIDE DEF r
  <1>3. \A i \in 1..(Len(s) + 1) : i \in 1..Len(s) \/ i = Len(s) + 1
    BY <1>1
  <1>4. \A i \in 1..Len(s) : i \in 1..(Len(s) + 1)
    BY <1>1
  <1>5. Len(s) + 1 \in 1..(Len(s) + 1)
    BY <1>1
  <1>6. ToSet(r) = ToSet(s) \cup {x}
    BY <1>1, <1>2, <1>3, <1>4, <1>5
  <1> QED BY <1>6 DEF r

(* A turn that is saved is among those in q, or it is not.                 *)
LEMMA AmongAppend ==
  ASSUME NEW q, NEW sv \in Seq(Ids), NEW u \in Ids
  PROVE  Kept(Append(sv, u), Among(q, Append(sv, u))) =
           IF u \in ToSet(q) THEN Append(Kept(sv, Among(q, sv)), u) ELSE Kept(sv, Among(q, sv))
  <1> DEFINE r == Append(sv, u)
             I == Among(q, sv)
             J == Among(q, r)
  <1>1. /\ r \in Seq(Ids) /\ DOMAIN r = 1..(Len(sv) + 1) /\ DOMAIN sv = 1..Len(sv) /\ Len(sv) \in Nat
        /\ r[Len(sv) + 1] = u /\ \A i \in 1..Len(sv) : r[i] = sv[i]
    BY AppendProperties
  <1>2. /\ \A i \in DOMAIN sv : i \in I <=> sv[i] \in ToSet(q)
        /\ \A i \in DOMAIN r : i \in J <=> r[i] \in ToSet(q)
    BY DEF Among
  <1> HIDE DEF r, I, J
  <1>3. \A i \in 1..Len(sv) : i \in J <=> i \in I
    <2>1. \A i \in 1..Len(sv) : i \in 1..(Len(sv) + 1)
      BY <1>1
    <2> QED BY <2>1, <1>1, <1>2
  <1>4. Len(sv) + 1 \in J <=> u \in ToSet(q)
    <2>1. Len(sv) + 1 \in 1..(Len(sv) + 1)
      BY <1>1
    <2> QED BY <2>1, <1>1, <1>2
  <1>5. Kept(Append(sv, u), J) = IF Len(sv) + 1 \in J THEN Append(Kept(sv, I), u) ELSE Kept(sv, I)
    BY <1>3, KeptAppend
  <1>6. Kept(r, J) = IF u \in ToSet(q) THEN Append(Kept(sv, I), u) ELSE Kept(sv, I)
    BY <1>4, <1>5 DEF r
  <1> QED BY <1>6 DEF r, I, J

(* Another turn is saved: what this one has read of the history is still   *)
(* whole turns in their order.                                             *)
LEMMA WholeMore ==
  ASSUME NEW m, NEW sv \in Seq(Ids), Whole(m, sv), NEW u \in Ids, u \notin ToSet(sv)
  PROVE  Whole(m, Append(sv, u))
  <1> DEFINE q == TurnsOf(m)
             r == Append(sv, u)
  <1>1. ToSet(r) = ToSet(sv) \cup {u}
    BY ToSetAppend
  <1>2. u \notin ToSet(q) /\ ToSet(q) \subseteq ToSet(r)
    BY <1>1 DEF Whole
  <1>3. q = Kept(r, Among(q, r))
    <2>1. q = Kept(sv, Among(q, sv))
      BY DEF Whole
    <2> HIDE DEF q
    <2> QED BY <2>1, <1>2, AmongAppend
  <1> HIDE DEF r
  <1>4. Whole(m, r)
    BY <1>1, <1>2, <1>3 DEF Whole
  <1> QED BY <1>4 DEF r

LEMMA UnderMore ==
  ASSUME NEW m, NEW t \in Ids, NEW sv \in Seq(Ids), Under(m, t, sv),
         NEW u \in Ids, u # t, u \notin ToSet(sv)
  PROVE  Under(m, t, Append(sv, u))
  <1> DEFINE r == Append(sv, u)
  <1>1. ToSet(r) = ToSet(sv) \cup {u}
    BY ToSetAppend
  <1>2. PICK q : UnderAfter(m, t, sv, q)
    BY DEF Under
  <1>3. u \notin ToSet(q) /\ ToSet(q) \subseteq ToSet(r)
    BY <1>1, <1>2 DEF UnderAfter
  <1>4. q = Kept(r, Among(q, r))
    <2>1. q = Kept(sv, Among(q, sv))
      BY <1>2 DEF UnderAfter
    <2> QED BY <2>1, <1>3, AmongAppend
  <1> HIDE DEF r
  <1>5. UnderAfter(m, t, r, q)
    BY <1>2, <1>3, <1>4 DEF UnderAfter
  <1>6. Under(m, t, r)
    BY <1>1, <1>5 DEF Under
  <1> QED BY <1>6 DEF r

(* The turn itself is saved: its messages are the history.                 *)
LEMMA UnderSaved ==
  ASSUME NEW m, NEW t \in Ids, NEW sv \in Seq(Ids), Under(m, t, sv), t \notin ToSet(sv)
  PROVE  /\ Whole(m, Append(sv, t))
         /\ m # <<>> /\ Last(TurnsOf(m)) = t
  <1> DEFINE r == Append(sv, t)
  <1>1. ToSet(r) = ToSet(sv) \cup {t}
    BY ToSetAppend
  <1>2. PICK q : UnderAfter(m, t, sv, q)
    BY DEF Under
  <1> DEFINE p == Append(q, t)
  <1>3. q \in Seq(Ids) /\ ToSet(q) \subseteq ToSet(sv) /\ q = Kept(sv, Among(q, sv)) /\ TurnsOf(m) = p
    BY <1>2 DEF UnderAfter
  <1>4. ToSet(p) = ToSet(q) \cup {t}
    BY <1>3, ToSetAppend
  <1>5. Last(p) = t
    BY <1>3, AppendProperties DEF Last
  <1> HIDE DEF p
  <1>6. Among(p, sv) = Among(q, sv)
    <2>1. \A i \in DOMAIN sv : sv[i] \in ToSet(sv)
      BY DEF ToSet
    <2>2. \A i \in DOMAIN sv : sv[i] # t
      BY <2>1
    <2> QED BY <2>2, <1>4 DEF Among
  <1>7. p = Kept(r, Among(p, r))
    <2>1. t \in ToSet(p)
      BY <1>4
    <2>2. Kept(r, Among(p, r)) = Append(Kept(sv, Among(p, sv)), t)
      BY <2>1, AmongAppend
    <2> QED BY <2>2, <1>3, <1>6 DEF p
  <1> HIDE DEF r
  <1>8. Whole(m, r)
    BY <1>1, <1>3, <1>4, <1>7 DEF Whole, Under
  <1> QED BY <1>3, <1>5, <1>8 DEF r, Under

LEMMA UnderSaid ==
  ASSUME NEW m, NEW t \in Ids, NEW sv, Under(m, t, sv), NEW x \in Msg, x.turn = t, x.kind # "system"
  PROVE  Under(Append(m, x), t, sv) /\ TurnsOf(Append(m, x)) = TurnsOf(m)
  <1> DEFINE r == Append(m, x)
  <1>1. /\ m \in Seq(Msg) /\ m # <<>> /\ m[Len(m)].turn = t /\ Prompted(m)
        /\ \A i \in DOMAIN m : m[i].turn \in ToSet(sv) \cup {t}
    BY DEF Under
  <1>2. TurnsOf(r) = TurnsOf(m)
    BY <1>1, TurnsAppend
  <1>3. r \in Seq(Msg) /\ r # <<>> /\ Prompted(r)
    BY <1>1, PromptedAppend
  <1>4. /\ DOMAIN r = 1..(Len(m) + 1) /\ Len(r) = Len(m) + 1 /\ DOMAIN m = 1..Len(m) /\ Len(m) \in Nat
        /\ r[Len(m) + 1] = x /\ \A i \in 1..Len(m) : r[i] = m[i]
    BY <1>1, AppendProperties
  <1> HIDE DEF r
  <1>5. \A i \in DOMAIN r : r[i].turn \in ToSet(sv) \cup {t}
    <2>1. \A i \in DOMAIN r : i \in DOMAIN m \/ i = Len(m) + 1
      BY <1>4
    <2> QED BY <2>1, <1>1, <1>4
  <1>6. r[Len(r)].turn = t
    BY <1>4
  <1>7. Under(r, t, sv)
    BY <1>2, <1>3, <1>5, <1>6 DEF Under, UnderAfter
  <1> QED BY <1>2, <1>7 DEF r

(* The request goes behind the messages before, or behind a system prompt. *)
LEMMA UnderBegins ==
  ASSUME NEW m, NEW t \in Ids, NEW sv, Whole(m, sv), t \notin ToSet(sv)
  PROVE  LET first == IF m = <<>> THEN <<Said(t, "system")>> ELSE m
             r == first \o <<Said(t, "user")>>
         IN Under(r, t, sv) /\ TurnsOf(r) = Append(TurnsOf(m), t)
  <1> DEFINE prompt == Said(t, "system")
             ask == Said(t, "user")
             first == IF m = <<>> THEN <<prompt>> ELSE m
             r == first \o <<ask>>
             q == TurnsOf(m)
  <1>1. /\ prompt \in Msg /\ prompt.turn = t /\ prompt.kind = "system"
        /\ ask \in Msg /\ ask.turn = t /\ ask.kind = "user"
    BY DEF Said, Msg, Kinds
  <1>2. m \in Seq(Msg) /\ Prompted(m) /\ \A i \in DOMAIN m : m[i].turn \in ToSet(sv)
    BY DEF Whole
  <1>3. q \in Seq(Ids) /\ ToSet(q) \subseteq ToSet(sv) /\ q = Kept(sv, Among(q, sv))
    BY <1>1, <1>2, TurnsAppend DEF Whole
  <1> HIDE DEF prompt, ask, q
  <1>4. CASE m = <<>>
    <2> DEFINE p == Append(m, prompt)
    <2>1. first = p
      BY <1>4
    <2>2. TurnsOf(p) = Append(q, t)
      <3>1. TurnsOf(p) = IF m = <<>> \/ prompt.turn # m[Len(m)].turn
                           THEN Append(TurnsOf(m), prompt.turn) ELSE TurnsOf(m)
        BY <1>1, <1>2, TurnsAppend
      <3> HIDE DEF p
      <3>2. TurnsOf(m) = q
        BY DEF q
      <3> QED BY ONLY <3>1, <3>2, <1>1, <1>4
    <2>3. p \in Seq(Msg) /\ p # <<>> /\ Prompted(p)
      BY <1>1, <1>2, <1>4, PromptedAppend
    <2>4. Len(p) = 1 /\ DOMAIN p = {1} /\ p[1] = prompt
      BY <1>4
    <2> HIDE DEF p
    <2>5. UnderAfter(p, t, sv, q)
      BY <1>3, <2>2 DEF UnderAfter
    <2>6. Under(p, t, sv)
      BY <2>3, <2>4, <2>5, <1>1 DEF Under
    <2>7. Under(Append(p, ask), t, sv) /\ TurnsOf(Append(p, ask)) = Append(q, t)
      BY <2>2, <2>6, <1>1, UnderSaid
    <2> HIDE DEF first
    <2>8. r = Append(p, ask)
      <3>1. r = p \o <<ask>>
        BY <2>1
      <3>2. \A u \in Seq(Msg) : u \o <<ask>> = Append(u, ask)
        BY <1>1
      <3> QED BY <2>3, <3>1, <3>2
    <2> QED BY <2>7, <2>8 DEF ask, prompt, q, first
  <1>5. CASE m # <<>>
    <2> DEFINE p == Append(m, ask)
    <2>1. first = m
      BY <1>5
    <2>0. Len(m) \in Nat /\ DOMAIN m = 1..Len(m) /\ Len(m) # 0
      BY <1>2, <1>5, EmptySeq
    <2>2. Len(m) \in DOMAIN m /\ m[Len(m)].turn # t
      BY <2>0, <1>2
    <2>3. TurnsOf(p) = Append(q, t)
      BY <1>1, <1>2, <1>5, <2>2, TurnsAppend DEF q
    <2>4. p \in Seq(Msg) /\ p # <<>> /\ Prompted(p)
      BY <1>1, <1>2, <1>5, PromptedAppend
    <2>5. /\ DOMAIN p = 1..(Len(m) + 1) /\ Len(p) = Len(m) + 1
          /\ p[Len(m) + 1] = ask /\ \A i \in 1..Len(m) : p[i] = m[i]
      BY <1>1, <1>2, AppendProperties
    <2>6. p = r
      BY <2>1, <1>2
    <2> HIDE DEF p
    <2>7. UnderAfter(p, t, sv, q)
      BY <1>3, <2>3 DEF UnderAfter
    <2>8. \A i \in DOMAIN p : p[i].turn \in ToSet(sv) \cup {t}
      <3>1. \A i \in DOMAIN p : i \in DOMAIN m \/ i = Len(m) + 1
        BY <2>0, <2>5
      <3> QED BY <3>1, <2>0, <2>5, <1>1, <1>2
    <2>9. p[Len(p)].turn = t
      BY <2>5, <1>1
    <2>10. Under(p, t, sv)
      BY <2>4, <2>7, <2>8, <2>9 DEF Under
    <2> QED BY <2>3, <2>6, <2>10 DEF ask, prompt, q
  <1> QED BY <1>4, <1>5

(* A run appends messages of its turn.                                     *)
LEMMA UnderList ==
  ASSUME NEW m, NEW t \in Ids, NEW sv, Under(m, t, sv), NEW x \in Seq(Msg),
         \A i \in DOMAIN x : x[i].turn = t /\ x[i].kind # "system"
  PROVE  Under(m \o x, t, sv) /\ TurnsOf(m \o x) = TurnsOf(m)
  <1> DEFINE y == m \o x
             part(n) == SubSeq(y, 1, Len(m) + n)
             Stays(r) == Under(r, t, sv) /\ TurnsOf(r) = TurnsOf(m)
             G == {n \in 0..Len(x) : Stays(part(n))}
  <1>0. m \in Seq(Msg) /\ Len(m) \in Nat /\ Len(x) \in Nat /\ DOMAIN x = 1..Len(x)
    BY DEF Under
  <1>1. /\ y \in Seq(Msg) /\ Len(y) = Len(m) + Len(x)
        /\ \A i \in 1..(Len(m) + Len(x)) : y[i] = IF i <= Len(m) THEN m[i] ELSE x[i - Len(m)]
    BY <1>0, ConcatProperties
  <1>2. Len(m) # 0
    BY <1>0, EmptySeq DEF Under
  <1>3. part(0) = m
    <2>1. SubSeq(y, 1, Len(m)) = SubSeq(m, 1, Len(m))
      BY <1>0, <1>2, SubSeqOfConcat1
    <2> QED BY <2>1, <1>0, SubSeqFull
  <1>4. part(Len(x)) = y
    BY <1>1, SubSeqFull
  <1> HIDE DEF y
  <1>5. ASSUME NEW n \in 0..(Len(x) - 1) PROVE part(n + 1) = Append(part(n), x[n + 1]) /\ part(n) \in Seq(Msg)
    <2> DEFINE k == Len(m) + (n + 1)
    <2>1. 1 \in 1..Len(y) /\ k \in 1..Len(y) /\ k - 1 = Len(m) + n /\ y[k] = x[n + 1]
      <3>1. /\ k \in 1..(Len(m) + Len(x)) /\ k - Len(m) = n + 1 /\ ~ (k <= Len(m))
            /\ k - 1 = Len(m) + n /\ 1 \in 1..(Len(m) + Len(x))
        BY <1>0
      <3> HIDE DEF k
      <3> QED BY <1>1, <3>1
    <2>2. SubSeq(y, 1, k) = SubSeq(y, 1, k - 1) \o <<y[k]>>
      BY <2>1, <1>1, SubSeqRecursiveSecond
    <2>3. part(n) \in Seq(Msg)
      <3>1. \A i \in 1..(Len(m) + n) : y[i] \in Msg
        BY <1>0, <1>1
      <3>2. Len(m) + n \in Int
        BY <1>0
      <3> QED BY <3>1, <3>2, SubSeqProperties
    <2>4. x[n + 1] \in Msg
      BY <1>0
    <2>5. \A r \in Seq(Msg), z \in Msg : r \o <<z>> = Append(r, z)
      OBVIOUS
    <2>6. part(n + 1) = part(n) \o <<x[n + 1]>>
      BY <2>1, <2>2
    <2> HIDE DEF part
    <2> QED BY <2>3, <2>4, <2>5, <2>6
  <1> HIDE DEF part
  <1>6. 0 \in G
    <2>1. Stays(part(0))
      BY <1>3
    <2> QED BY <2>1, <1>0
  <1>7. ASSUME NEW n \in 0..(Len(x) - 1), n \in G PROVE n + 1 \in G
    <2>1. n + 1 \in 0..Len(x) /\ n + 1 \in DOMAIN x
      BY <1>0
    <2>2. x[n + 1] \in Msg /\ x[n + 1].turn = t /\ x[n + 1].kind # "system"
      BY <2>1
    <2>3. Under(part(n), t, sv) /\ TurnsOf(part(n)) = TurnsOf(m)
      BY <1>7
    <2>4. Stays(Append(part(n), x[n + 1]))
      BY <2>2, <2>3, UnderSaid
    <2> QED BY <2>1, <2>4, <1>5
  <1> HIDE DEF G
  <1>8. 0..Len(x) \subseteq G
    BY <1>0, <1>6, <1>7, CountUp
  <1>9. Len(x) \in G
    BY <1>8, <1>0
  <1> QED BY <1>4, <1>9 DEF G, y

Talks == {<<"assistant", "tool">>, <<"assistant">>, <<"assistant", "user">>, <<>>}

-----------------------------------------------------------------------------
(***************************************************************************)
(* The inductive invariant.  GoodTurns are the handlers a request may have *)
(* reached; Owns says what a handler knows of its session's history, and   *)
(* holds though another turn is saved in between: then the session is in   *)
(* overlapped, and what was read is still whole turns.                     *)
(***************************************************************************)
Underway(r) == r.at \in {"prepare", "run", "finish"}

Sound(r) ==
  /\ Underway(r) => r.session \in Sessions
  /\ r.at \in {"prepare", "run"} => r.steps <= MaxSteps
  /\ r.at = "finish" => r.route = "chat"

GoodTurns == {r \in TurnRecords : Sound(r)}

DataInv ==
  /\ up \in {"down", "running", "stopped"}
  /\ planning \in BOOLEAN
  /\ tools \in Seq(AnyTool)
  /\ up # "down" => LocalTools(tools)
  /\ histories \in [Sessions -> Seq(Msg)]
  /\ plan \in [Sessions -> {"open", "closed"}]
  /\ phase \in [Sessions -> 0..Turns]
  /\ turn \in [Ids -> GoodTurns]
  /\ saved \in [Sessions -> Seq(Ids)]
  /\ overlapped \subseteq Sessions

\* A history of the turns that were saved.
Keeps(s) ==
  /\ Whole(histories[s], saved[s])
  /\ histories[s] = <<>> <=> saved[s] = <<>>
  /\ saved[s] # <<>> => Last(TurnsOf(histories[s])) = Last(saved[s])
  /\ \A i \in DOMAIN saved[s] : turn[saved[s][i]].at = "over"
  /\ s \notin overlapped => TurnsOf(histories[s]) = saved[s]

\* A handler r of the turn t.
Owns(r, t) ==
  /\ r.at = "prepare" =>
       /\ Whole(r.messages, saved[r.session])
       /\ r.session \notin overlapped => r.messages = histories[r.session]
  /\ r.at \in {"run", "finish"} /\ r.route = "chat" =>
       /\ Under(r.messages, t, saved[r.session])
       /\ r.session \notin overlapped => TurnsOf(r.messages) = Append(saved[r.session], t)

Alone(s) == \A t, u \in Ids : Underway(turn[t]) /\ Underway(turn[u]) /\ turn[t].session = s /\ turn[u].session = s => t = u

HistoryInv ==
  /\ \A s \in Sessions : Keeps(s)
  /\ \A t \in Ids : Owns(turn[t], t)
  /\ \A s \in Sessions \ overlapped : Alone(s)

ChatbotInv == DataInv /\ HistoryInv

LEMMA SavedOver ==
  ASSUME DataInv, HistoryInv, NEW t \in Ids, turn[t].at # "over", NEW s \in Sessions
  PROVE  t \notin ToSet(saved[s]) /\ saved[s] \in Seq(Ids)
  <1>1. \A i \in DOMAIN saved[s] : turn[saved[s][i]].at = "over"
    BY DEF HistoryInv, Keeps
  <1> QED BY <1>1 DEF ToSet, DataInv

(* A step of a handler that saves nothing.                                 *)
LEMMA HandlerStep ==
  ASSUME DataInv, HistoryInv, UNCHANGED <<histories, ghosts>>,
         NEW t \in Ids, NEW r \in GoodTurns, turn' = [turn EXCEPT ![t] = r],
         \/ r.at = "over"
         \/ /\ turn[t].at # "over" /\ Underway(turn[t])
            /\ r.session = turn[t].session /\ Owns(r, t)
  PROVE  HistoryInv'
  <1>0. turn \in [Ids -> GoodTurns]
    BY DEF DataInv
  <1>1. /\ turn'[t] = r /\ \A u \in Ids : u # t => turn'[u] = turn[u]
        /\ histories' = histories /\ saved' = saved /\ overlapped' = overlapped
    BY <1>0 DEF ghosts
  <1>2. Owns(r, t)
    BY DEF Owns
  <1>3. ASSUME NEW s \in Sessions PROVE Keeps(s)'
    <2>1. \A i \in DOMAIN saved[s] : turn[saved[s][i]].at = "over" /\ saved[s][i] \in Ids
      BY DEF DataInv, HistoryInv, Keeps
    <2>2. \A i \in DOMAIN saved[s] : turn'[saved[s][i]].at = "over"
      BY <1>1, <2>1
    <2> QED BY <1>1, <2>2 DEF Keeps, HistoryInv
  <1>4. ASSUME NEW u \in Ids PROVE Owns(turn[u], u)'
    <2>1. Owns(turn'[u], u)
      BY <1>1, <1>2 DEF HistoryInv
    <2> QED BY <2>1, <1>1 DEF Owns
  <1>5. ASSUME NEW s \in Sessions \ overlapped PROVE Alone(s)'
    <2>1. \A u \in Ids : Underway(turn'[u]) => Underway(turn[u]) /\ turn'[u].session = turn[u].session
      BY <1>1 DEF Underway
    <2>2. \A u, v \in Ids : Underway(turn[u]) /\ Underway(turn[v]) /\ turn[u].session = s /\ turn[v].session = s => u = v
      BY DEF HistoryInv, Alone
    <2>3. \A u, v \in Ids : Underway(turn'[u]) /\ Underway(turn'[v]) /\ turn'[u].session = s /\ turn'[v].session = s => u = v
      BY <2>1, <2>2
    <2> QED BY <2>3 DEF Alone, Underway
  <1> QED BY <1>1, <1>3, <1>4, <1>5 DEF HistoryInv

(* A step that touches no handler and no history.                          *)
LEMMA OtherStep ==
  ASSUME HistoryInv, UNCHANGED <<histories, turn, ghosts>>
  PROVE  HistoryInv'
  BY DEF HistoryInv, Keeps, Owns, Alone, Underway, ghosts

LEMMA ReceiveStep ==
  ASSUME DataInv, HistoryInv, NEW t \in Ids, NEW s \in Sessions, NEW message \in Commands,
         Receive(t, s, message)
  PROVE  HistoryInv'
  <1> DEFINE r == [Idle EXCEPT !.at = "prepare", !.session = s,
                     !.route = Parsed(message).route, !.messages = histories[s]]
  <1>0. /\ turn \in [Ids -> GoodTurns] /\ turn' = [turn EXCEPT ![t] = r] /\ turn[t].at = "new"
        /\ histories' = histories /\ saved' = saved
        /\ overlapped' = IF \E u \in Ids : Active(u) /\ turn[u].session = s THEN overlapped \cup {s} ELSE overlapped
    BY DEF DataInv, Receive
  <1>1. r.at = "prepare" /\ r.session = s /\ r.messages = histories[s]
    BY DEF Idle
  <1> HIDE DEF r
  <1>2. turn'[t] = r /\ \A u \in Ids : u # t => turn'[u] = turn[u]
    BY <1>0
  <1>3. overlapped \subseteq overlapped'
    BY <1>0
  <1>4. ASSUME NEW z \in Sessions PROVE Keeps(z)'
    <2>1. \A i \in DOMAIN saved[z] : turn[saved[z][i]].at = "over" /\ saved[z][i] \in Ids
      BY DEF DataInv, HistoryInv, Keeps
    <2>2. \A i \in DOMAIN saved[z] : turn'[saved[z][i]].at = "over"
      BY <1>0, <1>2, <2>1
    <2> QED BY <1>0, <1>3, <2>2 DEF Keeps, HistoryInv
  <1>5. ASSUME NEW u \in Ids PROVE Owns(turn[u], u)'
    <2>1. CASE u = t
      <3>1. Whole(histories[s], saved[s])
        BY DEF HistoryInv, Keeps
      <3> QED BY <2>1, <3>1, <1>0, <1>1, <1>2 DEF Owns
    <2>2. CASE u # t
      <3>1. Owns(turn[u], u)
        BY DEF HistoryInv
      <3> QED BY <2>2, <3>1, <1>0, <1>2, <1>3 DEF Owns
    <2> QED BY <2>1, <2>2
  <1>6. ASSUME NEW z \in Sessions \ overlapped' PROVE Alone(z)'
    <2>1. \A u, v \in Ids : Underway(turn[u]) /\ Underway(turn[v]) /\ turn[u].session = z /\ turn[v].session = z => u = v
      BY <1>3 DEF HistoryInv, Alone
    <2>2. \A u \in Ids : u # t => ~ (Underway(turn'[u]) /\ turn'[u].session = z /\ z = s)
      BY <1>0, <1>2 DEF Underway, Active
    <2>3. \A u, v \in Ids : Underway(turn'[u]) /\ Underway(turn'[v]) /\ turn'[u].session = z /\ turn'[v].session = z => u = v
      BY <2>1, <2>2, <1>1, <1>2 DEF Underway
    <2> QED BY <2>3 DEF Alone, Underway
  <1> QED BY <1>4, <1>5, <1>6 DEF HistoryInv

LEMMA SaveStep ==
  ASSUME DataInv, HistoryInv, NEW t \in Ids, Save(t)
  PROVE  HistoryInv'
  <1> DEFINE s == turn[t].session
             m == turn[t].messages
             over == [Idle EXCEPT !.at = "over"]
  <1>0. /\ turn \in [Ids -> GoodTurns] /\ turn[t] \in TurnRecords /\ Sound(turn[t])
        /\ histories \in [Sessions -> Seq(Msg)] /\ saved \in [Sessions -> Seq(Ids)]
    BY DEF DataInv, GoodTurns
  <1>1. turn[t].at = "finish" /\ s \in Sessions /\ turn[t].route = "chat"
    BY <1>0 DEF Save, Sound, Underway
  <1>2. over.at = "over"
    BY DEF Idle
  <1>3. /\ histories' = [histories EXCEPT ![s] = m]
        /\ saved' = [saved EXCEPT ![s] = Append(saved[s], t)]
        /\ turn' = [turn EXCEPT ![t] = over]
        /\ overlapped' = overlapped
    BY DEF Save, Over
  <1> HIDE DEF over
  <1>4. /\ histories'[s] = m /\ saved'[s] = Append(saved[s], t) /\ turn'[t] = over
        /\ \A z \in Sessions : z # s => histories'[z] = histories[z] /\ saved'[z] = saved[z]
        /\ \A u \in Ids : u # t => turn'[u] = turn[u]
    BY <1>0, <1>1, <1>3
  <1>5. t \notin ToSet(saved[s]) /\ saved[s] \in Seq(Ids)
    BY <1>1, SavedOver
  <1>6. /\ Under(m, t, saved[s])
        /\ s \notin overlapped => TurnsOf(m) = Append(saved[s], t)
    BY <1>1 DEF HistoryInv, Owns
  <1>7. /\ Whole(m, Append(saved[s], t)) /\ m # <<>> /\ Last(TurnsOf(m)) = t
    BY <1>5, <1>6, UnderSaved
  <1>8. Append(saved[s], t) # <<>> /\ Last(Append(saved[s], t)) = t
    BY <1>5, AppendProperties DEF Last
  <1> HIDE DEF m
  <1>9. ASSUME NEW z \in Sessions PROVE Keeps(z)'
    <2>1. \A i \in DOMAIN saved[z] : turn[saved[z][i]].at = "over" /\ saved[z][i] \in Ids
      BY <1>0 DEF HistoryInv, Keeps
    <2>2. \A i \in DOMAIN saved[z] : turn'[saved[z][i]].at = "over"
      BY <1>2, <1>4, <2>1
    <2>3. CASE z # s
      <3>1. histories'[z] = histories[z] /\ saved'[z] = saved[z]
        BY <1>4, <2>3
      <3> QED BY <1>3, <3>1, <2>2, ZenonT(30) DEF Keeps, HistoryInv
    <2>4. CASE z = s
      <3>1. \A i \in DOMAIN Append(saved[s], t) : i \in DOMAIN saved[s] \/ i = Len(saved[s]) + 1
        BY <1>5, AppendProperties
      <3>2. \A i \in DOMAIN saved[s] : Append(saved[s], t)[i] = saved[s][i]
        BY <1>5, AppendProperties
      <3>3. Append(saved[s], t)[Len(saved[s]) + 1] = t
        BY <1>5, AppendProperties
      <3>4. \A i \in DOMAIN Append(saved[s], t) : turn'[Append(saved[s], t)[i]].at = "over"
        <4>1. turn'[t].at = "over"
          BY <1>2, <1>4
        <4>2. \A i \in DOMAIN saved[s] : turn'[saved[s][i]].at = "over"
          BY <2>2, <2>4
        <4> QED BY ONLY <3>1, <3>2, <3>3, <4>1, <4>2
      <3> HIDE DEF s
      <3> DEFINE sv == Append(saved[s], t)
      <3>5. histories'[z] = m /\ saved'[z] = sv /\ overlapped' = overlapped
        BY <1>3, <1>4, <2>4
      <3>6. /\ Whole(m, sv) /\ m # <<>> /\ sv # <<>> /\ Last(TurnsOf(m)) = Last(sv)
            /\ \A i \in DOMAIN sv : turn'[sv[i]].at = "over"
            /\ z \notin overlapped => TurnsOf(m) = sv
        BY <1>6, <1>7, <1>8, <2>4, <3>4
      <3> HIDE DEF sv
      <3> QED BY <3>5, <3>6 DEF Keeps
    <2> QED BY <2>3, <2>4
  <1>10. ASSUME NEW u \in Ids PROVE Owns(turn[u], u)'
    <2>1. CASE u = t
      BY <2>1, <1>2, <1>4 DEF Owns
    <2>2. CASE u # t
      <3>1. Owns(turn[u], u) /\ turn'[u] = turn[u]
        BY <1>4, <2>2 DEF HistoryInv
      <3>2. turn[u] \in TurnRecords /\ Sound(turn[u])
        BY <1>0 DEF GoodTurns
      <3>3. CASE Underway(turn[u]) /\ turn[u].session = s
        <4>1. s \in overlapped
          BY <1>1, <2>2, <3>3 DEF HistoryInv, Alone, Underway
        <4> DEFINE r == turn[u].messages
        <4>2. Whole(r, saved[s]) => Whole(r, Append(saved[s], t))
          BY <1>5, WholeMore
        <4>3. Under(r, u, saved[s]) => Under(r, u, Append(saved[s], t))
          BY <1>5, <2>2, UnderMore
        <4> HIDE DEF s
        <4> QED BY <1>3, <1>4, <3>1, <3>3, <4>1, <4>2, <4>3 DEF Owns
      <3>4. CASE Underway(turn[u]) /\ turn[u].session # s
        <4>1. /\ histories'[turn[u].session] = histories[turn[u].session]
              /\ saved'[turn[u].session] = saved[turn[u].session]
          BY <1>4, <3>2, <3>4 DEF Sound
        <4>2. overlapped' = overlapped
          BY <1>3
        <4> QED BY <3>1, <4>1, <4>2 DEF Owns
      <3>5. CASE ~Underway(turn[u])
        BY <3>1, <3>5 DEF Owns, Underway
      <3> QED BY <3>3, <3>4, <3>5
    <2> QED BY <2>1, <2>2
  <1>11. ASSUME NEW z \in Sessions \ overlapped PROVE Alone(z)'
    <2>1. \A u, v \in Ids : Underway(turn[u]) /\ Underway(turn[v]) /\ turn[u].session = z /\ turn[v].session = z => u = v
      BY DEF HistoryInv, Alone
    <2>2. \A u \in Ids : Underway(turn'[u]) => u # t /\ turn'[u] = turn[u]
      BY <1>2, <1>4 DEF Underway
    <2>3. \A u, v \in Ids : Underway(turn'[u]) /\ Underway(turn'[v]) /\ turn'[u].session = z /\ turn'[v].session = z => u = v
      BY <2>1, <2>2
    <2> QED BY <2>3 DEF Alone, Underway
  <1> QED BY <1>3, <1>9, <1>10, <1>11 DEF HistoryInv

-----------------------------------------------------------------------------
(* What the steps make of a handler.                                       *)

LEMMA TurnOf ==
  ASSUME DataInv, NEW t \in Ids
  PROVE  /\ turn[t] \in TurnRecords /\ Sound(turn[t])
         /\ turn[t].session \in Sessions \cup {"none"} /\ turn[t].route \in {"chat", "plan"}
         /\ turn[t].at \in {"new", "prepare", "run", "finish", "over"}
         /\ turn[t].steps \in 0..(MaxSteps + 1) /\ turn[t].reminders \in 0..MaxReminders
         /\ turn[t].messages \in Seq(Msg) /\ turn[t].tools \in Seq(AnyTool)
  <1>1. turn[t] \in TurnRecords /\ Sound(turn[t])
    BY DEF DataInv, GoodTurns
  <1>2. \A r \in TurnRecords :
          /\ r.session \in Sessions \cup {"none"} /\ r.route \in {"chat", "plan"}
          /\ r.at \in {"new", "prepare", "run", "finish", "over"}
          /\ r.steps \in 0..(MaxSteps + 1) /\ r.reminders \in 0..MaxReminders
          /\ r.messages \in Seq(Msg) /\ r.tools \in Seq(AnyTool)
    BY DEF TurnRecords
  <1> QED BY <1>1, <1>2

LEMMA OverGood ==
  /\ Idle \in GoodTurns
  /\ [Idle EXCEPT !.at = "over"] \in GoodTurns
  /\ [Idle EXCEPT !.at = "over"].at = "over"
  <1>1. 0 \in 0..(MaxSteps + 1) /\ 0 \in 0..MaxReminders
    BY ChatbotAssumption
  <1>2. <<>> \in Seq(Msg) /\ <<>> \in Seq(AnyTool)
    OBVIOUS
  <1>3. Idle \in TurnRecords
    BY <1>1, <1>2 DEF Idle, TurnRecords
  <1>4. Sound(Idle)
    BY DEF Idle, Sound, Underway
  <1> DEFINE over == [Idle EXCEPT !.at = "over"]
  <1>5. over \in TurnRecords
    BY <1>3 DEF TurnRecords
  <1>6. over.at = "over" /\ over.route = "chat"
    BY DEF Idle
  <1> HIDE DEF over
  <1>7. Sound(over)
    BY <1>6 DEF Sound, Underway
  <1> QED BY <1>3, <1>4, <1>5, <1>6, <1>7 DEF GoodTurns, over

LEMMA SteppedRecord ==
  ASSUME DataInv, NEW t \in Ids, Runs(t, "chat"), NEW said \in Talks
  PROVE  LET r == Stepped(t, said) IN
         /\ r \in TurnRecords
         /\ r.session = turn[t].session /\ r.route = "chat" /\ r.tools = turn[t].tools
         /\ r.reminders = turn[t].reminders /\ r.steps = turn[t].steps + 1
         /\ r.at \in {"run", "finish"} /\ (r.at = "run" => r.steps <= MaxSteps)
         /\ \E x \in Seq(Msg) : /\ \A i \in DOMAIN x : x[i].turn = t /\ x[i].kind # "system"
                                /\ r.messages = turn[t].messages \o x
  <1> DEFINE forced == IF turn[t].steps = MaxSteps THEN <<"user">> ELSE <<>>
             kinds == forced \o said
             x == [i \in DOMAIN kinds |-> Said(t, kinds[i])]
             old == turn[t]
             r == [old EXCEPT !.steps = @ + 1, !.messages = @ \o x,
                              !.at = IF old.steps = MaxSteps THEN "finish" ELSE "run"]
             K == {"user", "assistant", "tool"}
  <1>1. kinds \in Seq(K)
    <2>0. /\ <<>> \in Seq(K) /\ <<"user">> \in Seq(K) /\ <<"assistant">> \in Seq(K)
          /\ <<"assistant", "tool">> \in Seq(K) /\ <<"assistant", "user">> \in Seq(K)
      OBVIOUS
    <2> HIDE DEF K
    <2>1. forced \in Seq(K)
      BY <2>0
    <2>2. said \in Seq(K)
      BY <2>0 DEF Talks
    <2> HIDE DEF forced, K
    <2> QED BY <2>1, <2>2, ConcatProperties
  <1>2. \A i \in DOMAIN kinds : Said(t, kinds[i]) \in Msg /\ Said(t, kinds[i]).turn = t /\ Said(t, kinds[i]).kind # "system"
    <2>1. \A i \in DOMAIN kinds : kinds[i] \in K
      BY <1>1
    <2> HIDE DEF kinds
    <2> QED BY <2>1 DEF Said, Msg, Kinds
  <1>3. Stepped(t, said) = r
    BY DEF Stepped
  <1> HIDE DEF kinds
  <1>4. x \in Seq(Msg) /\ \A i \in DOMAIN x : x[i].turn = t /\ x[i].kind # "system"
    BY <1>1, <1>2
  <1> HIDE DEF x
  <1>5. /\ old \in TurnRecords /\ old.at = "run" /\ old.route = "chat" /\ old.steps <= MaxSteps
        /\ old.steps \in 0..(MaxSteps + 1) /\ old.messages \in Seq(Msg)
    BY TurnOf DEF Runs, Sound
  <1> HIDE DEF old
  <1>6. /\ old.steps + 1 \in 0..(MaxSteps + 1)
        /\ old.steps # MaxSteps => old.steps + 1 <= MaxSteps
    BY <1>5, ChatbotAssumption
  <1>7. old.messages \o x \in Seq(Msg)
    BY <1>4, <1>5, ConcatProperties
  <1>8. r \in TurnRecords
    BY <1>5, <1>6, <1>7, ZenonT(30) DEF TurnRecords
  <1>9. /\ r.session = old.session /\ r.route = "chat" /\ r.tools = old.tools
        /\ r.reminders = old.reminders /\ r.steps = old.steps + 1
        /\ r.at \in {"run", "finish"} /\ (r.at = "run" => r.steps <= MaxSteps)
        /\ r.messages = old.messages \o x
    BY <1>5, <1>6 DEF TurnRecords
  <1> HIDE DEF r
  <1> QED BY <1>3, <1>4, <1>8, <1>9 DEF old

(* The messages of the session, and what this turn said after them.        *)
LEMMA SteppedOwns ==
  ASSUME DataInv, HistoryInv, NEW t \in Ids, Runs(t, "chat"), NEW said \in Talks,
         NEW r \in TurnRecords,
         r.session = turn[t].session, r.route = "chat", r.tools = turn[t].tools,
         r.at \in {"run", "finish"}, r.at = "run" => r.steps <= MaxSteps,
         r.messages = Stepped(t, said).messages
  PROVE  r \in GoodTurns /\ Owns(r, t)
  <1> DEFINE m == turn[t].messages
             s == turn[t].session
  <1>1. turn[t].at = "run" /\ turn[t].route = "chat" /\ s \in Sessions
    BY TurnOf DEF Runs, Sound, Underway
  <1>2. Under(m, t, saved[s]) /\ (s \notin overlapped => TurnsOf(m) = Append(saved[s], t))
    BY <1>1 DEF HistoryInv, Owns
  <1>3. PICK x \in Seq(Msg) : /\ \A i \in DOMAIN x : x[i].turn = t /\ x[i].kind # "system"
                              /\ r.messages = m \o x
    <2>1. \E x \in Seq(Msg) : /\ \A i \in DOMAIN x : x[i].turn = t /\ x[i].kind # "system"
                              /\ Stepped(t, said).messages = turn[t].messages \o x
      BY SteppedRecord
    <2> QED BY <2>1
  <1> HIDE DEF m
  <1>4. Under(r.messages, t, saved[s]) /\ TurnsOf(r.messages) = TurnsOf(m)
    BY <1>2, <1>3, UnderList
  <1>5. r \in GoodTurns
    BY <1>1 DEF GoodTurns, Sound, Underway
  <1>6. Owns(r, t)
    BY <1>2, <1>4 DEF Owns
  <1> QED BY <1>5, <1>6

(* A step of one handler that saves nothing.                               *)
LEMMA HandlerKeeps ==
  ASSUME ChatbotInv, UNCHANGED <<app, histories, ghosts>>,
         plan' \in [Sessions -> {"open", "closed"}], phase' \in [Sessions -> 0..Turns],
         NEW t \in Ids, NEW r \in GoodTurns, turn' = [turn EXCEPT ![t] = r],
         \/ r.at = "over"
         \/ /\ turn[t].at # "over" /\ Underway(turn[t])
            /\ r.session = turn[t].session /\ Owns(r, t)
  PROVE  ChatbotInv'
  <1>1. HistoryInv'
    BY HandlerStep DEF ChatbotInv
  <1>2. DataInv'
    <2>1. DataInv
      BY DEF ChatbotInv
    <2>2. turn' \in [Ids -> GoodTurns]
      BY <2>1 DEF DataInv
    <2> QED BY <2>1, <2>2 DEF DataInv, app, ghosts
  <1> QED BY <1>1, <1>2 DEF ChatbotInv

LEMMA PlansTyped ==
  ASSUME ChatbotInv
  PROVE  plan \in [Sessions -> {"open", "closed"}] /\ phase \in [Sessions -> 0..Turns]
  BY DEF ChatbotInv, DataInv

(* A handler's end without a save.                                         *)
LEMMA OverKeeps ==
  ASSUME ChatbotInv, UNCHANGED <<app, histories, plan, phase, ghosts>>,
         NEW t \in Ids, turn' = Over(t)
  PROVE  ChatbotInv'
  <1> DEFINE r == [Idle EXCEPT !.at = "over"]
  <1>1. r \in GoodTurns /\ r.at = "over" /\ turn' = [turn EXCEPT ![t] = r]
    BY OverGood DEF Over
  <1> HIDE DEF r
  <1> QED BY <1>1, PlansTyped, HandlerKeeps

(* A step of a run, which may write the plan.                              *)
LEMMA StepKeeps ==
  ASSUME ChatbotInv, UNCHANGED <<app, histories, phase, ghosts>>,
         plan' \in [Sessions -> {"open", "closed"}],
         NEW t \in Ids, Runs(t, "chat"), NEW said \in Talks, NEW r \in TurnRecords,
         r.session = turn[t].session, r.route = "chat", r.tools = turn[t].tools,
         r.at \in {"run", "finish"}, r.at = "run" => r.steps <= MaxSteps,
         r.messages = Stepped(t, said).messages,
         turn' = [turn EXCEPT ![t] = r]
  PROVE  ChatbotInv'
  <1>1. r \in GoodTurns /\ Owns(r, t)
    BY SteppedOwns DEF ChatbotInv
  <1>2. turn[t].at # "over" /\ Underway(turn[t])
    BY DEF Runs, Underway
  <1> QED BY <1>1, <1>2, PlansTyped, HandlerKeeps

-----------------------------------------------------------------------------
(* The actions.                                                            *)

LEMMA StartupKeeps ==
  ASSUME ChatbotInv, Startup
  PROVE  ChatbotInv'
  <1>1. PICK served \in ServedLists : tools' = BuildTools(served, planning')
    BY DEF Startup
  <1>2. up' = "running" /\ planning' \in BOOLEAN /\ UNCHANGED <<histories, plan, phase, turn, ghosts>>
    BY DEF Startup
  <1>3. tools' \in Seq(AnyTool) /\ LocalTools(tools')
    <2> DEFINE w == planning'
    <2>1. w \in BOOLEAN
      BY <1>2
    <2> HIDE DEF w
    <2>2. BuildTools(served, w) \in Seq(AnyTool) /\ LocalTools(BuildTools(served, w))
      BY <2>1, BuiltTools
    <2> QED BY <1>1, <2>2 DEF w
  <1>4. HistoryInv'
    BY <1>2, OtherStep DEF ChatbotInv
  <1>5. DataInv'
    BY <1>2, <1>3 DEF ChatbotInv, DataInv, ghosts
  <1> QED BY <1>4, <1>5 DEF ChatbotInv

LEMMA CleanupKeeps ==
  ASSUME ChatbotInv, Cleanup
  PROVE  ChatbotInv'
  <1>1. /\ up = "running" /\ up' = "stopped"
        /\ UNCHANGED <<tools, planning, histories, plan, phase, turn, ghosts>>
    BY DEF Cleanup
  <1>2. HistoryInv'
    BY <1>1, OtherStep DEF ChatbotInv
  <1>3. DataInv'
    BY <1>1 DEF ChatbotInv, DataInv, ghosts
  <1> QED BY <1>2, <1>3 DEF ChatbotInv

LEMMA ReceiveKeeps ==
  ASSUME ChatbotInv, NEW t \in Ids, NEW s \in Sessions, NEW message \in Commands,
         Receive(t, s, message)
  PROVE  ChatbotInv'
  <1> DEFINE route == Parsed(message).route
             h == histories[s]
             r == [Idle EXCEPT !.at = "prepare", !.session = s, !.route = route, !.messages = h]
  <1>1. /\ turn' = [turn EXCEPT ![t] = r] /\ UNCHANGED <<app, histories, plan, phase, saved>>
        /\ overlapped' \subseteq overlapped \cup {s}
    BY DEF Receive
  <1>2. route \in {"chat", "plan"}
    BY DEF Parsed, Commands
  <1>3. h \in Seq(Msg)
    BY DEF ChatbotInv, DataInv
  <1> HIDE DEF route, h
  <1>4. r \in TurnRecords
    <2>1. Idle \in TurnRecords
      BY OverGood DEF GoodTurns
    <2> QED BY <2>1, <1>2, <1>3 DEF TurnRecords
  <1>5. r.at = "prepare" /\ r.session = s /\ r.tools = <<>> /\ r.steps = 0
    BY DEF Idle
  <1> HIDE DEF r
  <1>7. r \in GoodTurns
    BY <1>4, <1>5, ChatbotAssumption DEF GoodTurns, Sound
  <1>8. DataInv'
    BY <1>1, <1>7 DEF ChatbotInv, DataInv, app
  <1>9. HistoryInv'
    BY ReceiveStep DEF ChatbotInv
  <1> QED BY <1>8, <1>9 DEF ChatbotInv

LEMMA BeginKeeps ==
  ASSUME ChatbotInv, NEW t \in Ids, Begin(t)
  PROVE  ChatbotInv'
  <1> DEFINE m == turn[t].messages
             s == turn[t].session
             first == IF m = <<>> THEN <<Said(t, "system")>> ELSE m
             long == first \o <<Said(t, "user")>>
             old == turn[t]
             r == [old EXCEPT !.at = "run", !.messages = long, !.tools = tools]
  <1>0. turn \in [Ids -> GoodTurns] /\ tools \in Seq(AnyTool)
    BY DEF ChatbotInv, DataInv
  <1>1. /\ old.at = "prepare" /\ old.route = "chat"
        /\ UNCHANGED <<app, histories, plan, phase, ghosts>>
    BY DEF Begin
  <1>2. turn' = [turn EXCEPT ![t] = r]
    <2>1. turn' = [turn EXCEPT ![t].at = "run", ![t].messages = long, ![t].tools = tools]
      BY DEF Begin
    <2> HIDE DEF long
    <2> QED BY <2>1, <1>0
  <1>3. s \in Sessions /\ old \in TurnRecords /\ old.steps \in 0..(MaxSteps + 1)
    BY <1>1, TurnOf DEF ChatbotInv, Sound, Underway
  <1>4. Whole(m, saved[s]) /\ (s \notin overlapped => m = histories[s])
    BY <1>1 DEF ChatbotInv, HistoryInv, Owns
  <1>5. t \notin ToSet(saved[s])
    BY <1>1, <1>3, SavedOver DEF ChatbotInv
  <1>6. Under(long, t, saved[s]) /\ TurnsOf(long) = Append(TurnsOf(m), t)
    <2>1. Whole(m, saved[s])
      BY <1>4
    <2> QED BY ONLY t \in Ids, <2>1, <1>5, UnderBegins, ZenonT(30)
  <1>7. s \notin overlapped => TurnsOf(m) = saved[s]
    BY <1>3, <1>4 DEF ChatbotInv, HistoryInv, Keeps
  <1>8. long \in Seq(Msg)
    BY <1>6 DEF Under
  <1> HIDE DEF long
  <1>9. r \in TurnRecords
    BY <1>0, <1>3, <1>8 DEF TurnRecords
  <1>10. r.at = "run" /\ r.messages = long /\ r.session = s /\ r.route = "chat" /\ r.steps = old.steps
    BY <1>1, <1>3 DEF TurnRecords
  <1> HIDE DEF r
  <1>11. Owns(r, t)
    BY <1>6, <1>7, <1>10 DEF Owns
  <1>12. old.steps <= MaxSteps
    BY <1>1, TurnOf DEF ChatbotInv, Sound
  <1>13. r \in GoodTurns
    BY <1>3, <1>9, <1>10, <1>12 DEF GoodTurns, Sound
  <1>14. turn[t].at # "over" /\ Underway(turn[t]) /\ r.session = turn[t].session
    BY <1>1, <1>10 DEF Underway
  <1> QED BY <1>1, <1>2, <1>11, <1>13, <1>14, PlansTyped, HandlerKeeps

LEMMA BeginPlanKeeps ==
  ASSUME ChatbotInv, NEW t \in Ids, BeginPlan(t)
  PROVE  ChatbotInv'
  <1> DEFINE old == turn[t]
             s == turn[t].session
             set == ExecutorTools
             r == [old EXCEPT !.at = "run", !.messages = <<>>, !.tools = set]
  <1>0. turn \in [Ids -> GoodTurns] /\ tools \in Seq(AnyTool) /\ phase \in [Sessions -> 0..Turns]
    BY DEF ChatbotInv, DataInv
  <1>1. /\ old.at = "prepare" /\ old.route = "plan" /\ phase' = [phase EXCEPT ![s] = 0]
        /\ UNCHANGED <<app, histories, plan, ghosts>>
    BY DEF BeginPlan
  <1>2. s \in Sessions /\ old \in TurnRecords /\ old.steps <= MaxSteps
    BY <1>1, TurnOf DEF ChatbotInv, Sound, Underway
  <1>3. phase'[s] = 0 /\ phase' \in [Sessions -> 0..Turns]
    BY <1>0, <1>1, <1>2, ChatbotAssumption
  <1>4. set \in Seq(AnyTool)
    BY <1>0, ExecutorSet
  <1> HIDE DEF set
  <1>5. turn' = [turn EXCEPT ![t] = r]
    <2>1. turn' = [turn EXCEPT ![t].at = "run", ![t].messages = <<>>,
                     ![t].tools = set]
      BY DEF BeginPlan, set
    <2> QED BY <2>1, <1>0, <1>3
  <1>6. r \in TurnRecords
    <2>1. <<>> \in Seq(Msg)
      OBVIOUS
    <2> QED BY <2>1, <1>2, <1>4 DEF TurnRecords
  <1>7. r.at = "run" /\ r.session = s /\ r.route = "plan" /\ r.steps = old.steps /\ r.tools = set
    BY <1>1, <1>2 DEF TurnRecords
  <1> HIDE DEF r
  <1>8. Owns(r, t)
    BY <1>7 DEF Owns
  <1>9. r \in GoodTurns
    BY <1>2, <1>4, <1>6, <1>7 DEF GoodTurns, Sound
  <1>10. turn[t].at # "over" /\ Underway(turn[t]) /\ r.session = turn[t].session
    BY <1>1, <1>7 DEF Underway
  <1>11. plan' \in [Sessions -> {"open", "closed"}]
    BY <1>1, PlansTyped
  <1>12. UNCHANGED <<app, histories, ghosts>>
    BY <1>1
  <1> QED BY <1>3, <1>5, <1>8, <1>9, <1>10, <1>11, <1>12, HandlerKeeps

LEMMA PlanStepKeeps ==
  ASSUME ChatbotInv, NEW t \in Ids, PlanStep(t)
  PROVE  ChatbotInv'
  <1>1. /\ phase' = [phase EXCEPT ![turn[t].session] = t]
        /\ UNCHANGED <<app, histories, plan, turn, ghosts>>
    BY DEF PlanStep
  <1>2. phase' \in [Sessions -> 0..Turns]
    <2>1. t \in 0..Turns
      BY ChatbotAssumption DEF Ids
    <2> QED BY <2>1, <1>1 DEF ChatbotInv, DataInv
  <1>3. HistoryInv'
    BY <1>1, OtherStep DEF ChatbotInv
  <1>4. DataInv'
    BY <1>1, <1>2 DEF ChatbotInv, DataInv, app, ghosts
  <1> QED BY <1>3, <1>4 DEF ChatbotInv

LEMMA SaveKeeps ==
  ASSUME ChatbotInv, NEW t \in Ids, Save(t)
  PROVE  ChatbotInv'
  <1> DEFINE s == turn[t].session
             over == [Idle EXCEPT !.at = "over"]
             m == turn[t].messages
  <1>1. /\ histories' = [histories EXCEPT ![s] = m]
        /\ saved' = [saved EXCEPT ![s] = Append(saved[s], t)]
        /\ turn' = [turn EXCEPT ![t] = over]
        /\ UNCHANGED <<app, plan, phase, overlapped>>
    BY DEF Save, Over
  <1>2. m \in Seq(Msg)
    BY TurnOf DEF ChatbotInv
  <1>3. over \in GoodTurns
    BY OverGood
  <1> HIDE DEF over, m
  <1>4. histories' \in [Sessions -> Seq(Msg)] /\ turn' \in [Ids -> GoodTurns]
    BY <1>1, <1>2, <1>3 DEF ChatbotInv, DataInv
  <1>5. saved' \in [Sessions -> Seq(Ids)]
    <2> DEFINE sv == Append(saved[s], t)
    <2>1. s \in Sessions => sv \in Seq(Ids)
      BY AppendProperties DEF ChatbotInv, DataInv
    <2> HIDE DEF sv, s
    <2>2. saved' = [saved EXCEPT ![s] = sv] /\ saved \in [Sessions -> Seq(Ids)]
      BY <1>1 DEF sv, ChatbotInv, DataInv
    <2> QED BY <2>1, <2>2
  <1>6. DataInv'
    BY <1>1, <1>4, <1>5 DEF ChatbotInv, DataInv, app
  <1>7. HistoryInv'
    BY SaveStep DEF ChatbotInv
  <1> QED BY <1>6, <1>7 DEF ChatbotInv

(* The steps of a run.                                                     *)
LEMMA RunKeeps ==
  ASSUME ChatbotInv, NEW t \in Ids,
         CallTool(t) \/ WriteTodos(t) \/ Answer(t) \/ Remind(t) \/ Err(t)
  PROVE  ChatbotInv'
  <1>0. Runs(t, "chat") /\ UNCHANGED <<app, histories, phase, ghosts>>
    BY DEF CallTool, WriteTodos, Answer, Remind, Err
  <1>1. /\ <<"assistant", "tool">> \in Talks /\ <<"assistant">> \in Talks
        /\ <<"assistant", "user">> \in Talks /\ <<>> \in Talks
    BY DEF Talks
  <1>2. plan \in [Sessions -> {"open", "closed"}]
    BY PlansTyped
  <1>3. ASSUME NEW said \in Talks
        PROVE  LET r == Stepped(t, said) IN
               /\ r \in TurnRecords
               /\ r.session = turn[t].session /\ r.route = "chat" /\ r.tools = turn[t].tools
               /\ r.reminders = turn[t].reminders
               /\ r.at \in {"run", "finish"} /\ (r.at = "run" => r.steps <= MaxSteps)
    BY <1>0, SteppedRecord DEF ChatbotInv
  <1>4. CASE CallTool(t)
    <2> DEFINE r == Stepped(t, <<"assistant", "tool">>)
    <2>1. turn' = [turn EXCEPT ![t] = r] /\ plan' = plan
      BY <1>4 DEF CallTool
    <2> QED BY <2>1, <1>0, <1>1, <1>2, <1>3, StepKeeps
  <1>5. CASE WriteTodos(t)
    <2> DEFINE r == Stepped(t, <<"assistant", "tool">>)
    <2>1. turn' = [turn EXCEPT ![t] = r]
      BY <1>5 DEF WriteTodos
    <2>2. plan' \in [Sessions -> {"open", "closed"}]
      BY <1>2, <1>5 DEF WriteTodos
    <2> QED BY <2>1, <2>2, <1>0, <1>1, <1>3, StepKeeps
  <1>6. CASE Answer(t)
    <2> DEFINE st == Stepped(t, <<"assistant">>)
               r == [st EXCEPT !.at = "finish"]
    <2>1. turn' = [turn EXCEPT ![t] = r] /\ plan' = plan
      BY <1>6 DEF Answer
    <2>2. st \in TurnRecords /\ st.session = turn[t].session /\ st.route = "chat" /\ st.tools = turn[t].tools
      BY <1>1, <1>3
    <2>3. st.messages = Stepped(t, <<"assistant">>).messages
      OBVIOUS
    <2> HIDE DEF st
    <2>4. /\ r \in TurnRecords /\ r.session = turn[t].session /\ r.route = "chat" /\ r.tools = turn[t].tools
          /\ r.at = "finish" /\ r.messages = st.messages
      BY <2>2 DEF TurnRecords
    <2> HIDE DEF r
    <2> QED BY <2>1, <2>3, <2>4, <1>0, <1>1, <1>2, StepKeeps
  <1>7. CASE Remind(t)
    <2> DEFINE st == Stepped(t, <<"assistant", "user">>)
               r == [st EXCEPT !.reminders = @ + 1]
    <2>1. turn' = [turn EXCEPT ![t] = r] /\ plan' = plan
      BY <1>7 DEF Remind
    <2>2. /\ st \in TurnRecords /\ st.session = turn[t].session /\ st.route = "chat" /\ st.tools = turn[t].tools
          /\ st.at \in {"run", "finish"} /\ (st.at = "run" => st.steps <= MaxSteps)
      BY <1>1, <1>3
    <2>3. st.messages = Stepped(t, <<"assistant", "user">>).messages
      OBVIOUS
    <2>4. st.reminders + 1 \in 0..MaxReminders
      <3>1. turn[t].reminders \in 0..MaxReminders /\ turn[t].reminders < MaxReminders
        BY <1>7, TurnOf DEF ChatbotInv, Remind, Vetoed
      <3>2. st.reminders = turn[t].reminders
        BY <1>1, <1>3
      <3> HIDE DEF st
      <3> QED BY <3>1, <3>2, ChatbotAssumption
    <2> HIDE DEF st
    <2>5. /\ r \in TurnRecords /\ r.session = turn[t].session /\ r.route = "chat" /\ r.tools = turn[t].tools
          /\ r.at \in {"run", "finish"} /\ (r.at = "run" => r.steps <= MaxSteps) /\ r.messages = st.messages
      BY <2>2, <2>4 DEF TurnRecords
    <2> HIDE DEF r
    <2> QED BY <2>1, <2>3, <2>5, <1>0, <1>1, <1>2, StepKeeps
  <1>8. CASE Err(t)
    <2> DEFINE st == Stepped(t, <<>>)
               r == [st EXCEPT !.at = "finish"]
    <2>1. turn' = [turn EXCEPT ![t] = r] /\ plan' = plan
      BY <1>8 DEF Err
    <2>2. st \in TurnRecords /\ st.session = turn[t].session /\ st.route = "chat" /\ st.tools = turn[t].tools
      BY <1>1, <1>3
    <2>3. st.messages = Stepped(t, <<>>).messages
      OBVIOUS
    <2> HIDE DEF st
    <2>4. /\ r \in TurnRecords /\ r.session = turn[t].session /\ r.route = "chat" /\ r.tools = turn[t].tools
          /\ r.at = "finish" /\ r.messages = st.messages
      BY <2>2 DEF TurnRecords
    <2> HIDE DEF r
    <2> QED BY <2>1, <2>3, <2>4, <1>0, <1>1, <1>2, StepKeeps
  <1> QED BY <1>4, <1>5, <1>6, <1>7, <1>8

-----------------------------------------------------------------------------
(* The invariant.                                                          *)

LEMMA ChatbotInit ==
  Init => ChatbotInv
  <1> SUFFICES ASSUME Init PROVE ChatbotInv
    OBVIOUS
  <1>1. DataInv
    <2>1. 0 \in 0..Turns
      BY ChatbotAssumption
    <2>2. <<>> \in Seq(Msg) /\ <<>> \in Seq(AnyTool) /\ <<>> \in Seq(Ids)
      OBVIOUS
    <2> QED BY <2>1, <2>2, OverGood DEF Init, DataInv
  <1>2. ASSUME NEW s \in Sessions PROVE Keeps(s)
    <2>1. histories[s] = <<>> /\ saved[s] = <<>>
      BY DEF Init
    <2>2. TurnsOf(<<>>) = <<>> /\ Whole(<<>>, <<>>)
      <3> DEFINE e == <<>>
      <3>1. e \in Seq(Msg) /\ Len(e) = 0 /\ DOMAIN e = {}
        OBVIOUS
      <3>3. [i \in DOMAIN e |-> e[i].turn] = e
        BY <3>1
      <3>2. \A I : Kept(e, I) = e
        BY KeptNothing
      <3>4. TurnsOf(e) = e
        BY <3>2, <3>3 DEF TurnsOf
      <3>5. SystemMessages(e) = {} /\ ToSet(e) = {}
        BY <3>1 DEF SystemMessages, ToSet
      <3> QED BY <3>1, <3>2, <3>4, <3>5 DEF Whole, Prompted
    <2> QED BY <2>1, <2>2 DEF Keeps
  <1>3. \A t \in Ids : turn[t] = Idle
    BY DEF Init
  <1>4. Idle.at = "new"
    BY DEF Idle
  <1>5. ASSUME NEW t \in Ids PROVE Owns(turn[t], t)
    BY <1>3, <1>4 DEF Owns
  <1>6. ASSUME NEW s \in Sessions PROVE Alone(s)
    BY <1>3, <1>4 DEF Alone, Underway
  <1> QED BY <1>1, <1>2, <1>5, <1>6 DEF ChatbotInv, HistoryInv

LEMMA ChatbotStep ==
  ChatbotInv /\ [Next]_vars => ChatbotInv'
  <1> SUFFICES ASSUME ChatbotInv, [Next]_vars PROVE ChatbotInv'
    OBVIOUS
  <1>1. CASE Startup
    BY <1>1, StartupKeeps
  <1>2. CASE Cleanup
    BY <1>2, CleanupKeeps
  <1>3. ASSUME NEW t \in Ids, Handle(t) PROVE ChatbotInv'
    <2>1. CASE \E s \in Sessions, message \in Commands : Receive(t, s, message)
      BY <2>1, ReceiveKeeps
    <2>2. CASE (\E message \in Commands : Refuse(t, message)) \/ Disconnect(t) \/ Raise(t) \/ EndPlan(t)
      BY <2>2, OverKeeps DEF Refuse, Disconnect, Raise, EndPlan
    <2>3. CASE Begin(t)
      BY <2>3, BeginKeeps
    <2>4. CASE CallTool(t) \/ WriteTodos(t) \/ Answer(t) \/ Remind(t) \/ Err(t)
      BY <2>4, RunKeeps
    <2>5. CASE Save(t)
      BY <2>5, SaveKeeps
    <2>6. CASE BeginPlan(t)
      BY <2>6, BeginPlanKeeps
    <2>7. CASE PlanStep(t)
      BY <2>7, PlanStepKeeps
    <2> QED BY <1>3, <2>1, <2>2, <2>3, <2>4, <2>5, <2>6, <2>7 DEF Handle
  <1>4. CASE UNCHANGED vars
    <2>1. HistoryInv'
      BY <1>4, OtherStep DEF ChatbotInv, vars, ghosts
    <2>2. DataInv'
      BY <1>4 DEF ChatbotInv, DataInv, vars
    <2> QED BY <2>1, <2>2 DEF ChatbotInv
  <1> QED BY <1>1, <1>2, <1>3, <1>4 DEF Next

LEMMA InvariantHolds ==
  Spec => []ChatbotInv
  BY ChatbotInit, ChatbotStep, PTL DEF Spec

(***************************************************************************)
(* Every field of the server is in its range, a turn gives no more         *)
(* reminders than its hook allows and takes at most one step beyond its    *)
(* budget, for any number of sessions, requests, steps and reminders.      *)
(***************************************************************************)
THEOREM Typed == Spec => []TypeOK
  <1>1. ChatbotInv => TypeOK
    <2> SUFFICES ASSUME ChatbotInv PROVE TypeOK
      OBVIOUS
    <2>1. turn \in [Ids -> TurnRecords]
      BY DEF ChatbotInv, DataInv, GoodTurns
    <2> QED BY <2>1 DEF TypeOK, ChatbotInv, DataInv
  <1> QED BY <1>1, InvariantHolds, PTL

(***************************************************************************)
(* server.py:322: with one request at a time a session's history is all    *)
(* its saved turns in their order; when requests overlap it is whole saved *)
(* turns in their order, the last one saved among them, behind one system  *)
(* prompt.                                                                 *)
(***************************************************************************)
THEOREM Histories == Spec => []HistoryKept
  <1>1. ChatbotInv => HistoryKept
    <2> SUFFICES ASSUME ChatbotInv, NEW s \in Sessions
                 PROVE  LET turns == TurnsOf(histories[s]) IN
                        /\ s \notin overlapped => turns = saved[s]
                        /\ turns = Kept(saved[s], {i \in DOMAIN saved[s] : saved[s][i] \in ToSet(turns)})
                        /\ saved[s] # <<>> => Last(turns) = Last(saved[s])
                        /\ SystemMessages(histories[s]) = IF saved[s] = <<>> THEN {} ELSE {1}
      BY DEF HistoryKept
    <2>1. Keeps(s)
      BY DEF ChatbotInv, HistoryInv
    <2>2. TurnsOf(histories[s]) = Kept(saved[s], Among(TurnsOf(histories[s]), saved[s]))
      BY <2>1 DEF Keeps, Whole
    <2>3. SystemMessages(histories[s]) = IF saved[s] = <<>> THEN {} ELSE {1}
      BY <2>1 DEF Keeps, Whole, Prompted
    <2>4. /\ s \notin overlapped => TurnsOf(histories[s]) = saved[s]
          /\ saved[s] # <<>> => Last(TurnsOf(histories[s])) = Last(saved[s])
      BY <2>1 DEF Keeps
    <2> QED BY <2>2, <2>3, <2>4 DEF Among
  <1> QED BY <1>1, InvariantHolds, PTL

(***************************************************************************)
(* func_tool_manager.py:310: get_func agrees with get_full_tool_set, and   *)
(* the server that runs has every name once and the local tools under      *)
(* theirs, whichever tools the MCP server has.                             *)
(***************************************************************************)
THEOREM ToolsFound == Spec => []ToolsAgree
  <1>1. GetFuncAgrees
    <2> DEFINE From == [name : Served, active : BOOLEAN, from : 0..2]
    <2>1. ASSUME NEW list \in ToolLists PROVE list \in Seq(From)
      <3>1. PICK n \in 0..3 : list \in [1..n -> {Tool(name, active, from) : name \in Served, active \in BOOLEAN, from \in 1..2}]
        BY DEF ToolLists
      <3>2. {Tool(name, active, from) : name \in Served, active \in BOOLEAN, from \in 1..2} \subseteq From
        BY DEF Tool
      <3> HIDE DEF From
      <3> QED BY <3>1, <3>2
    <2> SUFFICES ASSUME NEW list \in ToolLists
                 PROVE  /\ \A name \in Served : GetFunc(list, name) = GetTool(GetFullToolSet(list), name)
                        /\ Names(ActiveTools(GetFullToolSet(list))) = Names(ActiveTools(list))
                        /\ \A name \in Served :
                             LET func == Tool(name, TRUE, 0) IN GetFunc(AddFunc(list, func), name) = {func}
      BY DEF GetFuncAgrees
    <2>2. ASSUME NEW name \in Served
          PROVE  LET func == Tool(name, TRUE, 0) IN GetFunc(AddFunc(list, func), name) = {func}
      <3> DEFINE func == Tool(name, TRUE, 0)
      <3>1. func \in From /\ func.active /\ func.name = name
        BY DEF Tool
      <3> HIDE DEF func, From
      <3>2. GetFunc(AddFunc(list, func), func.name) = {func}
        <4>1. list \in Seq(From)
          BY <2>1
        <4>2. func \in From /\ func.active
          BY ONLY <3>1
        <4> QED BY ONLY <4>1, <4>2, AddedFound, ZenonT(30)
      <3>3. GetFunc(AddFunc(list, func), name) = {func}
        BY ONLY <3>1, <3>2
      <3> QED BY <3>3 DEF func
    <2> HIDE DEF From
    <2>3. list \in Seq(From)
      BY <2>1
    <2> QED BY <2>2, <2>3, GetFuncIsGetTool, ActiveNames
  <1>2. ChatbotInv => ToolsAgree
    BY <1>1, LocalToolsFound DEF ChatbotInv, DataInv, ToolsAgree
  <1> QED BY <1>2, InvariantHolds, PTL
=============================================================================
