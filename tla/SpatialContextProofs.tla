------------------------- MODULE SpatialContextProofs -------------------------
(***************************************************************************)
(* Theorems about SpatialContext: each part of a reply was true of the     *)
(* tables at some moment of the request, and without writes all parts are  *)
(* true of the same tables.                                                *)
(***************************************************************************)
EXTENDS SpatialContext, FiniteSetTheorems, SequenceTheorems, TLAPS

-----------------------------------------------------------------------------
(* Rows in the order of their distance *)

\* Every row of a query result occurs in it, at one place.
LEMMA OrderedIsOnto ==
    ASSUME NEW S, IsFiniteSet(S), NEW dist, NEW q \in Ordered(S, dist)
    PROVE  /\ Cardinality(S) \in Nat
           /\ q \in [1..Cardinality(S) -> S]
           /\ \A x \in S : \E i \in 1..Cardinality(S) : q[i] = x
<1> DEFINE n == Cardinality(S)
<1>1. n \in Nat
  BY FS_CardinalityType
<1>2. q \in [1..n -> S] /\ \A i, j \in 1..n : i < j => q[i] # q[j]
  BY DEF Ordered
<1>3. IsFiniteSet(1..n) /\ Cardinality(1..n) = n
  BY <1>1, FS_Interval
<1>4. q \in Injection(1..n, S)
  <2>1. ASSUME NEW i \in 1..n, NEW j \in 1..n, q[i] = q[j] PROVE i = j
    BY <1>1, <1>2, <2>1
  <2> QED BY <1>2, <2>1 DEF Injection, IsInjective
<1>5. q \in Surjection(1..n, S)
  BY <1>3, <1>4, FS_Injection
<1> QED BY <1>1, <1>2, <1>5 DEF Surjection

\* The loop over the tourist sites finds the nearest one in reach, and the others
\* stay in their order.
LEMMA SplitIsRight ==
    ASSUME NEW S \in SUBSET Places, NEW rows \in Ordered(S, Distance)
    PROVE  LET a == Split(rows).at_site
               reach == {p \in S : Distance[p] <= AtSite}
           IN  /\ a = None <=> reach = {}
               /\ a # None => a \in reach /\ \A p \in reach : Distance[a] <= Distance[p]
               /\ Split(rows).nearby_sites \in Ordered(S \ {a}, Distance)
<1> DEFINE n == Cardinality(S)
           reach == {p \in S : Distance[p] <= AtSite}
<1>1. IsFiniteSet(S) /\ None \notin S /\ AtSite \in Nat /\ \A p \in S : Distance[p] \in Nat
  BY FS_Subset, SettingsAssumption
<1>2. n \in Nat /\ rows \in [1..n -> S] /\ \A x \in S : \E i \in 1..n : rows[i] = x
  BY <1>1, OrderedIsOnto
<1>3. \A i, j \in 1..n : i < j => rows[i] # rows[j] /\ Distance[rows[i]] <= Distance[rows[j]]
  BY <1>2 DEF Ordered
<1>4. InReach(rows) = {i \in 1..n : Distance[rows[i]] <= AtSite}
  BY <1>2 DEF InReach
<1>5. CASE InReach(rows) = {}
  <2>1. Split(rows) = [at_site |-> None, nearby_sites |-> rows]
    BY <1>5 DEF Split
  <2>2. reach = {} /\ S \ {None} = S
    BY <1>1, <1>2, <1>4, <1>5
  <2> QED BY <2>1, <2>2
<1>6. CASE InReach(rows) # {}
  <2>1. PICK i \in 1..n : Distance[rows[i]] <= AtSite
    BY <1>4, <1>6
  <2>2. 1 \in 1..n /\ 1 <= i /\ Distance[rows[1]] \in Nat /\ Distance[rows[i]] \in Nat
    BY <1>1, <1>2, <2>1
  <2>3. Distance[rows[1]] <= AtSite
    BY <1>1, <1>3, <2>1, <2>2
  <2>4. Min(InReach(rows)) = 1
    <3>1. 1 \in InReach(rows) /\ \A j \in InReach(rows) : j \in Int /\ 1 <= j
      BY <1>2, <1>4, <2>2, <2>3
    <3>2. PICK m \in InReach(rows) : /\ \A j \in InReach(rows) : m <= j
                                    /\ Min(InReach(rows)) = m
      BY <3>1 DEF Min
    <3> QED BY <3>1, <3>2
  <2>5. /\ Split(rows).at_site = rows[1]
        /\ Split(rows).nearby_sites = RemoveAt(rows, 1)
    BY <1>6, <2>4 DEF Split, AtSiteOf
  <2>6. RemoveAt(rows, 1) = [j \in 1..(n - 1) |-> rows[j + 1]]
    <3>1. rows \in Seq(S) /\ Len(rows) = n
      BY <1>2
    <3>2. SubSeq(rows, 1, 0) = <<>>
      BY <3>1
    <3>3. SubSeq(rows, 2, n) \in Seq(S) /\ Len(SubSeq(rows, 2, n)) = n - 1
          /\ \A j \in 1..(n - 1) : SubSeq(rows, 2, n)[j] = rows[j + 1]
      <4>1. SubSeq(rows, 2, n) = [j \in 1..(n - 1) |-> rows[j + 1]]
        BY <1>2, <2>2, <3>1
      <4>2. \A j \in 1..(n - 1) : rows[j + 1] \in S
        BY <1>2
      <4> DEFINE q == [j \in 1..(n - 1) |-> rows[j + 1]]
      <4>3. q \in [1..(n - 1) -> S] /\ n - 1 \in Nat
        BY <1>2, <2>2, <4>2
      <4>4. \A j \in 1..(n - 1) : q[j] = rows[j + 1]
        OBVIOUS
      <4> HIDE DEF q
      <4>5. q \in Seq(S) /\ Len(q) = n - 1
        BY <4>3
      <4> QED BY <4>1, <4>4, <4>5 DEF q
    <3> QED BY <3>1, <3>2, <3>3 DEF RemoveAt
  <2>7. Cardinality(S \ {rows[1]}) = n - 1
    BY <1>1, <1>2, <2>2, FS_RemoveElement
  <2>8. RemoveAt(rows, 1) \in Ordered(S \ {rows[1]}, Distance)
    <3> DEFINE q == [j \in 1..(n - 1) |-> rows[j + 1]]
    <3>1. q \in [1..(n - 1) -> S \ {rows[1]}]
      BY <1>2, <1>3, <2>2
    <3>2. \A j, k \in 1..(n - 1) : j < k => q[j] # q[k] /\ Distance[q[j]] <= Distance[q[k]]
      BY <1>2, <1>3
    <3>3. RemoveAt(rows, 1) = q /\ DOMAIN q = 1..(n - 1)
      BY <2>6
    <3> HIDE DEF q, n
    <3> QED BY <2>7, <3>1, <3>2, <3>3 DEF Ordered
  <2>9. rows[1] \in reach /\ \A p \in reach : Distance[rows[1]] <= Distance[p]
    <3>1. ASSUME NEW p \in reach PROVE Distance[rows[1]] <= Distance[p]
      <4>1. PICK k \in 1..n : rows[k] = p
        BY <1>2
      <4> QED BY <1>1, <1>2, <1>3, <2>2, <4>1
    <3> QED BY <1>2, <2>2, <2>3, <3>1
  <2> QED BY <1>1, <2>5, <2>8, <2>9
<1> QED BY <1>5, <1>6

\* The guidance is the nearest zones, as many as the limit allows.
GuideOf(q, S) ==
    /\ q \in Seq(Zones) /\ Len(q) = PyMin(Cardinality(S), GuideLimit)
    /\ Range(q) \subseteq S
    /\ \A i, j \in DOMAIN q : i < j =>
         q[i] # q[j] /\ ZoneDistance[q[i]] <= ZoneDistance[q[j]]
    /\ \A z \in S \ Range(q) : \A i \in DOMAIN q : ZoneDistance[q[i]] <= ZoneDistance[z]

LEMMA LimitIsRight ==
    ASSUME NEW S \in SUBSET Zones, NEW rows \in Ordered(S, ZoneDistance),
           NEW q, q = SubSeq(rows, 1, PyMin(Len(rows), GuideLimit))
    PROVE  GuideOf(q, S)
<1> DEFINE n == Cardinality(S)
           m == PyMin(n, GuideLimit)
<1>1. IsFiniteSet(S)
  BY FS_Subset, SettingsAssumption
<1>2. n \in Nat /\ rows \in [1..n -> S] /\ \A x \in S : \E i \in 1..n : rows[i] = x
  BY <1>1, OrderedIsOnto
<1>3. \A i, j \in 1..n : i < j =>
        rows[i] # rows[j] /\ ZoneDistance[rows[i]] <= ZoneDistance[rows[j]]
  BY <1>2 DEF Ordered
<1>4. m \in 0..n
  BY <1>2, SettingsAssumption DEF PyMin, Less
<1>5. rows \in Seq(S) /\ Len(rows) = n
  BY <1>2
<1>6. q = SubSeq(rows, 1, m)
  BY <1>5
<1> HIDE DEF m, n
<1>7. m \in Nat /\ m <= n
  BY <1>2, <1>4
<1>8. q \in Seq(S) /\ Len(q) = m /\ \A i \in 1..m : q[i] = rows[i]
  <2>1. m \in Int /\ 1 \in Int /\ \A i \in 1..m : rows[i] \in S
    BY <1>2, <1>4
  <2>2. /\ SubSeq(rows, 1, m) \in Seq(S)
        /\ Len(SubSeq(rows, 1, m)) = IF 1 <= m THEN m - 1 + 1 ELSE 0
        /\ \A i \in 1..(m - 1 + 1) : SubSeq(rows, 1, m)[i] = rows[1 + i - 1]
    BY <2>1, SubSeqProperties
  <2>3. Len(SubSeq(rows, 1, m)) = m
    BY <1>7, <2>2
  <2>4. \A i \in 1..m : SubSeq(rows, 1, m)[i] = rows[i]
    BY <1>7, <2>2
  <2> QED BY <1>6, <2>2, <2>3, <2>4
<1>9. DOMAIN q = 1..m
  BY <1>4, <1>8
<1>10. Range(q) \subseteq S
  BY <1>2, <1>4, <1>8, <1>9 DEF Range
<1>11. ASSUME NEW z \in S \ Range(q), NEW i \in DOMAIN q
       PROVE  ZoneDistance[q[i]] <= ZoneDistance[z]
  <2>1. PICK j \in 1..n : rows[j] = z
    BY <1>2
  <2>2. j \notin 1..m
    BY <1>8, <1>9, <1>11, <2>1 DEF Range
  <2>3. i \in 1..n /\ i < j
    <3>1. i \in 1..m /\ m \in Nat /\ n \in Nat /\ m <= n
      BY <1>2, <1>9, <1>11, <1>7
    <3>2. j > m
      BY <2>1, <2>2, <3>1
    <3> QED BY <3>1, <3>2
  <2> QED BY <1>3, <1>8, <1>9, <2>1, <2>3
<1>12. ASSUME NEW i \in DOMAIN q, NEW j \in DOMAIN q, i < j
       PROVE  q[i] # q[j] /\ ZoneDistance[q[i]] <= ZoneDistance[q[j]]
  <2>1. i \in 1..n /\ j \in 1..n /\ q[i] = rows[i] /\ q[j] = rows[j]
    BY <1>2, <1>7, <1>8, <1>9
  <2> QED BY <1>3, <1>12, <2>1
<1> QED BY <1>8, <1>10, <1>11, <1>12 DEF GuideOf, m, n

\* A zone is left out of the guidance only when the list is full.
LEMMA LeftOutOfFullList ==
    ASSUME NEW S \in SUBSET Zones, NEW q, GuideOf(q, S), NEW z \in S \ Range(q)
    PROVE  Len(q) = GuideLimit
<1> DEFINE m == Len(q)
<1>1. IsFiniteSet(S) /\ Cardinality(S) \in Nat
  BY FS_Subset, FS_CardinalityType, SettingsAssumption
<1>2. m \in Nat /\ DOMAIN q = 1..m /\ \A i \in 1..m : q[i] \in Range(q)
  BY DEF GuideOf, Range
<1>3. q \in [1..m -> S]
  BY <1>2 DEF GuideOf
<1>4. \A i, j \in 1..m : q[i] = q[j] => i = j
  BY <1>2 DEF GuideOf
<1>5. q \in Injection(1..m, S)
  BY <1>3, <1>4 DEF Injection, IsInjective
<1>6. q \notin Surjection(1..m, S)
  BY <1>2 DEF Surjection
<1>7. Cardinality(1..m) # Cardinality(S)
  BY <1>1, <1>5, <1>6, FS_Injection
<1>8. Cardinality(1..m) = m
  BY <1>2, FS_Interval
<1>9. m = PyMin(Cardinality(S), GuideLimit)
  BY DEF GuideOf
<1> QED BY <1>7, <1>8, <1>9 DEF PyMin

-----------------------------------------------------------------------------
(* The invariant *)

\* The kinds of reply the statements assemble.
Replies == [in_egypt : BOOLEAN, governorate : Governorates \cup {None},
            at_site : Places \cup {None},
            nearby_sites : Seq(Places), nearby_services : Seq(Places),
            area_advisories : SUBSET Zones, guidance : Seq(Zones),
            zones : SUBSET {[zone_type |-> ZoneType[z], severity |-> Severity(ZoneType[z])] :
                              z \in Zones}]

\* The parts of a reply are true of the tables d.
ServicesAreTrueOf(d) ==
    reply.nearby_services \in Ordered(Near(d, "infrastructure", radius), Distance)
AdvisoriesAreTrueOf(d) == reply.area_advisories = Covering(d)

\* From the statement on that finds a part, it is true of tables that were there.
PartsWereTrue ==
    /\ pc \in {"sites", "services", "advisories", "guidance"} \/ Answered =>
         \E d \in history : GovernoratePartIsTrueOf(d)
    /\ pc \in {"services", "advisories", "guidance"} \/ Answered =>
         \E d \in history : SitePartIsTrueOf(d)
    /\ pc \in {"advisories", "guidance"} \/ Answered =>
         \E d \in history : ServicesAreTrueOf(d)
    /\ pc = "guidance" \/ Answered => \E d \in history : AdvisoriesAreTrueOf(d)
    /\ Answered => \E d \in history : GuidancePartIsTrueOf(d)

\* A request looks at tables of its time, and no radius below zero is used.
Underway ==
    /\ pc # "idle" => db \in history /\ (radius = NaN \/ radius >= 0)
    /\ pc = "zones" => op = "zones"
    /\ IsFiniteSet(history)

IInv == TypeOK /\ reply \in Replies /\ Underway /\ PartsWereTrue

-----------------------------------------------------------------------------
(* The statements *)

\* Which parts a statement leaves as they are.
GovernorateStays == reply'.governorate = reply.governorate
SitePartStays == reply'.at_site = reply.at_site /\ reply'.nearby_sites = reply.nearby_sites
ServicePartStays == reply'.nearby_services = reply.nearby_services
AdvisoryPartStays == reply'.area_advisories = reply.area_advisories

\* What was true of some tables stays so while the part and the radius stay.
LEMMA TrueOfStays ==
    ASSUME radius' = radius, NEW d
    PROVE  /\ GovernorateStays => GovernoratePartIsTrueOf(d)' = GovernoratePartIsTrueOf(d)
           /\ SitePartStays => SitePartIsTrueOf(d)' = SitePartIsTrueOf(d)
           /\ ServicePartStays => ServicesAreTrueOf(d)' = ServicesAreTrueOf(d)
           /\ AdvisoryPartStays => AdvisoriesAreTrueOf(d)' = AdvisoriesAreTrueOf(d)
           /\ reply'.guidance = reply.guidance =>
                GuidancePartIsTrueOf(d)' = GuidancePartIsTrueOf(d)
<1>1. ASSUME SitePartStays PROVE SitePartIsTrueOf(d)' = SitePartIsTrueOf(d)
  BY <1>1 DEF SitePartStays, SitePartIsTrueOf, Near, Within
<1>2. ASSUME ServicePartStays PROVE ServicesAreTrueOf(d)' = ServicesAreTrueOf(d)
  BY <1>2 DEF ServicePartStays, ServicesAreTrueOf, Near, Within
<1>3. ASSUME AdvisoryPartStays PROVE AdvisoriesAreTrueOf(d)' = AdvisoriesAreTrueOf(d)
  BY <1>3 DEF AdvisoryPartStays, AdvisoriesAreTrueOf, Covering
<1>4. ASSUME reply'.guidance = reply.guidance
      PROVE  GuidancePartIsTrueOf(d)' = GuidancePartIsTrueOf(d)
  BY <1>4 DEF GuidancePartIsTrueOf, NearZones, Within
<1>5. ASSUME GovernorateStays PROVE GovernoratePartIsTrueOf(d)' = GovernoratePartIsTrueOf(d)
  BY <1>5 DEF GovernorateStays, GovernoratePartIsTrueOf
<1> QED BY <1>1, <1>2, <1>3, <1>4, <1>5

\* A reply of the right kind has the type its parts should have.
LEMMA RepliesAreTyped ==
    ASSUME NEW given \in Replies
    PROVE  /\ given.at_site \in Places \cup {None}
           /\ given.governorate \in Governorates \cup {None}
           /\ Range(given.nearby_sites) \cup Range(given.nearby_services) \subseteq Places
<1>1. given.nearby_sites \in Seq(Places) /\ given.nearby_services \in Seq(Places)
  BY DEF Replies
<1>2. \A q \in Seq(Places) : Range(q) \subseteq Places
  BY DEF Range
<1> QED BY <1>1, <1>2 DEF Replies

\* A statement leaves everything but the reply alone.
LEMMA StatementKeeps ==
    ASSUME IInv, NEW here, NEW next \in {"governorate", "sites", "services",
                                         "advisories", "guidance", "done"},
           here # "idle", At(here, next), Quiet, reply' \in Replies
    PROVE  TypeOK' /\ Underway'
<1>1. TypeOK'
  <2>1. pc' = next /\ UNCHANGED <<db, op, radius, writes, history>>
    BY DEF At, Quiet
  <2>2. (reply \in Replies)'
    OBVIOUS
  <2>3. /\ (reply.at_site \in Places \cup {None})'
        /\ (reply.governorate \in Governorates \cup {None})'
        /\ (Range(reply.nearby_sites) \cup Range(reply.nearby_services) \subseteq Places)'
    BY <2>2, RepliesAreTyped
  <2> QED BY <2>1, <2>3 DEF IInv, TypeOK
<1>2. Underway'
  BY DEF IInv, Underway, At, Quiet
<1> QED BY <1>1, <1>2

\* The rows of a query on a set of places are a sequence of places.
LEMMA OrderedIsSequence ==
    ASSUME NEW T, NEW S \in SUBSET T, IsFiniteSet(S), NEW dist, NEW q \in Ordered(S, dist)
    PROVE  q \in Seq(T)
<1>1. Cardinality(S) \in Nat /\ q \in [1..Cardinality(S) -> T]
  BY OrderedIsOnto
<1> QED BY <1>1

\* What is near is a finite set of places or zones that exist.
LEMMA NearIsFinite ==
    ASSUME db \in Tables
    PROVE  /\ \A kind : Near(db, kind, radius) \in SUBSET Places
                        /\ IsFiniteSet(Near(db, kind, radius))
           /\ NearZones(db, radius) \in SUBSET Zones
           /\ Covering(db) \in SUBSET Zones
<1>1. \A S \in SUBSET Places : IsFiniteSet(S)
  BY FS_Subset, SettingsAssumption
<1> QED BY <1>1 DEF Near, NearZones, Covering, Tables

LEMMA BeginKeeps ==
    ASSUME IInv, NEW o \in {"context", "zones"}, NEW given \in Radii, Begin(o, given)
    PROVE  IInv'
<1>1. /\ pc' \in {"idle", "country", "zones"} /\ (pc' = "zones" => op' = "zones")
      /\ reply' = NoReply /\ radius' = Effective(given)
      /\ history' = {db} /\ db' = db /\ writes' = writes
      /\ pc' # "idle" => ~Less(Effective(given), 0)
  BY DEF Begin
<1>2. Effective(given) \in Int \cup {NaN}
  BY SettingsAssumption DEF Effective, PyMin, Less
<1>3. pc' # "idle" => radius' = NaN \/ radius' >= 0
  BY <1>1, <1>2, SettingsAssumption DEF Less
<1>4. (reply \in Replies)'
  <2>1. <<>> \in Seq(Places) /\ <<>> \in Seq(Zones)
    OBVIOUS
  <2> QED BY <1>1, <2>1 DEF NoReply, Replies
<1>5. /\ (reply.at_site \in Places \cup {None})'
      /\ (reply.governorate \in Governorates \cup {None})'
      /\ (Range(reply.nearby_sites) \cup Range(reply.nearby_services) \subseteq Places)'
  BY <1>4, RepliesAreTyped
<1>6. TypeOK'
  BY <1>1, <1>2, <1>5 DEF IInv, TypeOK
<1>7. Underway'
  BY <1>1, <1>3, FS_Singleton DEF Underway
<1>8. PartsWereTrue'
  BY <1>1 DEF PartsWereTrue, Answered
<1> QED BY <1>4, <1>6, <1>7, <1>8 DEF IInv

LEMMA FirstStatementsKeep ==
    ASSUME IInv, Country \/ Governorate \/ NearbyZones PROVE IInv'
<1>1. CASE Country
  <2>1. (reply \in Replies)'
    BY <1>1 DEF Country, IInv, Replies, TypeOK, Tables
  <2>2. pc' = "governorate" \/ (pc' = "done" /\ ~reply'.in_egypt)
    BY <1>1 DEF Country, At, IInv, Replies
  <2>3. TypeOK' /\ Underway'
    BY <1>1, <2>1, StatementKeeps DEF Country
  <2>4. PartsWereTrue'
    BY <2>2 DEF PartsWereTrue, Answered
  <2> QED BY <2>1, <2>3, <2>4 DEF IInv
<1>2. CASE Governorate
  <2>1. PICK g \in IF db.governorates = {} THEN {None} ELSE db.governorates :
           reply' = [reply EXCEPT !.governorate = g]
    BY <1>2 DEF Governorate
  <2>2. g \in Governorates \cup {None}
    BY DEF IInv, TypeOK, Tables
  <2>3. (reply \in Replies)' /\ reply'.governorate = g
    BY <2>1, <2>2 DEF IInv, Replies
  <2>4. TypeOK' /\ Underway'
    BY <1>2, <2>3, StatementKeeps DEF Governorate
  <2>5. pc' = "sites" /\ db' = db /\ db \in history'
    BY <1>2 DEF Governorate, At, Quiet, IInv, Underway
  <2>6. GovernoratePartIsTrueOf(db)'
    BY <2>1, <2>3, <2>5 DEF GovernoratePartIsTrueOf
  <2>7. PartsWereTrue'
    BY <2>5, <2>6 DEF PartsWereTrue, Answered
  <2> QED BY <2>3, <2>4, <2>7 DEF IInv
<1>3. CASE NearbyZones
  <2>1. (reply \in Replies)'
    <3> DEFINE Shown(z) == [zone_type |-> ZoneType[z], severity |-> Severity(ZoneType[z])]
    <3>1. NearZones(db, radius) \in SUBSET Zones
      BY NearIsFinite DEF IInv, TypeOK
    <3>2. reply' = [reply EXCEPT !.zones = {Shown(z) : z \in NearZones(db, radius)}]
      BY <1>3 DEF NearbyZones
    <3>3. {Shown(z) : z \in NearZones(db, radius)} \in SUBSET {Shown(z) : z \in Zones}
      BY <3>1
    <3> HIDE DEF Shown
    <3>4. reply.zones \in SUBSET {Shown(z) : z \in Zones} /\ reply \in Replies
      BY DEF IInv, Replies, Shown
    <3> QED BY <3>2, <3>3, <3>4 DEF Replies, Shown
  <2>2. TypeOK' /\ Underway'
    BY <1>3, <2>1, StatementKeeps DEF NearbyZones
  <2>3. op' = "zones" /\ pc' = "done"
    BY <1>3 DEF NearbyZones, At, Quiet, IInv, Underway
  <2>4. PartsWereTrue'
    BY <2>3 DEF PartsWereTrue, Answered
  <2> QED BY <2>1, <2>2, <2>4 DEF IInv
<1> QED BY <1>1, <1>2, <1>3

\* The statements that find a part find it in the tables of that moment.
LEMMA SitesKeeps == ASSUME IInv, Sites PROVE IInv'
<1> DEFINE S == Near(db, "tourist", radius)
<1>1. PICK rows \in Ordered(S, Distance) :
         reply' = [reply EXCEPT !.at_site = Split(rows).at_site,
                                !.nearby_sites = Split(rows).nearby_sites]
  BY DEF Sites
<1>2. S \in SUBSET Places /\ IsFiniteSet(S) /\ db \in Tables
  BY NearIsFinite DEF IInv, TypeOK
<1> DEFINE a == Split(rows).at_site
           reach == {p \in S : Distance[p] <= AtSite}
           n == Split(rows).nearby_sites
<1> HIDE DEF S
<1>3. /\ a = None <=> reach = {}
      /\ a # None => a \in reach /\ \A p \in reach : Distance[a] <= Distance[p]
      /\ n \in Ordered(S \ {a}, Distance)
  BY <1>1, <1>2, SplitIsRight
<1>4. a \in Places \cup {None} /\ n \in Seq(Places)
  <2>1. IsFiniteSet(S \ {a}) /\ S \ {a} \in SUBSET Places
    BY <1>2, FS_Subset
  <2> QED BY <1>2, <1>3, <2>1, OrderedIsSequence
<1> HIDE DEF a, n
<1>5. reply' \in Replies /\ reply'.at_site = a /\ reply'.nearby_sites = n
  BY <1>1, <1>4 DEF IInv, Replies, a, n
<1>6. TypeOK' /\ Underway'
  BY <1>5, StatementKeeps DEF Sites
<1>7. SitePartIsTrueOf(db)'
  <2>1. Near(db, "tourist", radius)' = S
    BY DEF Sites, Quiet, S
  <2> QED BY <1>3, <1>5, <2>1 DEF SitePartIsTrueOf
<1>8. PartsWereTrue'
  <2>1. /\ pc' = "services" /\ db' \in history' /\ pc = "sites"
        /\ UNCHANGED <<radius, history>>
    BY DEF Sites, At, Quiet, IInv, Underway
  <2>2. PICK d \in history : GovernoratePartIsTrueOf(d)
    BY <2>1 DEF IInv, PartsWereTrue
  <2>3. GovernorateStays
    BY <1>1 DEF GovernorateStays, IInv, Replies
  <2>4. GovernoratePartIsTrueOf(d)'
    BY <2>1, <2>2, <2>3, TrueOfStays
  <2> QED BY <1>7, <2>1, <2>2, <2>4 DEF PartsWereTrue, Answered
<1> QED BY <1>5, <1>6, <1>8 DEF IInv

LEMMA ServicesKeeps == ASSUME IInv, Services PROVE IInv'
<1>1. PICK rows \in Ordered(Near(db, "infrastructure", radius), Distance) :
         reply' = [reply EXCEPT !.nearby_services = rows]
  BY DEF Services
<1>2. rows \in Seq(Places)
  BY NearIsFinite, OrderedIsSequence DEF IInv, TypeOK
<1>3. /\ reply' \in Replies /\ reply'.nearby_services = rows
      /\ SitePartStays /\ GovernorateStays
  BY <1>1, <1>2 DEF IInv, Replies, SitePartStays, GovernorateStays
<1>4. /\ TypeOK' /\ Underway' /\ UNCHANGED <<db, radius, history>>
      /\ pc = "services" /\ pc' = "advisories" /\ db \in history
  BY <1>3, StatementKeeps DEF Services, At, Quiet, IInv, Underway
<1>5. ServicesAreTrueOf(db)'
  BY <1>3, <1>4 DEF ServicesAreTrueOf, Near, Within
<1>6. (\E d \in history : SitePartIsTrueOf(d)) /\ (\E d \in history : GovernoratePartIsTrueOf(d))
  BY <1>4 DEF IInv, PartsWereTrue
<1>7. /\ \E d \in history : SitePartIsTrueOf(d)'
      /\ \E d \in history : GovernoratePartIsTrueOf(d)'
  BY <1>3, <1>4, <1>6, TrueOfStays
<1>8. PartsWereTrue'
  BY <1>4, <1>5, <1>7 DEF PartsWereTrue, Answered
<1> QED BY <1>3, <1>4, <1>8 DEF IInv

LEMMA AdvisoriesKeeps == ASSUME IInv, Advisories PROVE IInv'
<1>1. reply' = [reply EXCEPT !.area_advisories = Covering(db)] /\ Covering(db) \in SUBSET Zones
  BY NearIsFinite DEF Advisories, IInv, TypeOK
<1>2. /\ reply' \in Replies /\ reply'.area_advisories = Covering(db)
      /\ SitePartStays /\ ServicePartStays /\ GovernorateStays
  BY <1>1 DEF IInv, Replies, SitePartStays, ServicePartStays, GovernorateStays
<1>3. /\ TypeOK' /\ Underway' /\ UNCHANGED <<db, radius, history>>
      /\ pc = "advisories" /\ pc' = "guidance" /\ db \in history
  BY <1>2, StatementKeeps DEF Advisories, At, Quiet, IInv, Underway
<1>4. AdvisoriesAreTrueOf(db)'
  BY <1>2, <1>3 DEF AdvisoriesAreTrueOf, Covering
<1>5. /\ \E d \in history : SitePartIsTrueOf(d)
      /\ \E d \in history : ServicesAreTrueOf(d)
      /\ \E d \in history : GovernoratePartIsTrueOf(d)
  BY <1>3 DEF IInv, PartsWereTrue
<1>6. /\ \E d \in history : SitePartIsTrueOf(d)'
      /\ \E d \in history : ServicesAreTrueOf(d)'
      /\ \E d \in history : GovernoratePartIsTrueOf(d)'
  BY <1>2, <1>3, <1>5, TrueOfStays
<1>7. PartsWereTrue'
  BY <1>3, <1>4, <1>6 DEF PartsWereTrue, Answered
<1> QED BY <1>2, <1>3, <1>7 DEF IInv

LEMMA GuidanceKeeps == ASSUME IInv, Guidance PROVE IInv'
<1> DEFINE S == NearZones(db, radius)
<1>1. PICK rows \in Ordered(S, ZoneDistance) :
         reply' = [reply EXCEPT !.guidance = SubSeq(rows, 1, PyMin(Len(rows), GuideLimit))]
  BY DEF Guidance
<1>2. S \in SUBSET Zones
  BY NearIsFinite DEF IInv, TypeOK
<1> HIDE DEF S
<1>3. PICK q : q = SubSeq(rows, 1, PyMin(Len(rows), GuideLimit))
  OBVIOUS
<1>4. GuideOf(q, S)
  BY <1>1, <1>2, <1>3, LimitIsRight
<1>5. reply' = [reply EXCEPT !.guidance = q] /\ At("guidance", "done") /\ Quiet
  BY <1>1, <1>3 DEF Guidance
<1>6. /\ reply' \in Replies /\ reply'.guidance = q
      /\ SitePartStays /\ ServicePartStays /\ AdvisoryPartStays /\ GovernorateStays
  <2>1. q \in Seq(Zones)
    BY <1>2, <1>4 DEF GuideOf
  <2> QED
    BY <1>5, <2>1 DEF IInv, Replies, SitePartStays, ServicePartStays, AdvisoryPartStays,
                        GovernorateStays
<1>7. /\ TypeOK' /\ Underway' /\ UNCHANGED <<db, radius, history>>
      /\ pc = "guidance" /\ pc' = "done" /\ db \in history
  BY <1>5, <1>6, StatementKeeps DEF At, Quiet, IInv, Underway
<1>8. GuidancePartIsTrueOf(db)'
  <2>1. NearZones(db, radius)' = S
    BY <1>7 DEF S
  <2> QED BY <1>4, <1>6, <2>1 DEF GuideOf, GuidancePartIsTrueOf
<1>9. /\ \E d \in history : SitePartIsTrueOf(d)
      /\ \E d \in history : ServicesAreTrueOf(d)
      /\ \E d \in history : AdvisoriesAreTrueOf(d)
      /\ \E d \in history : GovernoratePartIsTrueOf(d)
  BY <1>7 DEF IInv, PartsWereTrue
<1>10. /\ \E d \in history : SitePartIsTrueOf(d)'
       /\ \E d \in history : ServicesAreTrueOf(d)'
       /\ \E d \in history : AdvisoriesAreTrueOf(d)'
       /\ \E d \in history : GovernoratePartIsTrueOf(d)'
  BY <1>6, <1>7, <1>9, TrueOfStays
<1>11. PartsWereTrue'
  BY <1>7, <1>8, <1>10 DEF PartsWereTrue
<1> QED BY <1>6, <1>7, <1>11 DEF IInv

\* A write adds to the tables that were there.
LEMMA WriteKeeps == ASSUME IInv, Write PROVE IInv'
<1>1. /\ writes' = writes + 1 /\ writes < MaxWrites
      /\ history' = history \cup {db'} /\ UNCHANGED <<pc, op, radius, reply>>
  BY DEF Write
<1>2. db' \in Tables
  <2>1. db \in Tables
    BY DEF IInv, TypeOK
  <2>2. CASE \E p \in Places, k \in Kinds : db' = [db EXCEPT !.kind[p] = k]
    BY <2>1, <2>2 DEF Tables
  <2>3. CASE \E z \in Zones : db' = [db EXCEPT !.zones = SymDiff(@, {z})]
    BY <2>1, <2>3 DEF Tables, SymDiff
  <2>4. CASE db' = [db EXCEPT !.country = ~@]
    BY <2>1, <2>4 DEF Tables
  <2>5. CASE \E g \in Governorates : db' = [db EXCEPT !.governorates = SymDiff(@, {g})]
    BY <2>1, <2>5 DEF Tables, SymDiff
  <2> QED BY <2>2, <2>3, <2>4, <2>5 DEF Write
<1>3. TypeOK'
  <2>1. writes' \in 0..MaxWrites
    BY <1>1, SettingsAssumption DEF IInv, TypeOK
  <2> QED BY <1>1, <1>2, <2>1 DEF IInv, TypeOK
<1>4. Underway'
  BY <1>1, FS_AddElement DEF IInv, Underway
<1>5. /\ SitePartStays /\ ServicePartStays /\ AdvisoryPartStays /\ GovernorateStays
      /\ reply'.guidance = reply.guidance /\ Answered' = Answered
  BY <1>1 DEF SitePartStays, ServicePartStays, AdvisoryPartStays, GovernorateStays, Answered
<1>6. \A d : /\ SitePartIsTrueOf(d)' = SitePartIsTrueOf(d)
             /\ ServicesAreTrueOf(d)' = ServicesAreTrueOf(d)
             /\ AdvisoriesAreTrueOf(d)' = AdvisoriesAreTrueOf(d)
             /\ GuidancePartIsTrueOf(d)' = GuidancePartIsTrueOf(d)
             /\ GovernoratePartIsTrueOf(d)' = GovernoratePartIsTrueOf(d)
  BY <1>1, <1>5, TrueOfStays
<1>7. PartsWereTrue'
  BY <1>1, <1>5, <1>6 DEF IInv, PartsWereTrue
<1> QED BY <1>1, <1>3, <1>4, <1>7 DEF IInv

LEMMA Invariance == Spec => []IInv
<1>1. Init => IInv
  <2> SUFFICES ASSUME Init PROVE IInv
    OBVIOUS
  <2>1. reply \in Replies
    <3>1. <<>> \in Seq(Places) /\ <<>> \in Seq(Zones)
      OBVIOUS
    <3> QED BY <3>1 DEF Init, NoReply, Replies
  <2>2. TypeOK
    <3>1. 0 \in 0..MaxWrites
      BY SettingsAssumption
    <3> QED BY <2>1, <3>1, RepliesAreTyped DEF Init, TypeOK
  <2>3. Underway /\ PartsWereTrue
    BY FS_EmptySet DEF Init, Underway, PartsWereTrue, Answered
  <2> QED BY <2>1, <2>2, <2>3 DEF IInv
<1>2. IInv /\ [Next]_vars => IInv'
  <2>1. IInv /\ UNCHANGED vars => IInv'
    <3> SUFFICES ASSUME IInv, UNCHANGED vars PROVE IInv'
      OBVIOUS
    <3>1. \A d : /\ SitePartIsTrueOf(d)' = SitePartIsTrueOf(d)
                 /\ ServicesAreTrueOf(d)' = ServicesAreTrueOf(d)
                 /\ AdvisoriesAreTrueOf(d)' = AdvisoriesAreTrueOf(d)
                 /\ GuidancePartIsTrueOf(d)' = GuidancePartIsTrueOf(d)
                 /\ GovernoratePartIsTrueOf(d)' = GovernoratePartIsTrueOf(d)
      BY TrueOfStays DEF vars, SitePartStays, ServicePartStays, AdvisoryPartStays,
                         GovernorateStays
    <3>2. PartsWereTrue'
      BY <3>1 DEF vars, IInv, PartsWereTrue, Answered
    <3> QED BY <3>2 DEF vars, IInv, TypeOK, Underway
  <2> QED
    BY <2>1, BeginKeeps, FirstStatementsKeep, SitesKeeps, ServicesKeeps, AdvisoriesKeeps,
       GuidanceKeeps, WriteKeeps
    DEF Next
<1> QED BY <1>1, <1>2, PTL DEF Spec

-----------------------------------------------------------------------------
\* Every variable and every part of the reply keeps its type, for any places, zones,
\* distances and radii, NaN included.
THEOREM TypeCorrect == Spec => []TypeOK
<1>1. IInv => TypeOK
  BY DEF IInv
<1> QED BY <1>1, Invariance, PTL

\* Each part of a reply was true of the tables at some moment of the request, however
\* many rows are equally near and whatever is written between the statements.
THEOREM EveryPartWasTrue == Spec => []EachPartWasTrue
<1>1. IInv => EachPartWasTrue
  BY DEF IInv, PartsWereTrue, EachPartWasTrue, ServicesAreTrueOf, AdvisoriesAreTrueOf
<1> QED BY <1>1, Invariance, PTL

\* Without writes the parts are true of the same tables, and so agree: no site is in
\* two lists, and who is advised of a zone within the radius is guided to it as well,
\* or to as many zones as the list holds, none of them farther.
THEOREM QuietRepliesAgree == Spec => []QuietReplyIsConsistent
<1>1. IInv => QuietReplyIsConsistent
  <2>1. SUFFICES ASSUME IInv, Answered, Cardinality(history) = 1
                 PROVE  /\ Range(reply.nearby_services)
                             \cap (Range(reply.nearby_sites) \cup {reply.at_site}) = {}
                        /\ \A z \in reply.area_advisories \ Range(reply.guidance) :
                             Within(ZoneDistance[z], radius) =>
                               /\ Len(reply.guidance) = GuideLimit
                               /\ \A i \in DOMAIN reply.guidance :
                                    ZoneDistance[reply.guidance[i]] <= ZoneDistance[z]
    BY DEF QuietReplyIsConsistent
  <2>2. PICK d : history = {d}
    BY <2>1, FS_Singleton DEF IInv, Underway
  <2>3. /\ SitePartIsTrueOf(d) /\ ServicesAreTrueOf(d)
        /\ AdvisoriesAreTrueOf(d) /\ GuidancePartIsTrueOf(d) /\ d \in Tables
    BY <2>1, <2>2 DEF IInv, TypeOK, PartsWereTrue
  <2>4. Range(reply.nearby_services) \subseteq Near(d, "infrastructure", radius)
    BY <2>3 DEF ServicesAreTrueOf, Ordered, Range
  <2>5. Range(reply.nearby_sites) \subseteq Near(d, "tourist", radius)
    BY <2>3 DEF SitePartIsTrueOf, Ordered, Range
  <2>6. reply.at_site = None \/ reply.at_site \in Near(d, "tourist", radius)
    BY <2>3 DEF SitePartIsTrueOf
  <2>7. Near(d, "infrastructure", radius) \cap (Near(d, "tourist", radius) \cup {None}) = {}
    BY SettingsAssumption DEF Near
  <2>8. ASSUME NEW z \in reply.area_advisories \ Range(reply.guidance),
               Within(ZoneDistance[z], radius)
        PROVE  /\ Len(reply.guidance) = GuideLimit
               /\ \A i \in DOMAIN reply.guidance :
                    ZoneDistance[reply.guidance[i]] <= ZoneDistance[z]
    <3> DEFINE S == NearZones(d, radius)
    <3>1. z \in S /\ z \notin Range(reply.guidance)
      BY <2>3, <2>8 DEF AdvisoriesAreTrueOf, Covering, NearZones
    <3>2. S \in SUBSET Zones /\ reply.guidance \in Seq(Zones)
      BY <2>1, <2>3 DEF NearZones, Tables, IInv, Replies
    <3>3. GuideOf(reply.guidance, S)
      BY <2>3, <3>2 DEF GuidancePartIsTrueOf, GuideOf
    <3> HIDE DEF S
    <3> QED BY <3>1, <3>2, <3>3, LeftOutOfFullList DEF GuideOf
  <2> QED BY <2>4, <2>5, <2>6, <2>7, <2>8
<1> QED BY <1>1, Invariance, PTL
=============================================================================
