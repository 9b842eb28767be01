------------------------ MODULE IndexerConfig_proofs ------------------------
(***************************************************************************)
(* What IndexerConfig promises of the listings of a run, for all contract  *)
(* numbers and all limits that pointers may carry.                         *)
(***************************************************************************)
EXTENDS IndexerConfig, TLAPS

Places == [kind : {"pointer"}, limit : 1..100, op : {"gt", "gte"}, from : Nat]

EnvType ==
    /\ startingPoint \in StartingPoints
    /\ scanLimit \in ScanLimits
    /\ stored \in {None} \cup Places

\* A run goes on with a valid configuration only.
OnlyValid == pc \in {"valid", "list"} => Valid

\* Until the first listing the place of the loop is where the configuration
\* says; a listing is never taken for none.
Placed ==
    /\ pc \in {"new", "valid"} => requested = None
    /\ pc = "list" => next \in {None} \cup Places
    /\ pc = "list" /\ requested = None => next = Resolved

IInv == EnvType /\ OnlyValid /\ Placed

-----------------------------------------------------------------------------
LEMMA PointersArePlaces == Pointers \subseteq Places
BY ConfigAssumption DEF Pointers, Places, Pointer

\* What an accepted starting point resolves to.
LEMMA ResolvedType ==
    ASSUME EnvType, Valid
    PROVE  /\ Resolved \in {None} \cup Places
           /\ startingPoint # None =>
                /\ Resolved \in Places /\ Resolved.op = "gte"
                /\ Resolved.from = startingPoint.from
           /\ startingPoint = None => Resolved = stored
<1>1. CASE startingPoint = None
  <2>1. startingPoint.kind = "none"
    BY <1>1 DEF None
  <2> QED BY <1>1, <2>1 DEF Resolved, IsListPointer, EnvType
<1>2. CASE startingPoint # None
  <2>1. MatchesStartingPoint(startingPoint)
    BY <1>2 DEF Valid
  <2>2. CASE IsListPointer(startingPoint)
    <3>1. startingPoint \in Places
      <4>1. startingPoint \in Pointers
        BY <2>2, <1>2 DEF EnvType, StartingPoints, IsListPointer
      <4> QED BY <4>1, PointersArePlaces
    <3> QED BY <1>2, <2>2, <3>1 DEF Resolved, IsListPointer
  <2>3. CASE ~IsListPointer(startingPoint)
    <3>1. startingPoint.kind \in {"id", "address"}
      BY <2>1, <2>3 DEF MatchesStartingPoint
    <3>2. startingPoint.from \in Nat
      <4>1. startingPoint \notin Pointers
        BY <3>1 DEF Pointers, Pointer
      <4>2. \E k \in {"id", "address"}, n \in Numbers :
               startingPoint = [kind |-> k, from |-> n]
        BY <1>2, <3>1, <4>1 DEF EnvType, StartingPoints
      <4> QED BY <4>2, ConfigAssumption
    <3>3. Resolved = StartAt(startingPoint.from)
      BY <2>3, <3>1 DEF Resolved
    <3> QED BY <1>2, <3>2, <3>3 DEF StartAt, Pointer, Places
  <2> QED BY <2>2, <2>3
<1> QED BY <1>1, <1>2

\* The URL of a listing: the size that is configured, from the place given.
LEMMA UrlOfPlace ==
    ASSUME EnvType, NEW place \in {None} \cup Places
    PROVE  /\ BuildUrl(place).kind = "query" /\ BuildUrl(place).limit = scanLimit
           /\ place = None => BuildUrl(place).op = "none"
           /\ place # None => /\ BuildUrl(place).op = place.op
                              /\ BuildUrl(place).from = place.from
BY DEF BuildUrl, Pointer, Places

-----------------------------------------------------------------------------
LEMMA InitIInv == Init => IInv
<1> SUFFICES ASSUME Init PROVE IInv OBVIOUS
<1>1. stored \in {None} \cup Places
  BY PointersArePlaces DEF Init, NodePointers
<1> QED BY <1>1 DEF Init, IInv, EnvType, OnlyValid, Placed

LEMMA ListStep == IInv /\ List => IInv'
<1> SUFFICES ASSUME IInv, List PROVE IInv' OBVIOUS
<1>1. EnvType' /\ OnlyValid'
  BY DEF IInv, List, env, EnvType, OnlyValid, Valid, ValidLimit
<1>2. /\ requested' = BuildUrl(next) /\ next \in {None} \cup Places
      /\ scanLimit \in 1..100
  BY DEF IInv, List, Placed, OnlyValid, Valid, ValidLimit
<1>3. requested'.kind = "query" /\ requested'.limit \in 1..100
  BY <1>2, UrlOfPlace DEF IInv
<1>4. requested' # None
  BY <1>3 DEF None
<1>5. next' \in {None} \cup Places
  <2>1. ASSUME NEW n \in Numbers, next' = Pointer(requested'.limit, "gt", n)
        PROVE  next' \in Places
    BY <1>3, <2>1, ConfigAssumption DEF Pointer, Places
  <2> QED BY <2>1 DEF List
<1>6. pc' \in {"list", "stopped"}
  BY DEF List
<1> QED BY <1>1, <1>4, <1>5, <1>6 DEF IInv, Placed

LEMMA NextIInv == IInv /\ [Next]_vars => IInv'
<1> SUFFICES ASSUME IInv, [Next]_vars PROVE IInv' OBVIOUS
<1>1. CASE Validate
  BY <1>1 DEF IInv, Validate, env, EnvType, OnlyValid, Placed, Valid, ValidLimit
<1>2. CASE Resolve
  <2>1. EnvType' /\ OnlyValid'
    BY <1>2 DEF IInv, Resolve, env, EnvType, OnlyValid, Valid, ValidLimit
  <2>2. Resolved' = Resolved
    BY <1>2 DEF Resolve, env, Resolved
  <2>3. Resolved \in {None} \cup Places
    BY <1>2, ResolvedType DEF IInv, OnlyValid, Resolve
  <2> QED BY <1>2, <2>1, <2>2, <2>3 DEF IInv, Placed, Resolve
<1>3. CASE NotFound
  BY <1>3 DEF IInv, NotFound, env, EnvType, OnlyValid, Placed
<1>4. CASE List BY <1>4, ListStep
<1>5. CASE UNCHANGED vars
  BY <1>5 DEF vars, env, IInv, EnvType, OnlyValid, Placed, Valid, ValidLimit, Resolved
<1> QED BY <1>1, <1>2, <1>3, <1>4, <1>5 DEF Next, Stopped

LEMMA Invariance == Spec => []IInv
BY InitIInv, NextIInv, PTL DEF Spec

\* Every listing of every run has the configured size, and the first one begins
\* where STARTING_POINT, or else the stored pointer, or else nothing says.
THEOREM ListingsAsConfigured == Spec => ListsAsConfigured
<1> DEFINE Listed ==
      pc = "list" =>
         /\ requested'.limit = scanLimit /\ scanLimit \in 1..100
         /\ requested = None =>
              IF startingPoint # None
              THEN requested'.op = "gte" /\ requested'.from = startingPoint.from
              ELSE IF stored # None
              THEN requested'.op = stored.op /\ requested'.from = stored.from
              ELSE requested'.op = "none"
<1>1. IInv /\ [Next]_vars => [Listed]_vars
  <2> SUFFICES ASSUME IInv, Next, pc = "list" PROVE Listed OBVIOUS
  <2>1. List
    BY DEF Next, Validate, Resolve, NotFound, Stopped
  <2>2. /\ requested' = BuildUrl(next) /\ Valid /\ EnvType
        /\ next \in {None} \cup Places
        /\ requested = None => next = Resolved
    BY <2>1 DEF IInv, OnlyValid, Placed, List
  <2>3. requested'.limit = scanLimit /\ scanLimit \in 1..100
    BY <2>2, UrlOfPlace DEF Valid, ValidLimit
  <2>4. ASSUME requested = None, startingPoint # None
        PROVE  requested'.op = "gte" /\ requested'.from = startingPoint.from
    <3>1. next \in Places /\ next.op = "gte" /\ next.from = startingPoint.from
      BY <2>2, <2>4, ResolvedType
    <3>2. next # None
      BY <3>1 DEF Places, None
    <3> QED BY <2>2, <3>1, <3>2, UrlOfPlace
  <2>5. ASSUME requested = None, startingPoint = None
        PROVE  next = stored
    BY <2>2, <2>5, ResolvedType
  <2> QED BY <2>2, <2>3, <2>4, <2>5, UrlOfPlace
<1> QED BY <1>1, Invariance, PTL DEF Spec, ListsAsConfigured
=============================================================================
