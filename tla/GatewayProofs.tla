--------------------------- MODULE GatewayProofs ---------------------------
(***************************************************************************)
(* Theorems about the gateway, for any configurations, requests and        *)
(* limits.                                                                 *)
(***************************************************************************)
EXTENDS Gateway, FiniteSetTheorems, WellFoundedInduction, TLAPS

-----------------------------------------------------------------------------
(* The index finds the most specific route. *)

LEMMA HasGreatest ==
  ASSUME NEW S, IsFiniteSet(S), S # {}, NEW f, \A x \in S : f[x] \in Int
  PROVE  \E m \in S : \A y \in S : f[m] >= f[y]
<1> DEFINE Best(T) == \E m \in T : \A y \in T : f[m] >= f[y]
           Bad == {T \in FiniteSubsetsOf(S) : T # {} /\ ~Best(T)}
<1>1. ASSUME Bad # {} PROVE FALSE
  <2>1. PICK T \in Bad : \A U \in Bad : <<U, T>> \notin StrictSubsetOrdering(S)
    BY <1>1, FS_StrictSubsetOrderingWellFounded, WFMin, Bad \subseteq FiniteSubsetsOf(S)
  <2>2. PICK x \in T : TRUE
    OBVIOUS
  <2>3. T \subseteq S /\ IsFiniteSet(T \ {x}) /\ T \ {x} # T /\ T \ {x} \subseteq T
    BY <2>2, FS_RemoveElement DEF FiniteSubsetsOf
  <2>4. T \ {x} \notin Bad
    BY <2>1, <2>3 DEF StrictSubsetOrdering
  <2>5. CASE T \ {x} = {}
    <3>1. \A y \in T : y = x
      BY <2>5
    <3>2. f[x] >= f[x]
      BY <2>3, <2>2
    <3> QED BY <3>1, <3>2, <2>2, <2>1
  <2>6. CASE T \ {x} # {}
    <3>1. Best(T \ {x})
      BY <2>3, <2>4, <2>6 DEF FiniteSubsetsOf
    <3>2. PICK m \in T \ {x} : \A y \in T \ {x} : f[m] >= f[y]
      BY <3>1
    <3>3. f[m] \in Int /\ f[x] \in Int /\ \A y \in T : f[y] \in Int
      BY <2>2, <2>3, <3>2
    <3>4. \/ \A y \in T : f[m] >= f[y]
          \/ \A y \in T : f[x] >= f[y]
      BY <3>2, <3>3
    <3> QED BY <3>4, <3>2, <2>2, <2>1
  <2> QED BY <2>5, <2>6
<1>2. S \in FiniteSubsetsOf(S)
  BY DEF FiniteSubsetsOf
<1> QED BY <1>1, <1>2

LEMMA RouteTyped ==
  ASSUME NEW c \in Confs
  PROVE  /\ IsFiniteSet(DOMAIN Routes(c)) /\ DOMAIN Routes(c) \subseteq Nat \ {0}
         /\ \A i \in DOMAIN Routes(c) :
              /\ Routes(c)[i].id \in Ids /\ Routes(c)[i].port \in Nat
              /\ Len(Routes(c)[i].host) \in Nat /\ Len(Routes(c)[i].prefix) \in Nat
         /\ Enabled(c) \subseteq DOMAIN Routes(c)
<1>1. IsFiniteSet(1 .. Len(Routes(c)))
  BY GatewayAssumption, FS_Interval
<1> QED BY <1>1, GatewayAssumption DEF Enabled, Validated

LEMMA PickIsBest ==
  ASSUME NEW c \in Confs, NEW S, S \subseteq DOMAIN Routes(c), S # {}
  PROVE  /\ Pick(c, S) \in S
         /\ \A j \in S :
              \/ Len(Routes(c)[Pick(c, S)].prefix) > Len(Routes(c)[j].prefix)
              \/ /\ Len(Routes(c)[Pick(c, S)].prefix) = Len(Routes(c)[j].prefix)
                 /\ Pick(c, S) <= j
<1> DEFINE f == [i \in S |-> Len(Routes(c)[i].prefix)]
<1>1. IsFiniteSet(S) /\ \A i \in S : f[i] \in Int /\ i \in Nat /\ f[i] = Len(Routes(c)[i].prefix)
  BY RouteTyped, FS_Subset
<1> HIDE DEF f
<1>2. PICK m \in S : \A y \in S : f[m] >= f[y]
  BY <1>1, HasGreatest
<1> DEFINE T == {i \in S : f[i] = f[m]}
           g == [i \in T |-> -i]
<1>3. T # {} /\ IsFiniteSet(T) /\ \A i \in T : g[i] \in Int /\ g[i] = -i
  BY <1>1, <1>2, FS_Subset
<1> HIDE DEF g
<1>4. PICK k \in T : \A y \in T : g[k] >= g[y]
  BY <1>3, HasGreatest
<1>5. \A j \in S : f[k] > f[j] \/ (f[k] = f[j] /\ k <= j)
  BY <1>1, <1>2, <1>3, <1>4
<1>6. \E i \in S : \A j \in S :
        LET p == Len(Routes(c)[i].prefix)
            o == Len(Routes(c)[j].prefix)
        IN p > o \/ (p = o /\ i <= j)
  BY <1>1, <1>4, <1>5
<1> QED BY <1>6 DEF Pick

(* How a route fits a host, and what makes it more specific. *)
Suits(c, i, host, path) ==
  /\ PathMatch(c, i, path)
  /\ Exact(c, i, host) \/ Wildcard(c, i, host) \/ AnyHost(c, i)

Kind(c, i) == IF AnyHost(c, i) THEN 0 ELSE IF Routes(c)[i].wild THEN 1 ELSE 2

Further(c, j, i) ==
  LET h(n) == Len(Routes(c)[n].host)
      p(n) == Len(Routes(c)[n].prefix)
  IN \/ Kind(c, j) > Kind(c, i)
     \/ Kind(c, j) = Kind(c, i) /\ h(j) > h(i)
     \/ Kind(c, j) = Kind(c, i) /\ h(j) = h(i) /\ p(j) > p(i)
     \/ Kind(c, j) = Kind(c, i) /\ h(j) = h(i) /\ p(j) = p(i) /\ j < i

LEMMA OutranksMeans ==
  ASSUME NEW c \in Confs, NEW i \in DOMAIN Routes(c), NEW j \in DOMAIN Routes(c),
         Outranks(Rank(c, j), Rank(c, i))
  PROVE  \/ Routes(c)[i].port = 0 /\ Routes(c)[j].port # 0
         \/ (Routes(c)[i].port = 0 <=> Routes(c)[j].port = 0) /\ Further(c, j, i)
<1> DEFINE a == Rank(c, j)
           b == Rank(c, i)
           P(n) == IF Routes(c)[n].port = 0 THEN 0 ELSE 1
<1>1. /\ a[1] = P(j) /\ a[2] = Kind(c, j) /\ a[3] = Len(Routes(c)[j].host)
      /\ a[4] = Len(Routes(c)[j].prefix) /\ a[5] = -j /\ DOMAIN a = 1 .. 5
      /\ b[1] = P(i) /\ b[2] = Kind(c, i) /\ b[3] = Len(Routes(c)[i].host)
      /\ b[4] = Len(Routes(c)[i].prefix) /\ b[5] = -i
  BY DEF Rank, Kind
<1>2. i \in Nat /\ j \in Nat
  BY RouteTyped
<1>3. P(i) \in {0, 1} /\ P(j) \in {0, 1}
  OBVIOUS
<1> HIDE DEF a, b
<1>4. PICK n \in 1 .. 5 : a[n] > b[n] /\ \A m \in 1 .. n - 1 : a[m] = b[m]
  BY <1>1 DEF Outranks, a, b
<1>5. CASE n = 1
  BY <1>1, <1>3, <1>4, <1>5
<1>6. CASE n # 1
  <2>1. P(j) = P(i)
    BY <1>1, <1>4, <1>6
  <2>2. n # 2 => Kind(c, j) = Kind(c, i)
    BY <1>1, <1>4, <1>6
  <2>3. n \notin {2, 3} => Len(Routes(c)[j].host) = Len(Routes(c)[i].host)
    BY <1>1, <1>4, <1>6
  <2>4. n = 5 => Len(Routes(c)[j].prefix) = Len(Routes(c)[i].prefix)
    BY <1>1, <1>4
  <2>5. /\ n = 2 => Kind(c, j) > Kind(c, i)
        /\ n = 3 => Len(Routes(c)[j].host) > Len(Routes(c)[i].host)
        /\ n = 4 => Len(Routes(c)[j].prefix) > Len(Routes(c)[i].prefix)
        /\ n = 5 => -j > -i
    BY <1>1, <1>4
  <2>6. n \in {2, 3, 4, 5} /\ (n = 5 => j < i)
    BY <1>2, <1>6, <2>5
  <2>7. Further(c, j, i)
    BY <2>2, <2>3, <2>4, <2>5, <2>6 DEF Further
  <2> QED BY <2>1, <2>7
<1> QED BY <1>5, <1>6

LEMMA MatchHostIsBest ==
  ASSUME NEW c \in Confs, NEW S, S \subseteq DOMAIN Routes(c), NEW host, NEW path
  PROVE  LET i == MatchHost(c, S, host, path)
         IN /\ i = 0 => \A j \in S : ~Suits(c, j, host, path)
            /\ i # 0 => /\ i \in S /\ Suits(c, i, host, path)
                        /\ \A j \in S : Suits(c, j, host, path) => ~Further(c, j, i)
<1> DEFINE i == MatchHost(c, S, host, path)
           here == {j \in S : PathMatch(c, j, path)}
           exact == {j \in here : Exact(c, j, host)}
           wild == {j \in here : Wildcard(c, j, host)}
           longest == {j \in wild : \A k \in wild :
                         Len(Routes(c)[j].host) >= Len(Routes(c)[k].host)}
           any == {j \in here : AnyHost(c, j)}
<1>1. i = CASE exact # {} -> Pick(c, exact)
            [] exact = {} /\ wild # {} -> Pick(c, longest)
            [] exact = {} /\ wild = {} /\ any # {} -> Pick(c, any)
            [] OTHER -> 0
  BY DEF MatchHost
<1>2. \A j \in S : /\ j # 0 /\ j \in Nat
                   /\ Len(Routes(c)[j].host) \in Nat /\ Len(Routes(c)[j].prefix) \in Nat
  BY RouteTyped
<1>3. \A j \in S : Suits(c, j, host, path) <=> j \in exact \cup wild \cup any
  BY DEF Suits
<1>4. /\ \A j \in exact : Kind(c, j) = 2 /\ Routes(c)[j].host = host
      /\ \A j \in wild : Kind(c, j) = 1
      /\ \A j \in any : Kind(c, j) = 0 /\ Routes(c)[j].host = <<>>
  BY DEF Exact, Wildcard, AnyHost, Kind
<1>5. CASE exact # {}
  <2>1. i = Pick(c, exact)
    BY <1>1, <1>5
  <2>2. /\ i \in exact
        /\ \A j \in exact :
             \/ Len(Routes(c)[i].prefix) > Len(Routes(c)[j].prefix)
             \/ Len(Routes(c)[i].prefix) = Len(Routes(c)[j].prefix) /\ i <= j
    BY <2>1, <1>5, PickIsBest
  <2> HIDE DEF i, exact, wild, any
  <2>3. i \in S /\ i # 0 /\ Suits(c, i, host, path)
    BY <2>2, <1>2, <1>3 DEF exact
  <2>4. ASSUME NEW j \in S, Suits(c, j, host, path) PROVE ~Further(c, j, i)
    BY <2>2, <2>3, <2>4, <1>2, <1>3, <1>4 DEF Further
  <2> QED BY <2>3, <2>4 DEF i
<1>6. CASE exact = {} /\ wild # {}
  <2>1. i = Pick(c, longest)
    BY <1>1, <1>6
  <2>2. longest # {}
    <3> DEFINE f == [j \in wild |-> Len(Routes(c)[j].host)]
    <3>1. IsFiniteSet(wild) /\ \A j \in wild : f[j] \in Int /\ f[j] = Len(Routes(c)[j].host)
      BY RouteTyped, FS_Subset
    <3> HIDE DEF f
    <3>2. PICK m \in wild : \A y \in wild : f[m] >= f[y]
      BY <3>1, <1>6, HasGreatest
    <3> QED BY <3>1, <3>2
  <2>3. /\ i \in longest
        /\ \A j \in longest :
             \/ Len(Routes(c)[i].prefix) > Len(Routes(c)[j].prefix)
             \/ Len(Routes(c)[i].prefix) = Len(Routes(c)[j].prefix) /\ i <= j
    <3>1. longest \subseteq DOMAIN Routes(c)
      OBVIOUS
    <3> HIDE DEF i, longest
    <3> QED BY <2>1, <2>2, <3>1, PickIsBest
  <2>4. /\ i \in wild
        /\ \A j \in wild : Len(Routes(c)[i].host) >= Len(Routes(c)[j].host)
        /\ \A j \in wild : Len(Routes(c)[i].host) = Len(Routes(c)[j].host) => j \in longest
    BY <2>3
  <2> HIDE DEF i, exact, wild, any, longest
  <2>5. i \in S /\ i # 0 /\ Suits(c, i, host, path)
    BY <2>4, <1>2, <1>3 DEF wild
  <2>6. ASSUME NEW j \in S, Suits(c, j, host, path) PROVE ~Further(c, j, i)
    <3>1. j \in wild \/ j \in any
      BY <1>3, <1>6, <2>6
    <3>2. CASE j \in any
      BY <3>2, <2>4, <1>4 DEF Further
    <3>3. CASE j \in wild
      BY <3>3, <2>3, <2>4, <2>5, <1>2, <1>4 DEF Further
    <3> QED BY <3>1, <3>2, <3>3
  <2> QED BY <2>5, <2>6 DEF i
<1>7. CASE exact = {} /\ wild = {} /\ any # {}
  <2>1. i = Pick(c, any)
    BY <1>1, <1>7
  <2>2. /\ i \in any
        /\ \A j \in any :
             \/ Len(Routes(c)[i].prefix) > Len(Routes(c)[j].prefix)
             \/ Len(Routes(c)[i].prefix) = Len(Routes(c)[j].prefix) /\ i <= j
    BY <2>1, <1>7, PickIsBest
  <2> HIDE DEF i, exact, wild, any
  <2>3. i \in S /\ i # 0 /\ Suits(c, i, host, path)
    BY <2>2, <1>2, <1>3 DEF any
  <2>4. ASSUME NEW j \in S, Suits(c, j, host, path) PROVE ~Further(c, j, i)
    BY <2>2, <2>3, <2>4, <1>2, <1>3, <1>4, <1>7 DEF Further
  <2> QED BY <2>3, <2>4 DEF i
<1>8. CASE exact = {} /\ wild = {} /\ any = {}
  <2>1. i = 0
    BY <1>1, <1>8
  <2> QED BY <2>1, <1>3, <1>8
<1> QED BY <1>5, <1>6, <1>7, <1>8

(* Match finds a route that fits, and none that fits outranks it. *)
LEMMA MatchIsBest ==
  ASSUME NEW c \in Confs, NEW x, NEW i,
         i = Match(c, x.port, HostOf[x.host], x.path), i # 0
  PROVE  /\ i \in Enabled(c) /\ Fits(c, i, x)
         /\ \A j \in DOMAIN Routes(c) : Fits(c, j, x) => ~Outranks(Rank(c, j), Rank(c, i))
<1> DEFINE host == HostOf[x.host]
           specific == MatchHost(c, OfPort(c, x.port), host, x.path)
           global == MatchHost(c, OfPort(c, 0), host, x.path)
<1>1. /\ OfPort(c, x.port) \subseteq DOMAIN Routes(c) /\ OfPort(c, 0) \subseteq DOMAIN Routes(c)
      /\ \A j : Fits(c, j, x) =>
           /\ j \in OfPort(c, x.port) \/ j \in OfPort(c, 0)
           /\ Suits(c, j, host, x.path)
      /\ \A j \in OfPort(c, x.port) \cup OfPort(c, 0) :
           Suits(c, j, host, x.path) => Fits(c, j, x) /\ j \in Enabled(c)
  BY RouteTyped DEF OfPort, Fits, Suits
<1>2. x.port \in Ports(c) /\ x.port # 0
  BY DEF Match, Ports
<1>3. i = IF specific # 0 THEN specific ELSE global
  BY <1>2 DEF Match
<1>4. /\ specific = 0 => \A j \in OfPort(c, x.port) : ~Suits(c, j, host, x.path)
      /\ specific # 0 =>
           /\ specific \in OfPort(c, x.port) /\ Suits(c, specific, host, x.path)
           /\ \A j \in OfPort(c, x.port) :
                Suits(c, j, host, x.path) => ~Further(c, j, specific)
  BY <1>1, MatchHostIsBest
<1>5. global # 0 =>
        /\ global \in OfPort(c, 0) /\ Suits(c, global, host, x.path)
        /\ \A j \in OfPort(c, 0) : Suits(c, j, host, x.path) => ~Further(c, j, global)
  BY <1>1, MatchHostIsBest
<1> HIDE DEF specific, global, host
<1>6. /\ \A j \in OfPort(c, 0) : Routes(c)[j].port = 0
      /\ \A j \in OfPort(c, x.port) : Routes(c)[j].port # 0
  BY <1>2 DEF OfPort
<1>7. CASE specific # 0
  <2>1. i = specific /\ i \in DOMAIN Routes(c) /\ i \in Enabled(c) /\ Fits(c, i, x)
    BY <1>1, <1>3, <1>4, <1>7, RouteTyped
  <2>2. ASSUME NEW j \in DOMAIN Routes(c), Fits(c, j, x), Outranks(Rank(c, j), Rank(c, i))
        PROVE  FALSE
    BY <2>1, <2>2, <1>1, <1>4, <1>6, <1>7, OutranksMeans
  <2> QED BY <2>1, <2>2
<1>8. CASE specific = 0
  <2>1. i = global /\ i \in DOMAIN Routes(c) /\ i \in Enabled(c) /\ Fits(c, i, x)
    BY <1>1, <1>3, <1>5, <1>8, RouteTyped
  <2>2. ASSUME NEW j \in DOMAIN Routes(c), Fits(c, j, x), Outranks(Rank(c, j), Rank(c, i))
        PROVE  FALSE
    BY <2>1, <2>2, <1>1, <1>3, <1>4, <1>5, <1>6, <1>8, OutranksMeans
  <2> QED BY <2>1, <2>2
<1> QED BY <1>7, <1>8

(* The indexes by port, host and prefix answer as the list of routes would: *)
(* with a route that fits and that none outranks, for any configuration, and *)
(* with none only if none fits or nothing listens there (Match, hostIndex,   *)
(* sortRoutes, router.go:105-174, 321-367).                                  *)
THEOREM IndexesFindTheBest ==
  ASSUME NEW c \in Confs, NEW x, NEW i, i = Match(c, x.port, HostOf[x.host], x.path)
  PROVE  /\ i # 0 => /\ Fits(c, i, x)
                     /\ \A j \in DOMAIN Routes(c) : Fits(c, j, x) => ~Outranks(Rank(c, j), Rank(c, i))
         /\ i = 0 /\ x.port \in Ports(c) => \A j \in DOMAIN Routes(c) : ~Fits(c, j, x)
<1>1. ASSUME i = 0, x.port \in Ports(c), NEW j \in DOMAIN Routes(c), Fits(c, j, x) PROVE FALSE
  <2> DEFINE host == HostOf[x.host]
             specific == MatchHost(c, OfPort(c, x.port), host, x.path)
             global == MatchHost(c, OfPort(c, 0), host, x.path)
  <2>1. specific = 0 /\ global = 0
    BY <1>1 DEF Match
  <2>2. OfPort(c, x.port) \subseteq DOMAIN Routes(c) /\ OfPort(c, 0) \subseteq DOMAIN Routes(c)
    BY RouteTyped DEF OfPort
  <2>3. \A k \in OfPort(c, x.port) \cup OfPort(c, 0) : ~Suits(c, k, host, x.path)
    BY <2>1, <2>2, MatchHostIsBest
  <2>4. j \in OfPort(c, x.port) \cup OfPort(c, 0) /\ Suits(c, j, host, x.path)
    BY <1>1 DEF Fits, OfPort, Suits
  <2> QED BY <2>3, <2>4
<1> QED BY <1>1, MatchIsBest

-----------------------------------------------------------------------------
(* The client's address. *)

LEMMA ClientTyped ==
  ASSUME NEW x \in Inputs, NEW trusted
  PROVE  ClientIP(x, trusted) \in Addresses
<1> DEFINE named == {i \in DOMAIN x.xff : x.xff[i] # Junk /\ x.xff[i] \notin trusted}
<1>1. /\ x.remote \in Addresses /\ x.xff \in Seq(Addresses \cup {Junk})
      /\ DOMAIN x.xff = 1 .. Len(x.xff) /\ Len(x.xff) \in Nat
  BY GatewayAssumption
<1>2. ASSUME named # {} PROVE x.xff[CHOOSE i \in named : \A j \in named : j <= i] \in Addresses
  <2> DEFINE f == [i \in named |-> i]
  <2>1. IsFiniteSet(named) /\ \A i \in named : f[i] \in Int /\ f[i] = i
    <3>1. IsFiniteSet(1 .. Len(x.xff)) /\ named \subseteq 1 .. Len(x.xff)
      BY <1>1, FS_Interval
    <3> QED BY <3>1, FS_Subset
  <2> HIDE DEF f
  <2>2. PICK m \in named : \A y \in named : f[m] >= f[y]
    BY <2>1, <1>2, HasGreatest
  <2>3. \A j \in named : j <= m
    BY <2>1, <2>2
  <2>4. (CHOOSE i \in named : \A j \in named : j <= i) \in named
    BY <2>2, <2>3
  <2>5. \A i \in named : x.xff[i] \in Addresses
    BY <1>1
  <2> HIDE DEF named
  <2> QED BY <2>4, <2>5
<1>3. ClientIP(x, trusted) =
        IF x.remote \notin trusted \/ named = {} THEN x.remote
        ELSE x.xff[CHOOSE i \in named : \A j \in named : j <= i]
  BY DEF ClientIP
<1> HIDE DEF named
<1> QED BY <1>1, <1>2, <1>3

(* What clientIP makes of the headers is the source of the request: from the *)
(* connection back through the chain, the first that is no trusted proxy; so *)
(* nobody outside the proxies chooses the address he is judged by (clientIP, *)
(* proxy.go:138-170).                                                        *)
THEOREM SourceIsClient ==
  ASSUME NEW x \in Inputs, NEW trusted
  PROVE  Source(x, trusted) = ClientIP(x, trusted)
<1> DEFINE chain == x.xff \o <<x.remote>>
           named == {i \in DOMAIN x.xff : x.xff[i] # Junk /\ x.xff[i] \notin trusted}
           outside == {i \in DOMAIN chain : chain[i] # Junk /\ chain[i] \notin trusted}
           n == Len(x.xff)
<1>1. /\ x.remote \in Addresses /\ x.xff \in Seq(Addresses \cup {Junk})
      /\ DOMAIN x.xff = 1 .. n /\ n \in Nat /\ x.remote # Junk
  BY GatewayAssumption
<1>2. /\ DOMAIN chain = 1 .. n + 1 /\ chain[n + 1] = x.remote
      /\ \A i \in 1 .. n : chain[i] = x.xff[i]
  BY <1>1
<1>3. Source(x, trusted) =
        IF outside = {} THEN x.remote
        ELSE chain[CHOOSE i \in outside : \A j \in outside : j <= i]
  BY DEF Source
<1>4. ClientIP(x, trusted) =
        IF x.remote \notin trusted \/ named = {} THEN x.remote
        ELSE x.xff[CHOOSE i \in named : \A j \in named : j <= i]
  BY DEF ClientIP
<1> HIDE DEF chain
<1>5. CASE x.remote \notin trusted
  <2>1. n + 1 \in outside /\ outside \subseteq 1 .. n + 1
    BY <1>1, <1>2, <1>5
  <2>2. \A j \in outside : j <= n + 1
    BY <2>1, <1>1
  <2>3. \A i \in outside : (\A j \in outside : j <= i) => i = n + 1
    BY <2>1, <2>2, <1>1
  <2>4. (CHOOSE i \in outside : \A j \in outside : j <= i) = n + 1
    BY <2>1, <2>2, <2>3
  <2> QED BY <1>2, <1>3, <1>4, <1>5, <2>1, <2>4
<1>6. CASE x.remote \in trusted
  <2>1. outside = named
    <3>1. n + 1 \notin outside
      BY <1>2, <1>6
    <3>2. \A i \in 1 .. n : i \in outside <=> i \in named
      BY <1>1, <1>2
    <3>3. \A i : i \in 1 .. n + 1 <=> i \in 1 .. n \/ i = n + 1
      BY <1>1
    <3>4. outside \subseteq 1 .. n + 1 /\ named \subseteq 1 .. n
      BY <1>1, <1>2
    <3> HIDE DEF outside, named
    <3> QED BY <3>1, <3>2, <3>3, <3>4
  <2>2. CASE named = {}
    BY <1>3, <1>4, <2>1, <2>2
  <2>3. CASE named # {}
    <3> DEFINE f == [i \in named |-> i]
    <3>1. IsFiniteSet(named) /\ \A i \in named : f[i] \in Int /\ f[i] = i
      <4>1. IsFiniteSet(1 .. n) /\ named \subseteq 1 .. n
        BY <1>1, FS_Interval
      <4> QED BY <4>1, FS_Subset
    <3> HIDE DEF f
    <3>2. PICK m \in named : \A y \in named : f[m] >= f[y]
      BY <3>1, <2>3, HasGreatest
    <3>3. \A j \in named : j <= m
      BY <3>1, <3>2
    <3>4. (CHOOSE i \in named : \A j \in named : j <= i) \in named
      BY <3>2, <3>3
    <3>5. (CHOOSE i \in named : \A j \in named : j <= i) \in 1 .. n
      BY <3>4, <1>1
    <3> QED BY <1>2, <1>3, <1>4, <1>6, <2>1, <2>3, <3>5
  <2> QED BY <2>2, <2>3
<1> QED BY <1>5, <1>6

-----------------------------------------------------------------------------
(* The limiters. *)

LEMMA Products ==
  ASSUME NEW a \in Nat, NEW b \in Nat
  PROVE  /\ a * b \in Nat /\ a * (b + 1) = a * b + a /\ a * 0 = 0
OBVIOUS

LEMMA ProductsGrow ==
  ASSUME NEW a \in Nat, NEW b \in Nat, NEW c \in Nat, b <= c
  PROVE  a * b <= a * c
<1> DEFINE d == c - b
<1>1. d \in Nat /\ c = b + d
  OBVIOUS
<1>2. a * d \in Nat /\ a * b \in Nat
  BY <1>1, Products
<1> HIDE DEF d
<1>3. a * (b + d) = a * b + a * d
  BY <1>1
<1>4. a * c = a * b + a * d
  BY <1>1, <1>3
<1>5. \A m, n \in Nat : m <= m + n
  OBVIOUS
<1> QED BY <1>2, <1>4, <1>5

(* A limiter whose buckets hold no more than its burst. *)
Sound(m) ==
  /\ m \in Limiters
  /\ \A k \in Keys : m.buckets[k].tokens <= m.burst

Bucket == [tokens : Nat \cup {-1}, age : Nat]

LEMMA NumbersTyped == Idle \in Nat /\ MaxSlots \in Nat \ {0} /\ Unit \in Nat \ {0}
BY GatewayAssumption

LEMMA LimitTyped ==
  ASSUME NEW c \in Confs, NEW r \in Ids
  PROVE  /\ LimitOf(c, r).rate \in Nat /\ LimitOf(c, r).burst \in Nat
         /\ LimitOf(c, r).global \in BOOLEAN
BY GatewayAssumption

LEMMA RoomTyped ==
  ASSUME NEW l, l.burst \in Nat
  PROVE  /\ Metered!Room(l) \in Nat /\ Metered!Room(l) >= Unit
         /\ l.burst >= Unit => Metered!Room(l) = l.burst
BY NumbersTyped DEF Metered!Room

LEMMA NoneTyped == None.rate = 0 /\ None.burst = 0 /\ None.global \in BOOLEAN
BY DEF None

LEMMA NewLimiterIsSound ==
  ASSUME NEW l, l.rate \in Nat, l.burst \in Nat, l.global \in BOOLEAN
  PROVE  /\ Sound(NewLimiter(l))
         /\ NewLimiter(l).rate = l.rate /\ NewLimiter(l).burst = Metered!Room(l)
         /\ NewLimiter(l).loop = (l.rate # 0)
         /\ \A k \in Keys : /\ Fill(NewLimiter(l), k) = Metered!Room(l)
                             /\ Rests(NewLimiter(l), k) = Idle + 1
<1>1. NoBucket \in Bucket /\ NoBucket.tokens = -1
  BY NumbersTyped DEF NoBucket, Bucket
<1>2. NewLimiter(l).burst = Metered!Room(l) /\ Metered!Room(l) \in Nat
  BY RoomTyped DEF NewLimiter, Metered!Room
<1>3. NewLimiter(l) \in Limiters
  BY <1>1, NumbersTyped DEF NewLimiter, Limiters, Buckets, Bucket
<1> QED BY <1>1, <1>2, <1>3 DEF NewLimiter, Sound, Fill, Rests

LEMMA BucketTyped ==
  ASSUME NEW m, Sound(m), NEW k \in Keys
  PROVE  /\ m.rate \in Nat /\ m.burst \in Nat /\ m.buckets \in [Keys -> Bucket]
         /\ m.buckets[k] \in Bucket /\ m.buckets[k].age \in Nat
         /\ m.buckets[k].tokens \in Nat \cup {-1} /\ m.buckets[k].tokens <= m.burst
BY DEF Sound, Limiters, Buckets, Bucket

LEMMA FillTyped ==
  ASSUME NEW m, Sound(m), NEW k \in Keys
  PROVE  Fill(m, k) \in Nat /\ Fill(m, k) <= m.burst
<1>1. /\ m.rate \in Nat /\ m.burst \in Nat /\ m.buckets[k].age \in Nat
      /\ m.buckets[k].tokens \in Nat \cup {-1} /\ m.buckets[k].tokens <= m.burst
  BY BucketTyped
<1>2. m.rate * m.buckets[k].age \in Nat
  BY <1>1, Products
<1> QED BY <1>1, <1>2 DEF Fill, Lower

LEMMA RestsTyped ==
  ASSUME NEW m, Sound(m), NEW k \in Keys
  PROVE  /\ Rests(m, k) \in Nat /\ Rests(m, k) <= Idle + 1
         /\ Stale(m, k) => Rests(m, k) = Idle + 1
BY BucketTyped, NumbersTyped DEF Rests, Lower, Stale

(* A change of the buckets alone. *)
LEMMA RebucketIsSound ==
  ASSUME NEW m, Sound(m), NEW bs \in [Keys -> Bucket],
         \A k \in Keys : bs[k].tokens <= m.burst
  PROVE  LET w == [m EXCEPT !.buckets = bs]
         IN Sound(w) /\ w.buckets = bs /\ w.rate = m.rate /\ w.burst = m.burst /\ w.loop = m.loop
BY DEF Sound, Limiters, Buckets, Bucket

LEMMA TakenIsSound ==
  ASSUME NEW m, Sound(m), NEW k \in Keys
  PROVE  /\ Sound(Taken(m, k))
         /\ Taken(m, k).rate = m.rate /\ Taken(m, k).burst = m.burst
         /\ Taken(m, k).loop = m.loop
         /\ Fill(Taken(m, k), k) = IF Admits(m, k) THEN Fill(m, k) - Unit ELSE Fill(m, k)
         /\ Rests(Taken(m, k), k) = 0
         /\ \A j \in Keys : j # k => /\ Fill(Taken(m, k), j) = Fill(m, j)
                                     /\ Rests(Taken(m, k), j) = Rests(m, j)
<1> DEFINE b == [tokens |-> IF Admits(m, k) THEN Fill(m, k) - Unit ELSE Fill(m, k), age |-> 0]
           bs == [m.buckets EXCEPT ![k] = b]
<1>1. Fill(m, k) \in Nat /\ Fill(m, k) <= m.burst /\ (Admits(m, k) <=> Fill(m, k) >= Unit)
  BY FillTyped DEF Admits
<1>2. b \in Bucket /\ b.tokens \in Nat /\ b.tokens <= m.burst /\ b.age = 0
      /\ b.tokens = IF Admits(m, k) THEN Fill(m, k) - Unit ELSE Fill(m, k)
  <2>1. m.burst \in Nat
    BY DEF Sound, Limiters
  <2> QED BY <1>1, <2>1, NumbersTyped DEF Bucket
<1>3. m.buckets \in [Keys -> Bucket]
  BY DEF Sound, Limiters, Buckets, Bucket
<1> HIDE DEF b
<1>4. bs \in [Keys -> Bucket] /\ bs[k] = b /\ \A j \in Keys : j # k => bs[j] = m.buckets[j]
  BY <1>2, <1>3
<1>5. \A j \in Keys : bs[j].tokens <= m.burst
  BY <1>2, <1>4 DEF Sound
<1>6. Taken(m, k) = [m EXCEPT !.buckets = bs]
  BY DEF Taken, b
<1> HIDE DEF bs
<1>7. /\ Sound(Taken(m, k)) /\ Taken(m, k).buckets = bs /\ Taken(m, k).rate = m.rate
      /\ Taken(m, k).burst = m.burst /\ Taken(m, k).loop = m.loop
  BY <1>4, <1>5, <1>6, RebucketIsSound
<1>8. Fill(Taken(m, k), k) = b.tokens
  <2>1. m.rate \in Nat /\ m.rate * 0 = 0 /\ m.burst \in Nat
    BY DEF Sound, Limiters
  <2> QED BY <1>2, <1>4, <1>7, <2>1 DEF Fill, Lower
<1>9. Rests(Taken(m, k), k) = 0
  BY <1>2, <1>4, <1>7, NumbersTyped DEF Rests, Lower
<1>10. \A j \in Keys : j # k => /\ Fill(Taken(m, k), j) = Fill(m, j)
                                /\ Rests(Taken(m, k), j) = Rests(m, j)
  BY <1>4, <1>7 DEF Fill, Rests
<1> QED BY <1>2, <1>7, <1>8, <1>9, <1>10

(* What a bucket that is swept may still owe, in terms of its limiter. *)
Spare(m) == IF m.burst > m.rate * (Idle + 1) THEN m.burst - m.rate * (Idle + 1) ELSE 0

LEMMA StaleOwesLittle ==
  ASSUME NEW m, Sound(m), NEW k \in Keys, Stale(m, k)
  PROVE  m.burst - Fill(m, k) <= Spare(m)
<1> DEFINE good == m.rate * m.buckets[k].age
           least == m.rate * (Idle + 1)
<1>1. /\ m.rate \in Nat /\ m.burst \in Nat /\ m.buckets[k].age \in Nat
      /\ m.buckets[k].tokens \in Nat /\ Idle + 1 \in Nat /\ Idle + 1 <= m.buckets[k].age
  BY BucketTyped, NumbersTyped DEF Stale
<1>2. good \in Nat /\ least \in Nat /\ least <= good
  BY <1>1, Products, ProductsGrow
<1>3. Fill(m, k) = Lower(m.burst, m.buckets[k].tokens + good)
  BY <1>1 DEF Fill
<1>4. Spare(m) = IF m.burst > least THEN m.burst - least ELSE 0
  BY DEF Spare
<1> HIDE DEF good, least
<1> QED BY <1>1, <1>2, <1>3, <1>4 DEF Lower

Unstale(m) ==
  [m EXCEPT !.buckets = [k \in Keys |-> IF Stale(m, k) THEN NoBucket ELSE m.buckets[k]]]

LEMMA UnstaleIsSound ==
  ASSUME NEW m, Sound(m)
  PROVE  /\ Sound(Unstale(m))
         /\ Unstale(m).rate = m.rate /\ Unstale(m).burst = m.burst
         /\ Unstale(m).loop = m.loop
         /\ \A k \in Keys :
              /\ Fill(Unstale(m), k) = IF Stale(m, k) THEN m.burst ELSE Fill(m, k)
              /\ Rests(Unstale(m), k) = Rests(m, k)
<1> DEFINE bs == [k \in Keys |-> IF Stale(m, k) THEN NoBucket ELSE m.buckets[k]]
<1>1. m.buckets \in [Keys -> Bucket] /\ m.burst \in Nat /\ NoBucket.tokens = -1
      /\ NoBucket \in Bucket
  BY NumbersTyped DEF Sound, Limiters, Buckets, Bucket, NoBucket
<1>2. bs \in [Keys -> Bucket]
  BY <1>1
<1>3. \A k \in Keys : bs[k].tokens <= m.burst
  BY <1>1 DEF Sound
<1>4. \A k \in Keys : bs[k] = IF Stale(m, k) THEN NoBucket ELSE m.buckets[k]
  OBVIOUS
<1>5. Unstale(m) = [m EXCEPT !.buckets = bs]
  BY DEF Unstale
<1> HIDE DEF bs
<1>6. /\ Sound(Unstale(m)) /\ Unstale(m).buckets = bs /\ Unstale(m).rate = m.rate
      /\ Unstale(m).burst = m.burst /\ Unstale(m).loop = m.loop
  BY <1>2, <1>3, <1>5, RebucketIsSound
<1>7. ASSUME NEW k \in Keys
      PROVE  /\ Fill(Unstale(m), k) = IF Stale(m, k) THEN m.burst ELSE Fill(m, k)
             /\ Rests(Unstale(m), k) = Rests(m, k)
  <2>1. CASE Stale(m, k)
    <3>1. Unstale(m).buckets[k].tokens = -1
      BY <2>1, <1>1, <1>4, <1>6
    <3> QED BY <3>1, <2>1, <1>6, RestsTyped DEF Fill, Rests
  <2>2. CASE ~Stale(m, k)
    BY <2>2, <1>4, <1>6 DEF Fill, Rests
  <2> QED BY <2>1, <2>2
<1> QED BY <1>6, <1>7

Aged(m) == [m EXCEPT !.buckets = [k \in Keys |-> Older(m, k)]]

LEMMA OlderTyped ==
  ASSUME NEW m, Sound(m), NEW k \in Keys
  PROVE  LET b == m.buckets[k]
             frozen == b.tokens = -1 \/ (Stale(m, k) /\ Fill(m, k) = m.burst)
         IN /\ Older(m, k) \in Bucket /\ Older(m, k).tokens = b.tokens
            /\ frozen => Older(m, k) = b
            /\ ~frozen => Older(m, k).age = b.age + 1
<1>1. m.buckets[k] \in Bucket /\ m.buckets[k].age + 1 \in Nat
  BY BucketTyped
<1> QED BY <1>1 DEF Older, Bucket

LEMMA AgedIsSound ==
  ASSUME NEW m, Sound(m)
  PROVE  /\ Sound(Aged(m))
         /\ Aged(m).rate = m.rate /\ Aged(m).burst = m.burst /\ Aged(m).loop = m.loop
         /\ \A k \in Keys :
              /\ Fill(Aged(m), k) = Lower(m.burst, Fill(m, k) + m.rate)
              /\ Rests(Aged(m), k) = IF Rests(m, k) > Idle THEN Rests(m, k)
                                      ELSE Rests(m, k) + 1
<1> DEFINE bs == [k \in Keys |-> Older(m, k)]
<1>1. m.burst \in Nat /\ m.rate \in Nat
  BY DEF Sound, Limiters
<1>2. /\ bs \in [Keys -> Bucket] /\ \A k \in Keys : bs[k] = Older(m, k)
      /\ \A k \in Keys : bs[k].tokens <= m.burst
  BY OlderTyped, BucketTyped
<1>3. Aged(m) = [m EXCEPT !.buckets = bs]
  BY DEF Aged
<1> HIDE DEF bs
<1>4. /\ Sound(Aged(m)) /\ Aged(m).buckets = bs /\ Aged(m).rate = m.rate
      /\ Aged(m).burst = m.burst /\ Aged(m).loop = m.loop
  BY <1>2, <1>3, RebucketIsSound
<1>5. ASSUME NEW k \in Keys
      PROVE  /\ Fill(Aged(m), k) = Lower(m.burst, Fill(m, k) + m.rate)
             /\ Rests(Aged(m), k) = IF Rests(m, k) > Idle THEN Rests(m, k)
                                     ELSE Rests(m, k) + 1
  <2> DEFINE b == m.buckets[k]
             frozen == b.tokens = -1 \/ (Stale(m, k) /\ Fill(m, k) = m.burst)
  <2>1. /\ b.tokens \in Nat \cup {-1} /\ b.age \in Nat /\ b.tokens <= m.burst
    BY BucketTyped
  <2>2. Aged(m).buckets[k] = Older(m, k)
    BY <1>2, <1>4
  <2>3. CASE frozen
    <3>1. Aged(m).buckets[k] = b
      BY <2>2, <2>3, OlderTyped
    <3>2. Fill(m, k) = m.burst
      BY <2>3 DEF Fill
    <3>3. Fill(Aged(m), k) = Fill(m, k) /\ Rests(Aged(m), k) = Rests(m, k)
      BY <3>1, <1>4 DEF Fill, Rests
    <3>4. Rests(m, k) = Idle + 1
      BY <2>3, RestsTyped DEF Rests
    <3> QED BY <3>2, <3>3, <3>4, <1>1, NumbersTyped DEF Lower
  <2>4. CASE ~frozen
    <3>1. Older(m, k).tokens = b.tokens /\ Older(m, k).age = b.age + 1 /\ b.tokens # -1
      BY <2>4, OlderTyped
    <3>2. m.rate * b.age \in Nat /\ m.rate * (b.age + 1) = m.rate * b.age + m.rate
      BY <1>1, <2>1, Products
    <3>3. Fill(m, k) = Lower(m.burst, b.tokens + m.rate * b.age)
      BY <3>1 DEF Fill
    <3>4. Fill(Aged(m), k) = Lower(m.burst, b.tokens + m.rate * (b.age + 1))
      BY <1>4, <2>2, <3>1 DEF Fill
    <3>5. /\ Rests(m, k) = Lower(b.age, Idle + 1)
          /\ Rests(Aged(m), k) = Lower(b.age + 1, Idle + 1)
      BY <1>4, <2>2, <3>1 DEF Rests
    <3> HIDE DEF b
    <3>6. Fill(Aged(m), k) = Lower(m.burst, Fill(m, k) + m.rate)
      BY <3>1, <3>2, <3>3, <3>4, <1>1, <2>1 DEF Lower
    <3>7. Rests(Aged(m), k) = IF Rests(m, k) > Idle THEN Rests(m, k) ELSE Rests(m, k) + 1
      BY <3>5, <2>1, NumbersTyped DEF Lower
    <3> QED BY <3>6, <3>7
  <2> QED BY <2>3, <2>4
<1> QED BY <1>4, <1>5

LEMMA UnloopedIsSound ==
  ASSUME NEW m, Sound(m), NEW l \in BOOLEAN
  PROVE  LET w == [m EXCEPT !.loop = l]
         IN /\ Sound(w) /\ w.rate = m.rate /\ w.burst = m.burst /\ w.loop = l
            /\ w.buckets = m.buckets
            /\ \A k \in Keys : Fill(w, k) = Fill(m, k) /\ Rests(w, k) = Rests(m, k)
BY DEF Sound, Limiters, Fill, Rests

-----------------------------------------------------------------------------
(* The inductive invariant. *)

(* The limiters of the live table are those its configuration asks for,    *)
(* with a burst of at least a token.                                       *)
Current ==
  \A r \in Ids : live.lim[r] # 0 =>
    /\ lims[r][live.lim[r]].rate = LimitOf(live.conf, r).rate
    /\ lims[r][live.lim[r]].burst = Metered!Room(LimitOf(live.conf, r))

(* What a request has passed, it has passed by the table it came with. *)
MatchIn(v) == Match(v.tbl, v.x.port, HostOf[v.x.host], v.x.path)

Admitted(v) ==
  v.stage # "idle" =>
    /\ v.tbl = v.from /\ v.ip = ClientIP(v.x, Conf[v.tbl].trusted)
    /\ ~GloballyDenied(v.tbl, v.ip)

Limited(v) ==
  v.stage \in {"plain", "limit"} =>
    \A r \in Ids : v.lim[r] = 0 <=> LimitOf(v.tbl, r).rate = 0

Routed(v) ==
  v.stage \in {"limit", "circuit", "forwarded"} =>
    /\ v.route = MatchIn(v) /\ v.route # 0
    /\ v.x.tls \/ ~WantsRedirect(v.tbl, v.route)
    /\ RouteAllows(v.tbl, v.route, v.ip)

Paid(v) ==
  v.stage \in {"circuit", "forwarded"} =>
    (LimitOf(v.tbl, Routes(v.tbl)[v.route].id).rate # 0 => v.paid)

Authentic(v) == v.stage = "forwarded" => Authenticates(v.tbl, v.route, v.x)

Right(v) ==
  /\ v.route \in {0} \cup Enabled(v.tbl)
  /\ Admitted(v) /\ Limited(v) /\ Routed(v) /\ Paid(v) /\ Authentic(v)

Rightful == \A q \in Requests : Right(req[q])

IInv == TypeOK /\ Current /\ SweptUnlessRefused /\ Rightful

LEMMA TypeOKMeans ==
  TypeOK <=> /\ live \in [conf : Confs, lim : [Ids -> 0 .. MaxSlots]]
             /\ lims \in [Ids -> [Slots -> Limiters]]
             /\ \A r \in Ids, n \in Slots : Sound(lims[r][n])
             /\ \A r \in Ids : live.lim[r] = 0 <=> LimitOf(live.conf, r).rate = 0
             /\ refused \in BOOLEAN
             /\ req \in [Requests -> Request]
             /\ \A q \in Requests : req[q].route \in {0} \cup Enabled(req[q].tbl)
BY DEF TypeOK, Sound

LEMMA TypeOKMeansPrimed ==
  TypeOK' <=> /\ live' \in [conf : Confs, lim : [Ids -> 0 .. MaxSlots]]
              /\ lims' \in [Ids -> [Slots -> Limiters]]
              /\ \A r \in Ids, n \in Slots : Sound(lims'[r][n])
              /\ \A r \in Ids : live'.lim[r] = 0 <=> LimitOf(live'.conf, r).rate = 0
              /\ refused' \in BOOLEAN
              /\ req' \in [Requests -> Request]
              /\ \A q \in Requests : req'[q].route \in {0} \cup Enabled(req'[q].tbl)
BY DEF TypeOK, Sound

LEMMA LiveSlot ==
  ASSUME TypeOK, NEW r \in Ids
  PROVE  /\ live.lim[r] \in 0 .. MaxSlots /\ live.conf \in Confs
         /\ live.lim[r] # 0 => live.lim[r] \in Slots /\ Sound(lims[r][live.lim[r]])
<1>1. live.lim[r] \in 0 .. MaxSlots /\ live.conf \in Confs
  BY TypeOKMeans
<1>2. live.lim[r] # 0 => live.lim[r] \in Slots
  BY <1>1, NumbersTyped DEF Slots
<1> QED BY <1>1, <1>2, TypeOKMeans

LEMMA LiveLimit ==
  ASSUME TypeOK, Current, NEW r \in Ids, live.lim[r] # 0
  PROVE  LET m == lims[r][live.lim[r]]
         IN /\ m.rate # 0 /\ m.burst \in Nat /\ m.burst >= Unit
            /\ m.rate = LimitOf(live.conf, r).rate
            /\ m.burst = Metered!Room(LimitOf(live.conf, r))
<1>1. /\ lims[r][live.lim[r]].rate = LimitOf(live.conf, r).rate
      /\ lims[r][live.lim[r]].burst = Metered!Room(LimitOf(live.conf, r))
      /\ LimitOf(live.conf, r).rate # 0 /\ live.conf \in Confs
  BY LiveSlot, TypeOKMeans DEF Current
<1> QED BY <1>1, LimitTyped, RoomTyped

-----------------------------------------------------------------------------
(* The requests. *)

LEMMA FreeTyped == Free \in Request /\ Right(Free)
<1>1. (CHOOSE x \in Inputs : TRUE) \in Inputs
  BY GatewayAssumption
<1>2. NoLimiters \in [Ids -> 0 .. MaxSlots]
  BY NumbersTyped DEF NoLimiters
<1>3. Free \in Request
  BY <1>1, <1>2, GatewayAssumption DEF Free, Request, Stages
<1>4. Right(Free)
  BY DEF Right, Free, Admitted, Limited, Routed, Paid, Authentic
<1> QED BY <1>3, <1>4

LEMMA RequestTyped ==
  ASSUME TypeOK, NEW q \in Requests
  PROVE  /\ req \in [Requests -> Request] /\ req[q] \in Request
         /\ req[q].x \in Inputs /\ req[q].tbl \in Confs /\ req[q].from \in Confs
         /\ req[q].lim \in [Ids -> 0 .. MaxSlots]
         /\ req[q].ip \in Addresses \cup {Junk} /\ req[q].route \in Nat
         /\ req[q].stage \in Stages /\ req[q].paid \in BOOLEAN
BY TypeOKMeans DEF Request

Requesting(q) ==
  \/ \E x \in Inputs : Arrive(q, x)
  \/ Route(q) \/ Unlimited(q) \/ CheckRateLimit(q)
  \/ Forward(q) \/ Refuse(q) \/ Leave(q)

LEMMA ArriveMoves ==
  ASSUME TypeOK, Rightful, NEW q \in Requests, NEW x \in Inputs, Arrive(q, x)
  PROVE  \E v \in Request : Right(v) /\ req' = [req EXCEPT ![q] = v]
<1> DEFINE c == live.conf
           v == [stage |-> "plain", x |-> x, tbl |-> c, lim |-> live.lim,
                 ip |-> ClientIP(x, Conf[c].trusted), route |-> 0,
                 from |-> c, paid |-> FALSE]
<1>1. c \in Confs /\ live.lim \in [Ids -> 0 .. MaxSlots]
  BY TypeOKMeans
<1>2. ClientIP(x, Conf[c].trusted) \in Addresses
  BY ClientTyped
<1>3. v \in Request
  BY <1>1, <1>2 DEF Request, Stages
<1>4. /\ v.stage = "plain" /\ v.x = x /\ v.tbl = c /\ v.from = c /\ v.lim = live.lim
      /\ v.ip = ClientIP(x, Conf[c].trusted) /\ v.route = 0
  OBVIOUS
<1>5. req' = [req EXCEPT ![q] = v] /\ ~GloballyDenied(c, ClientIP(x, Conf[c].trusted))
  BY DEF Arrive
<1>6. \A r \in Ids : live.lim[r] = 0 <=> LimitOf(c, r).rate = 0
  BY TypeOKMeans
<1> HIDE DEF v
<1>7. Right(v)
  BY <1>4, <1>5, <1>6 DEF Right, Admitted, Limited, Routed, Paid, Authentic
<1> QED BY <1>3, <1>5, <1>7

LEMMA RouteMoves ==
  ASSUME TypeOK, Rightful, NEW q \in Requests, Route(q)
  PROVE  \E v \in Request : Right(v) /\ req' = [req EXCEPT ![q] = v]
<1>1. CASE Redirected(q) \/ ~Passes(q)
  BY <1>1, FreeTyped DEF Route, Answered
<1>2. CASE ~(Redirected(q) \/ ~Passes(q))
  <2> DEFINE R == req[q]
             i == MatchIn(R)
             v == [R EXCEPT !.route = i, !.stage = "limit"]
  <2>1. R \in Request /\ R.tbl \in Confs /\ Right(R) /\ R.stage = "plain"
    BY RequestTyped DEF Route, Rightful
  <2>2. i # 0 /\ RouteAllows(R.tbl, i, R.ip) /\ (R.x.tls \/ ~WantsRedirect(R.tbl, i))
    BY <1>2 DEF Redirected, Passes, MatchOf, MatchIn
  <2>3. i \in Enabled(R.tbl) /\ i \in Nat
    <3>1. i \in Enabled(R.tbl)
      BY <2>1, <2>2, MatchIsBest DEF MatchIn
    <3> QED BY <3>1, <2>1, RouteTyped
  <2>4. req' = [req EXCEPT ![q] = v]
    BY <1>2 DEF Route, MatchOf, MatchIn
  <2>5. /\ v \in Request /\ v.stage = "limit" /\ v.x = R.x /\ v.tbl = R.tbl /\ v.from = R.from
        /\ v.lim = R.lim /\ v.ip = R.ip /\ v.route = i
    BY <2>1, <2>3 DEF Request, Stages
  <2>6. MatchIn(v) = i
    BY <2>5 DEF MatchIn
  <2> HIDE DEF v, i, R
  <2>7. Right(v)
    BY <2>1, <2>2, <2>3, <2>5, <2>6
       DEF Right, Admitted, Limited, Routed, Paid, Authentic
  <2> QED BY <2>4, <2>5, <2>7
<1> QED BY <1>1, <1>2

(* A request that goes on, with or without having paid. *)
LEMMA GoesOn ==
  ASSUME TypeOK, Rightful, NEW q \in Requests, req[q].stage = "limit", NEW p \in BOOLEAN,
         LimitOf(req[q].tbl, IdOf(q)).rate # 0 => p
  PROVE  LET v == [req[q] EXCEPT !.paid = p, !.lim = NoLimiters, !.stage = "circuit"]
         IN v \in Request /\ Right(v)
<1> DEFINE R == req[q]
           v == [R EXCEPT !.paid = p, !.lim = NoLimiters, !.stage = "circuit"]
<1>1. R \in Request /\ Right(R) /\ R.stage = "limit"
  BY RequestTyped DEF Rightful
<1>2. NoLimiters \in [Ids -> 0 .. MaxSlots]
  BY NumbersTyped DEF NoLimiters
<1>3. /\ v \in Request /\ v.stage = "circuit" /\ v.x = R.x /\ v.tbl = R.tbl
      /\ v.from = R.from /\ v.ip = R.ip /\ v.route = R.route /\ v.paid = p
  BY <1>1, <1>2 DEF Request, Stages
<1>4. MatchIn(v) = MatchIn(R)
  BY <1>3 DEF MatchIn
<1>5. LimitOf(v.tbl, Routes(v.tbl)[v.route].id).rate # 0 => v.paid
  BY <1>3 DEF IdOf
<1> HIDE DEF v, R
<1>6. Right(v)
  BY <1>1, <1>3, <1>4, <1>5 DEF Right, Admitted, Limited, Routed, Paid, Authentic
<1> QED BY <1>3, <1>6 DEF v, R

LEMMA LimitSlot ==
  ASSUME TypeOK, Rightful, NEW q \in Requests, req[q].stage = "limit"
  PROVE  /\ IdOf(q) \in Ids /\ req[q].lim[IdOf(q)] \in 0 .. MaxSlots
         /\ req[q].lim[IdOf(q)] = 0 <=> LimitOf(req[q].tbl, IdOf(q)).rate = 0
<1>1. req[q].route \in Enabled(req[q].tbl) /\ req[q].tbl \in Confs /\ Limited(req[q])
  BY RequestTyped DEF Rightful, Right, Routed
<1>2. IdOf(q) \in Ids
  BY <1>1, RouteTyped DEF IdOf
<1> QED BY <1>1, <1>2, RequestTyped DEF Limited

LEMMA LimitMoves ==
  ASSUME TypeOK, Rightful, NEW q \in Requests, Unlimited(q) \/ CheckRateLimit(q)
  PROVE  \E v \in Request : Right(v) /\ req' = [req EXCEPT ![q] = v]
<1>1. CASE Unlimited(q)
  <2> DEFINE R == req[q]
  <2>1. R \in Request /\ R.paid \in BOOLEAN /\ LimitOf(R.tbl, IdOf(q)).rate = 0
    BY <1>1, RequestTyped, LimitSlot DEF Unlimited
  <2>2. [R EXCEPT !.lim = NoLimiters, !.stage = "circuit"]
        = [R EXCEPT !.paid = R.paid, !.lim = NoLimiters, !.stage = "circuit"]
    BY <2>1 DEF Request
  <2>3. LET v == [R EXCEPT !.paid = R.paid, !.lim = NoLimiters, !.stage = "circuit"]
        IN v \in Request /\ Right(v)
    BY <1>1, <2>1, GoesOn DEF Unlimited
  <2> QED BY <1>1, <2>2, <2>3 DEF Unlimited
<1>2. CASE CheckRateLimit(q)
  <2>1. \/ Answered(q)
        \/ req' = [req EXCEPT ![q].paid = TRUE, ![q].lim = NoLimiters, ![q].stage = "circuit"]
    BY <1>2 DEF CheckRateLimit
  <2>2. CASE Answered(q)
    BY <2>2, FreeTyped DEF Answered
  <2>3. CASE req' = [req EXCEPT ![q].paid = TRUE, ![q].lim = NoLimiters, ![q].stage = "circuit"]
    <3>1. LET v == [req[q] EXCEPT !.paid = TRUE, !.lim = NoLimiters, !.stage = "circuit"]
          IN v \in Request /\ Right(v)
      BY <1>2, GoesOn DEF CheckRateLimit
    <3> QED BY <2>3, <3>1
  <2> QED BY <2>1, <2>2, <2>3
<1> QED BY <1>1, <1>2

LEMMA EndMoves ==
  ASSUME TypeOK, Rightful, NEW q \in Requests, Forward(q) \/ Refuse(q) \/ Leave(q)
  PROVE  \E v \in Request : Right(v) /\ req' = [req EXCEPT ![q] = v]
<1>1. CASE Refuse(q) \/ Leave(q)
  BY <1>1, FreeTyped DEF Refuse, Leave, Answered
<1>2. CASE Forward(q)
  <2> DEFINE R == req[q]
             v == [R EXCEPT !.stage = "forwarded"]
  <2>1. R \in Request /\ Right(R) /\ R.stage = "circuit" /\ Authenticates(R.tbl, R.route, R.x)
    BY <1>2, RequestTyped DEF Rightful, Forward
  <2>2. /\ v \in Request /\ v.stage = "forwarded" /\ v.x = R.x /\ v.tbl = R.tbl
        /\ v.from = R.from /\ v.ip = R.ip /\ v.route = R.route /\ v.paid = R.paid
    BY <2>1 DEF Request, Stages
  <2>3. MatchIn(v) = MatchIn(R)
    BY <2>2 DEF MatchIn
  <2>4. req' = [req EXCEPT ![q] = v]
    BY <1>2 DEF Forward, To
  <2> HIDE DEF v, R
  <2>5. Right(v)
    BY <2>1, <2>2, <2>3 DEF Right, Admitted, Limited, Routed, Paid, Authentic
  <2> QED BY <2>2, <2>4, <2>5
<1> QED BY <1>1, <1>2

LEMMA RequestsStayRight ==
  ASSUME TypeOK, Rightful, NEW q \in Requests, Requesting(q)
  PROVE  /\ req' \in [Requests -> Request] /\ Rightful'
         /\ \A p \in Requests : req'[p].route \in {0} \cup Enabled(req'[p].tbl)
<1>1. PICK v \in Request : Right(v) /\ req' = [req EXCEPT ![q] = v]
  BY ArriveMoves, RouteMoves, LimitMoves, EndMoves DEF Requesting
<1>2. req \in [Requests -> Request]
  BY TypeOKMeans
<1>3. \A p \in Requests : req'[p] = v \/ req'[p] = req[p]
  BY <1>1, <1>2
<1>4. \A p \in Requests : Right(req'[p])
  BY <1>1, <1>3 DEF Rightful
<1> QED BY <1>1, <1>2, <1>4 DEF Rightful, Right

-----------------------------------------------------------------------------
(* The limiters, action by action. *)

LEMMA LimitersUpdated ==
  ASSUME TypeOK, NEW r \in Ids, NEW n \in Slots, NEW w, Sound(w),
         lims' = [lims EXCEPT ![r][n] = w]
  PROVE  /\ lims' \in [Ids -> [Slots -> Limiters]]
         /\ \A s \in Ids, o \in Slots : Sound(lims'[s][o])
         /\ \A s \in Ids, o \in Slots :
              lims'[s][o] = IF s = r /\ o = n THEN w ELSE lims[s][o]
<1>1. /\ lims \in [Ids -> [Slots -> Limiters]] /\ w \in Limiters
      /\ \A s \in Ids, o \in Slots : Sound(lims[s][o])
  BY TypeOKMeans DEF Sound
<1>2. lims' \in [Ids -> [Slots -> Limiters]]
  BY <1>1
<1>3. \A s \in Ids, o \in Slots : lims'[s][o] = IF s = r /\ o = n THEN w ELSE lims[s][o]
  BY <1>1
<1> QED BY <1>1, <1>2, <1>3

LEMMA SweepSweeps ==
  ASSUME TypeOK, NEW r \in Ids, NEW n \in Slots, Sweep(r, n)
  PROVE  lims' = [lims EXCEPT ![r][n] = Unstale(lims[r][n])]
BY DEF Sweep, Unstale

LEMMA TickAges ==
  ASSUME TypeOK, Tick
  PROVE  /\ lims' \in [Ids -> [Slots -> Limiters]]
         /\ \A r \in Ids, n \in Slots :
              Sound(lims'[r][n]) /\ lims'[r][n] = Aged(lims[r][n])
<1>1. \A r \in Ids, n \in Slots : lims'[r][n] = Aged(lims[r][n]) /\ Sound(Aged(lims[r][n]))
  BY TypeOKMeans, AgedIsSound DEF Tick, Aged
<1>2. lims' = [r \in Ids |-> [n \in Slots |-> Aged(lims[r][n])]]
  BY DEF Tick, Aged
<1>3. \A r \in Ids, n \in Slots : Aged(lims[r][n]) \in Limiters
  BY <1>1 DEF Sound
<1> QED BY <1>1, <1>2, <1>3

LEMMA CloseCloses ==
  ASSUME TypeOK, NEW c, ReloadRefused(c)
  PROVE  /\ lims' \in [Ids -> [Slots -> Limiters]]
         /\ \A r \in Ids, n \in Slots :
              /\ Sound(lims'[r][n])
              /\ lims'[r][n].rate = lims[r][n].rate /\ lims'[r][n].burst = lims[r][n].burst
              /\ \A k \in Keys : /\ Fill(lims'[r][n], k) = Fill(lims[r][n], k)
                                /\ Rests(lims'[r][n], k) = Rests(lims[r][n], k)
<1> DEFINE l(r, n) == lims[r][n].loop /\ ~Closes(c, r, n)
<1>1. lims' = [r \in Ids |-> [n \in Slots |-> [lims[r][n] EXCEPT !.loop = l(r, n)]]]
  BY DEF ReloadRefused
<1>2. \A r \in Ids, n \in Slots : lims'[r][n] = [lims[r][n] EXCEPT !.loop = l(r, n)]
  BY <1>1
<1>3. \A r \in Ids, n \in Slots : l(r, n) \in BOOLEAN /\ Sound(lims[r][n])
  BY TypeOKMeans DEF Closes
<1> HIDE DEF l
<1>4. ASSUME NEW r \in Ids, NEW n \in Slots
      PROVE  /\ Sound(lims'[r][n])
             /\ lims'[r][n].rate = lims[r][n].rate /\ lims'[r][n].burst = lims[r][n].burst
             /\ \A k \in Keys : /\ Fill(lims'[r][n], k) = Fill(lims[r][n], k)
                               /\ Rests(lims'[r][n], k) = Rests(lims[r][n], k)
  <2>1. lims'[r][n] = [lims[r][n] EXCEPT !.loop = l(r, n)]
    BY <1>2
  <2>2. l(r, n) \in BOOLEAN /\ Sound(lims[r][n])
    BY <1>3
  <2> QED BY <2>1, <2>2, UnloopedIsSound
<1>5. \A r \in Ids, n \in Slots : [lims[r][n] EXCEPT !.loop = l(r, n)] \in Limiters
  BY <1>2, <1>4 DEF Sound
<1> QED BY <1>1, <1>4, <1>5

(* What a reload makes of the table. *)
LEMMA ReloadChooses ==
  ASSUME TypeOK, NEW c \in Confs, Reload(c), NEW r \in Ids
  PROVE  /\ Chosen(c, r) \in 0 .. MaxSlots
         /\ Chosen(c, r) = 0 <=> LimitOf(c, r).rate = 0
         /\ Chosen(c, r) # 0 => Chosen(c, r) \in Slots
         /\ LimitOf(c, r).rate # 0 /\ Reusable(c, r) =>
              /\ Chosen(c, r) = live.lim[r] /\ Held(r, Chosen(c, r)) /\ Has(c, r)
         /\ LimitOf(c, r).rate # 0 /\ ~Reusable(c, r) => ~Held(r, Chosen(c, r))
<1>1. Fresh(r) \in Slots /\ ~Held(r, Fresh(r))
  BY DEF Reload, Fresh
<1>2. \A n \in Slots : n \in 0 .. MaxSlots /\ n # 0
  BY NumbersTyped DEF Slots
<1>3. 0 \in 0 .. MaxSlots
  BY NumbersTyped
<1>4. LimitOf(c, r).rate # 0 => Has(c, r)
  BY DEF LimitOf, LimitIn, None
<1>5. Reusable(c, r) => live.lim[r] # 0 /\ live.lim[r] \in Slots /\ Held(r, live.lim[r])
  BY LiveSlot DEF Reusable, Held
<1> QED BY <1>1, <1>2, <1>3, <1>4, <1>5 DEF Chosen

LEMMA LimiterIsSound ==
  ASSUME TypeOK, NEW c \in Confs, NEW r \in Ids, NEW n \in Slots
  PROVE  Sound(Limiter(c, r, n))
<1>1. Sound(lims[r][n]) /\ lims[r][n].loop \in BOOLEAN
  BY TypeOKMeans DEF Sound, Limiters
<1>2. (lims[r][n].loop /\ ~Closes(c, r, n)) \in BOOLEAN
  BY <1>1 DEF Closes
<1>3. Sound([lims[r][n] EXCEPT !.loop = lims[r][n].loop /\ ~Closes(c, r, n)])
  BY <1>1, <1>2, UnloopedIsSound
<1>4. Sound(NewLimiter(IF n = Chosen(c, r) THEN LimitOf(c, r) ELSE None))
  BY NewLimiterIsSound, LimitTyped, NoneTyped
<1> QED BY <1>3, <1>4 DEF Limiter

LEMMA ReloadReplaces ==
  ASSUME TypeOK, Current, SweptUnlessRefused, NEW c \in Confs, Reload(c)
  PROVE  /\ lims' \in [Ids -> [Slots -> Limiters]]
         /\ \A r \in Ids, n \in Slots : Sound(lims'[r][n])
         /\ live' \in [conf : Confs, lim : [Ids -> 0 .. MaxSlots]] /\ live'.conf = c
         /\ \A r \in Ids :
              /\ live'.lim[r] = Chosen(c, r)
              /\ Chosen(c, r) # 0 =>
                   LET w == lims'[r][Chosen(c, r)]
                   IN /\ w.rate = LimitOf(c, r).rate
                      /\ w.burst = Metered!Room(LimitOf(c, r))
                      /\ refused \/ w.loop
                      /\ \A k \in Keys : Reusable(c, r) =>
                           /\ Fill(w, k) = Fill(lims[r][live.lim[r]], k)
                           /\ Rests(w, k) = Rests(lims[r][live.lim[r]], k)
                      /\ \A k \in Keys :
                           ~Reusable(c, r) => Fill(w, k) = w.burst /\ Rests(w, k) = Idle + 1
<1>1. lims' = [r \in Ids |-> [n \in Slots |-> Limiter(c, r, n)]]
  BY DEF Reload
<1>2. \A r \in Ids, n \in Slots : Sound(Limiter(c, r, n))
  BY LimiterIsSound
<1>3. /\ lims' \in [Ids -> [Slots -> Limiters]]
      /\ \A r \in Ids, n \in Slots : Sound(lims'[r][n]) /\ lims'[r][n] = Limiter(c, r, n)
  BY <1>1, <1>2 DEF Sound
<1>4. /\ live' = [conf |-> c, lim |-> [r \in Ids |-> Chosen(c, r)]]
      /\ \A r \in Ids : Chosen(c, r) \in 0 .. MaxSlots
  BY ReloadChooses DEF Reload, Table
<1>5. ASSUME NEW r \in Ids, Chosen(c, r) # 0
      PROVE  LET w == lims'[r][Chosen(c, r)]
             IN /\ w.rate = LimitOf(c, r).rate
                /\ w.burst = Metered!Room(LimitOf(c, r))
                /\ refused \/ w.loop
                /\ \A k \in Keys : Reusable(c, r) =>
                     /\ Fill(w, k) = Fill(lims[r][live.lim[r]], k)
                     /\ Rests(w, k) = Rests(lims[r][live.lim[r]], k)
                /\ \A k \in Keys :
                     ~Reusable(c, r) => Fill(w, k) = w.burst /\ Rests(w, k) = Idle + 1
  <2> DEFINE n == Chosen(c, r)
             l == LimitOf(c, r)
  <2>1. n \in Slots /\ l.rate # 0 /\ lims'[r][n] = Limiter(c, r, n)
    BY <1>3, <1>5, ReloadChooses
  <2>2. CASE Reusable(c, r)
    <3> DEFINE m == lims[r][n]
               p == m.loop /\ ~Closes(c, r, n)
    <3>1. n = live.lim[r] /\ Held(r, n) /\ Has(c, r) /\ live.lim[r] # 0
      BY <1>5, <2>1, <2>2, ReloadChooses
    <3>2. Sound(m) /\ m.loop \in BOOLEAN /\ m.rate = l.rate /\ m.burst = Metered!Room(l)
      <4>1. Sound(m) /\ m.loop \in BOOLEAN /\ m.rate = l.rate /\ m.burst = l.burst
        BY <2>1, <2>2, <3>1, TypeOKMeans DEF Sound, Limiters, Reusable
      <4>2. m.burst >= Unit /\ l.burst \in Nat
        BY <3>1, LiveLimit, LimitTyped
      <4> HIDE DEF m, l, n
      <4> QED BY <4>1, <4>2, RoomTyped
    <3>3. refused \/ m.loop
      BY <3>1 DEF SweptUnlessRefused
    <3>4. ~Closes(c, r, n)
      BY <3>1 DEF Closes
    <3>5. p \in BOOLEAN /\ (p <=> m.loop)
      BY <3>2, <3>4
    <3>6. lims'[r][n] = [m EXCEPT !.loop = p]
      BY <2>1, <3>1 DEF Limiter
    <3> HIDE DEF p, m, n
    <3>7. /\ lims'[r][n].rate = m.rate /\ lims'[r][n].burst = m.burst /\ lims'[r][n].loop = p
          /\ \A k \in Keys : /\ Fill(lims'[r][n], k) = Fill(m, k)
                            /\ Rests(lims'[r][n], k) = Rests(m, k)
      BY <3>2, <3>5, <3>6, UnloopedIsSound
    <3> QED BY <2>2, <3>1, <3>2, <3>3, <3>5, <3>7 DEF n, m
  <2>3. CASE ~Reusable(c, r)
    <3>1. ~Held(r, n)
      BY <2>1, <2>3, ReloadChooses
    <3>2. lims'[r][n] = NewLimiter(l)
      BY <2>1, <3>1 DEF Limiter
    <3>3. l.rate \in Nat /\ l.burst \in Nat /\ l.global \in BOOLEAN
      BY LimitTyped
    <3> HIDE DEF l, n
    <3>4. /\ lims'[r][n].rate = l.rate /\ lims'[r][n].burst = Metered!Room(l)
          /\ lims'[r][n].loop = (l.rate # 0)
          /\ \A k \in Keys : /\ Fill(lims'[r][n], k) = Metered!Room(l)
                            /\ Rests(lims'[r][n], k) = Idle + 1
      BY <3>2, <3>3, NewLimiterIsSound
    <3> QED BY <2>1, <2>3, <3>4 DEF l, n
  <2> QED BY <2>2, <2>3
<1>6. /\ live'.conf = c /\ \A r \in Ids : live'.lim[r] = Chosen(c, r)
      /\ live' \in [conf : Confs, lim : [Ids -> 0 .. MaxSlots]]
  BY <1>4
<1> QED BY <1>3, <1>5, <1>6

-----------------------------------------------------------------------------
(* The invariant is inductive. *)

LEMMA RequestingTakes ==
  ASSUME TypeOK, Rightful, NEW q \in Requests, Requesting(q)
  PROVE  /\ live' = live /\ refused' = refused
         /\ \/ lims' = lims
            \/ \E r \in Ids, n \in Slots, k \in Keys :
                 lims' = [lims EXCEPT ![r][n] = Taken(lims[r][n], k)]
<1>1. CASE CheckRateLimit(q)
  <2> DEFINE r == IdOf(q)
             n == req[q].lim[r]
             k == Key(lims[r][n], req[q].ip)
  <2>1. r \in Ids /\ n \in 0 .. MaxSlots /\ n # 0
    BY <1>1, LimitSlot DEF CheckRateLimit
  <2>2. n \in Slots
    BY <2>1, NumbersTyped DEF Slots
  <2>3. req[q].ip \in Addresses
    <3>1. req[q].ip = ClientIP(req[q].x, Conf[req[q].tbl].trusted)
      BY <1>1 DEF CheckRateLimit, Rightful, Right, Admitted
    <3> QED BY <3>1, RequestTyped, ClientTyped
  <2>4. k \in Keys
    BY <2>3 DEF Key, Keys
  <2>5. lims' = [lims EXCEPT ![r][n] = Taken(lims[r][n], k)] /\ live' = live /\ refused' = refused
    BY <1>1 DEF CheckRateLimit
  <2> QED BY <2>1, <2>2, <2>4, <2>5
<1>2. CASE ~CheckRateLimit(q)
  BY <1>2 DEF Requesting, Arrive, Route, Unlimited, Forward, Refuse, Leave
<1> QED BY <1>1, <1>2

(* A step that moves requests and tokens, and no table. *)
LEMMA SameTable ==
  ASSUME IInv, live' = live, refused' = refused,
         lims' \in [Ids -> [Slots -> Limiters]],
         \A r \in Ids, n \in Slots :
           /\ Sound(lims'[r][n])
           /\ lims'[r][n].rate = lims[r][n].rate /\ lims'[r][n].burst = lims[r][n].burst
           /\ lims'[r][n].loop = lims[r][n].loop,
         req' \in [Requests -> Request], Rightful',
         \A p \in Requests : req'[p].route \in {0} \cup Enabled(req'[p].tbl)
  PROVE  IInv'
<1>1. TypeOK'
  BY TypeOKMeans, TypeOKMeansPrimed DEF IInv
<1>2. \A r \in Ids : live.lim[r] # 0 => live.lim[r] \in Slots
  BY LiveSlot DEF IInv
<1>3. Current'
  BY <1>2 DEF IInv, Current
<1>4. SweptUnlessRefused'
  BY <1>2 DEF IInv, SweptUnlessRefused
<1> QED BY <1>1, <1>3, <1>4 DEF IInv

LEMMA SameRequests ==
  ASSUME IInv, req' = req
  PROVE  /\ req' \in [Requests -> Request] /\ Rightful'
         /\ \A p \in Requests : req'[p].route \in {0} \cup Enabled(req'[p].tbl)
BY TypeOKMeans DEF IInv, Rightful

LEMMA InitInv == Init => IInv
<1> SUFFICES ASSUME Init PROVE IInv
  OBVIOUS
<1>1. First \in Confs /\ 0 \in 0 .. MaxSlots /\ 1 \in 0 .. MaxSlots /\ 1 \in Slots
  BY GatewayAssumption DEF Slots
<1> DEFINE l(r, n) == IF n = 1 THEN LimitOf(First, r) ELSE None
<1>2. ASSUME NEW r \in Ids, NEW n \in Slots
      PROVE  l(r, n).rate \in Nat /\ l(r, n).burst \in Nat /\ l(r, n).global \in BOOLEAN
  BY <1>1, LimitTyped, NoneTyped
<1>3. /\ lims = [r \in Ids |-> [n \in Slots |-> NewLimiter(l(r, n))]]
      /\ \A r \in Ids, n \in Slots : lims[r][n] = NewLimiter(l(r, n))
  BY DEF Init
<1>4. \A r : l(r, 1) = LimitOf(First, r)
  OBVIOUS
<1> HIDE DEF l
<1>5. ASSUME NEW r \in Ids, NEW n \in Slots
      PROVE  /\ Sound(lims[r][n]) /\ NewLimiter(l(r, n)) \in Limiters
             /\ lims[r][n].rate = l(r, n).rate
             /\ lims[r][n].burst = Metered!Room(l(r, n))
             /\ lims[r][n].loop = (l(r, n).rate # 0)
  <2>1. Sound(NewLimiter(l(r, n)))
    BY <1>2, NewLimiterIsSound
  <2> QED BY <2>1, <1>2, <1>3, NewLimiterIsSound DEF Sound
<1>6. lims \in [Ids -> [Slots -> Limiters]]
  BY <1>3, <1>5
<1>7. /\ live \in [conf : Confs, lim : [Ids -> 0 .. MaxSlots]]
      /\ live.conf = First
      /\ \A r \in Ids : live.lim[r] = IF LimitOf(First, r).rate = 0 THEN 0 ELSE 1
  BY <1>1 DEF Init
<1>8. \A r \in Ids : (live.lim[r] = 0 <=> LimitOf(First, r).rate = 0)
                      /\ (live.lim[r] # 0 => live.lim[r] = 1)
  BY <1>7
<1>9. /\ req \in [Requests -> Request] /\ refused = FALSE
      /\ \A q \in Requests : req[q] = Free
  BY FreeTyped DEF Init
<1>10. Rightful
  BY <1>9, FreeTyped DEF Rightful
<1>11. \A q \in Requests : req[q].route \in {0} \cup Enabled(req[q].tbl)
  BY <1>10 DEF Rightful, Right
<1>12. TypeOK
  BY <1>5, <1>6, <1>7, <1>8, <1>9, <1>11, TypeOKMeans
<1>13. Current
  BY <1>1, <1>4, <1>5, <1>7, <1>8 DEF Current
<1>14. SweptUnlessRefused
  <2> SUFFICES ASSUME NEW r \in Ids, live.lim[r] # 0 PROVE lims[r][live.lim[r]].loop
    BY DEF SweptUnlessRefused
  <2>1. live.lim[r] = 1 /\ l(r, 1).rate # 0
    BY <1>4, <1>8
  <2>2. lims[r][1].loop = (l(r, 1).rate # 0)
    BY <1>1, <1>5
  <2> QED BY <2>1, <2>2
<1> QED BY <1>10, <1>12, <1>13, <1>14 DEF IInv

LEMMA RequestingInv ==
  ASSUME IInv, NEW q \in Requests, Requesting(q)
  PROVE  IInv'
<1>1. /\ req' \in [Requests -> Request] /\ Rightful'
      /\ \A p \in Requests : req'[p].route \in {0} \cup Enabled(req'[p].tbl)
  BY RequestsStayRight DEF IInv
<1>2. live' = live /\ refused' = refused
  BY RequestingTakes DEF IInv
<1>3. \A r \in Ids, n \in Slots : Sound(lims[r][n])
  BY TypeOKMeans DEF IInv
<1>4. CASE lims' = lims
  <2>1. lims' \in [Ids -> [Slots -> Limiters]]
    BY <1>4, TypeOKMeans DEF IInv
  <2> QED BY <1>1, <1>2, <1>3, <1>4, <2>1, SameTable
<1>5. ASSUME NEW r \in Ids, NEW n \in Slots, NEW k \in Keys,
             lims' = [lims EXCEPT ![r][n] = Taken(lims[r][n], k)]
      PROVE  IInv'
  <2>1. LET w == Taken(lims[r][n], k)
        IN Sound(w) /\ w.rate = lims[r][n].rate /\ w.burst = lims[r][n].burst
           /\ w.loop = lims[r][n].loop
    BY <1>3, TakenIsSound
  <2>2. /\ lims' \in [Ids -> [Slots -> Limiters]]
        /\ \A s \in Ids, o \in Slots : Sound(lims'[s][o])
        /\ \A s \in Ids, o \in Slots :
             lims'[s][o] = IF s = r /\ o = n THEN Taken(lims[r][n], k) ELSE lims[s][o]
    BY <1>5, <2>1, LimitersUpdated DEF IInv
  <2> QED BY <1>1, <1>2, <2>1, <2>2, SameTable
<1> QED BY <1>4, <1>5, RequestingTakes DEF IInv

LEMMA SweepInv ==
  ASSUME IInv, NEW r \in Ids, NEW n \in Slots, Sweep(r, n)
  PROVE  IInv'
<1>1. live' = live /\ refused' = refused /\ req' = req
  BY DEF Sweep
<1>2. lims' = [lims EXCEPT ![r][n] = Unstale(lims[r][n])]
  BY SweepSweeps DEF IInv
<1>3. Sound(lims[r][n])
  BY TypeOKMeans DEF IInv
<1>4. LET w == Unstale(lims[r][n])
      IN Sound(w) /\ w.rate = lims[r][n].rate /\ w.burst = lims[r][n].burst
         /\ w.loop = lims[r][n].loop
  BY <1>3, UnstaleIsSound
<1>5. /\ lims' \in [Ids -> [Slots -> Limiters]]
      /\ \A s \in Ids, o \in Slots : Sound(lims'[s][o])
      /\ \A s \in Ids, o \in Slots :
           lims'[s][o] = IF s = r /\ o = n THEN Unstale(lims[r][n]) ELSE lims[s][o]
  BY <1>2, <1>4, LimitersUpdated DEF IInv
<1> QED BY <1>1, <1>4, <1>5, SameTable, SameRequests

LEMMA TickInv == ASSUME IInv, Tick PROVE IInv'
<1>1. live' = live /\ refused' = refused /\ req' = req
  BY DEF Tick
<1>2. /\ lims' \in [Ids -> [Slots -> Limiters]]
      /\ \A r \in Ids, n \in Slots : Sound(lims'[r][n]) /\ lims'[r][n] = Aged(lims[r][n])
  BY TickAges DEF IInv
<1>3. \A r \in Ids, n \in Slots :
        /\ lims'[r][n].rate = lims[r][n].rate /\ lims'[r][n].burst = lims[r][n].burst
        /\ lims'[r][n].loop = lims[r][n].loop
  BY <1>2, AgedIsSound, TypeOKMeans DEF IInv
<1> QED BY <1>1, <1>2, <1>3, SameTable, SameRequests

LEMMA ReloadInv ==
  ASSUME IInv, NEW c \in Confs, Reload(c)
  PROVE  IInv'
<1>1. refused' = refused /\ req' = req
  BY DEF Reload
<1>2. /\ lims' \in [Ids -> [Slots -> Limiters]]
      /\ \A r \in Ids, n \in Slots : Sound(lims'[r][n])
      /\ live' \in [conf : Confs, lim : [Ids -> 0 .. MaxSlots]] /\ live'.conf = c
  BY ReloadReplaces DEF IInv
<1>3. ASSUME NEW r \in Ids
      PROVE  /\ live'.lim[r] = Chosen(c, r)
             /\ Chosen(c, r) = 0 <=> LimitOf(c, r).rate = 0
             /\ Chosen(c, r) # 0 =>
                  /\ lims'[r][Chosen(c, r)].rate = LimitOf(c, r).rate
                  /\ lims'[r][Chosen(c, r)].burst = Metered!Room(LimitOf(c, r))
                  /\ refused \/ lims'[r][Chosen(c, r)].loop
  BY <1>3, ReloadReplaces, ReloadChooses DEF IInv
<1>4. TypeOK'
  BY <1>1, <1>2, <1>3, SameRequests, TypeOKMeans, TypeOKMeansPrimed DEF IInv
<1>5. Current'
  BY <1>2, <1>3 DEF Current
<1>6. SweptUnlessRefused'
  BY <1>1, <1>3 DEF SweptUnlessRefused
<1> QED BY <1>1, <1>4, <1>5, <1>6, SameRequests DEF IInv

LEMMA RefusedInv ==
  ASSUME IInv, NEW c \in Confs, ReloadRefused(c)
  PROVE  IInv'
<1>1. refused' = TRUE /\ req' = req /\ live' = live
  BY DEF ReloadRefused
<1>2. /\ lims' \in [Ids -> [Slots -> Limiters]]
      /\ \A r \in Ids, n \in Slots :
           /\ Sound(lims'[r][n])
           /\ lims'[r][n].rate = lims[r][n].rate /\ lims'[r][n].burst = lims[r][n].burst
  BY CloseCloses DEF IInv
<1>3. \A r \in Ids : live.lim[r] # 0 => live.lim[r] \in Slots
  BY LiveSlot DEF IInv
<1>4. TypeOK'
  BY <1>1, <1>2, SameRequests, TypeOKMeans, TypeOKMeansPrimed DEF IInv
<1>5. Current'
  BY <1>1, <1>2, <1>3 DEF IInv, Current
<1>6. SweptUnlessRefused'
  BY <1>1 DEF SweptUnlessRefused
<1> QED BY <1>1, <1>4, <1>5, <1>6, SameRequests DEF IInv

LEMMA NextInv == IInv /\ [Next]_vars => IInv'
<1> SUFFICES ASSUME IInv, [Next]_vars PROVE IInv'
  OBVIOUS
<1>1. CASE UNCHANGED vars
  <2>1. live' = live /\ lims' = lims /\ refused' = refused /\ req' = req
    BY <1>1 DEF vars
  <2> QED BY <2>1, SameTable, SameRequests, TypeOKMeans DEF IInv
<1>2. ASSUME NEW c \in Confs, Reload(c) PROVE IInv'
  BY <1>2, ReloadInv
<1>3. ASSUME NEW c \in Confs, ReloadRefused(c) PROVE IInv'
  BY <1>3, RefusedInv
<1>4. ASSUME NEW q \in Requests, Requesting(q) PROVE IInv'
  BY <1>4, RequestingInv
<1>5. ASSUME NEW r \in Ids, NEW n \in Slots, Sweep(r, n) PROVE IInv'
  BY <1>5, SweepInv
<1>6. ASSUME Tick PROVE IInv'
  BY <1>6, TickInv
<1> QED BY <1>1, <1>2, <1>3, <1>4, <1>5, <1>6 DEF Next, Requesting

LEMMA InvAlways == Spec => []IInv
BY InitInv, NextInv, PTL DEF Spec

(* The variables keep their types, whatever is configured: a bucket never  *)
(* holds more than its burst (ratelimit.go:63).                            *)
THEOREM GatewayTypes == Spec => []TypeOK
BY InvAlways, PTL DEF IInv

(* The limiters of the table in force are swept unless a reload has failed *)
(* half way (main.go:299).                                                 *)
THEOREM LimitersAreSwept == Spec => []SweptUnlessRefused
BY InvAlways, PTL DEF IInv

(* A request is forwarded only as the configuration of its arrival says,   *)
(* by the most specific of its routes (main.go:462, router.go:105).        *)
THEOREM OneTableEach == Spec => []OneTable
<1>1. IInv => OneTable
  <2> SUFFICES ASSUME IInv, NEW q \in Requests, req[q].stage = "forwarded"
               PROVE  Justified(q, req[q].from)
    BY DEF OneTable
  <2> DEFINE R == req[q]
             c == R.from
             i == R.route
  <2>1. R.tbl = c /\ c \in Confs /\ R.x \in Inputs /\ Right(R)
    BY RequestTyped DEF IInv, Rightful, Right, Admitted
  <2>2. R.ip = Source(R.x, Conf[c].trusted) /\ ~GloballyDenied(c, R.ip)
    BY <2>1, SourceIsClient DEF Right, Admitted
  <2>3. i = Match(c, R.x.port, HostOf[R.x.host], R.x.path) /\ i # 0
    BY <2>1 DEF Right, Routed, MatchIn
  <2>4. /\ Fits(c, i, R.x)
        /\ \A j \in DOMAIN Routes(c) : Fits(c, j, R.x) => ~Outranks(Rank(c, j), Rank(c, i))
    BY <2>1, <2>3, MatchIsBest
  <2>5. (R.x.tls \/ ~WantsRedirect(c, i)) /\ RouteAllows(c, i, R.ip)
    BY <2>1 DEF Right, Routed
  <2>6. LimitOf(c, Routes(c)[i].id).rate # 0 => R.paid
    BY <2>1 DEF Right, Paid
  <2>7. Authenticates(c, i, R.x)
    BY <2>1 DEF Right, Authentic
  <2> QED BY <2>2, <2>4, <2>5, <2>6, <2>7 DEF Justified
<1> QED BY <1>1, InvAlways, PTL

-----------------------------------------------------------------------------
(* The limiters implement the meter. *)

LEMMA OwedTyped ==
  ASSUME IInv, NEW r \in Ids, NEW k \in Keys
  PROVE  /\ Owed(r, k) \in Nat /\ Quiet(r, k) \in Nat
         /\ live.lim[r] = 0 => Owed(r, k) = 0 /\ Quiet(r, k) = Idle + 1
         /\ live.lim[r] # 0 =>
              /\ Owed(r, k) = lims[r][live.lim[r]].burst - Fill(lims[r][live.lim[r]], k)
              /\ Quiet(r, k) = Rests(lims[r][live.lim[r]], k)
<1>1. CASE live.lim[r] = 0
  BY <1>1, NumbersTyped DEF Owed, Quiet
<1>2. CASE live.lim[r] # 0
  <2> DEFINE m == lims[r][live.lim[r]]
  <2>1. Sound(m) /\ m.burst \in Nat
    BY <1>2, LiveSlot DEF IInv, Sound, Limiters
  <2>2. Fill(m, k) \in Nat /\ Fill(m, k) <= m.burst /\ Rests(m, k) \in Nat
    BY <2>1, FillTyped, RestsTyped
  <2>3. Owed(r, k) = m.burst - Fill(m, k) /\ Quiet(r, k) = Rests(m, k)
    BY <1>2 DEF Owed, Quiet
  <2> HIDE DEF m
  <2>4. m.burst - Fill(m, k) \in Nat
    BY <2>1, <2>2
  <2> QED BY <1>2, <2>2, <2>3, <2>4 DEF m
<1> QED BY <1>1, <1>2

(* The limits of a configuration, as the meter sees them. *)
LimitsOf(c) == [r \in Ids |-> [rate |-> LimitOf(c, r).rate, burst |-> LimitOf(c, r).burst]]

LEMMA LimitsTyped ==
  ASSUME NEW c \in Confs
  PROVE  /\ LimitsOf(c) \in [Ids -> Metered!Limit]
         /\ \A r \in Ids :
              /\ LimitsOf(c)[r].rate = LimitOf(c, r).rate /\ LimitsOf(c)[r].rate \in Nat
              /\ LimitsOf(c)[r].burst = LimitOf(c, r).burst /\ LimitsOf(c)[r].burst \in Nat
              /\ Metered!Room(LimitsOf(c)[r]) = Metered!Room(LimitOf(c, r))
              /\ Metered!Room(LimitsOf(c)[r]) \in Nat
              /\ Metered!Excess(LimitsOf(c)[r]) \in Nat
<1>1. \A r \in Ids :
        /\ LimitsOf(c)[r].rate = LimitOf(c, r).rate /\ LimitsOf(c)[r].rate \in Nat
        /\ LimitsOf(c)[r].burst = LimitOf(c, r).burst /\ LimitsOf(c)[r].burst \in Nat
  BY LimitTyped DEF LimitsOf
<1>2. LimitsOf(c) \in [Ids -> Metered!Limit]
  BY LimitTyped DEF LimitsOf, Metered!Limit
<1>3. ASSUME NEW r \in Ids
      PROVE  /\ Metered!Room(LimitsOf(c)[r]) = Metered!Room(LimitOf(c, r))
             /\ Metered!Room(LimitsOf(c)[r]) \in Nat
             /\ Metered!Excess(LimitsOf(c)[r]) \in Nat
  <2> DEFINE l == LimitsOf(c)[r]
             least == l.rate * (Idle + 1)
  <2>1. Metered!Room(l) \in Nat /\ l.rate \in Nat /\ Idle + 1 \in Nat
    BY <1>1, RoomTyped, NumbersTyped
  <2>2. Metered!Room(l) = Metered!Room(LimitOf(c, r))
    BY <1>1 DEF Metered!Room
  <2>3. least \in Nat
    BY <2>1, Products
  <2>4. Metered!Excess(l) = IF Metered!Room(l) > least THEN Metered!Room(l) - least ELSE 0
    BY DEF Metered!Excess
  <2> HIDE DEF l, least
  <2>5. Metered!Excess(l) \in Nat
    BY <2>1, <2>3, <2>4
  <2> QED BY <2>1, <2>2, <2>5 DEF l
<1> QED BY <1>1, <1>2, <1>3

LEMMA MeterReads ==
  /\ Debts = [r \in Ids |-> [k \in Keys |-> Owed(r, k)]]
  /\ Debts' = [r \in Ids |-> [k \in Keys |-> Owed(r, k)']]
  /\ Quiets = [r \in Ids |-> [k \in Keys |-> Quiet(r, k)]]
  /\ Quiets' = [r \in Ids |-> [k \in Keys |-> Quiet(r, k)']]
  /\ Limits = LimitsOf(live.conf)
  /\ Limits' = LimitsOf(live'.conf)
BY DEF Debts, Quiets, Limits, LimitsOf

(* A live limiter is the one the meter's limit asks for. *)
LEMMA LiveMeter ==
  ASSUME IInv, NEW r \in Ids, live.lim[r] # 0
  PROVE  LET m == lims[r][live.lim[r]]
         IN /\ live.lim[r] \in Slots /\ Sound(m)
            /\ m.rate \in Nat /\ m.rate # 0 /\ m.rate = Limits[r].rate
            /\ m.burst \in Nat /\ m.burst = Metered!Room(Limits[r])
            /\ Spare(m) = Metered!Excess(Limits[r])
<1> DEFINE m == lims[r][live.lim[r]]
<1>1. live.lim[r] \in Slots /\ Sound(m) /\ live.conf \in Confs
  BY LiveSlot DEF IInv
<1>2. /\ m.rate # 0 /\ m.burst \in Nat /\ m.rate = LimitOf(live.conf, r).rate
      /\ m.burst = Metered!Room(LimitOf(live.conf, r))
  BY LiveLimit DEF IInv
<1>3. m.rate \in Nat
  BY <1>1 DEF Sound, Limiters
<1>4. m.rate = Limits[r].rate /\ m.burst = Metered!Room(Limits[r])
  BY <1>1, <1>2, MeterReads, LimitsTyped
<1>5. Spare(m) = Metered!Excess(Limits[r])
  BY <1>4 DEF Spare, Metered!Excess
<1> QED BY <1>1, <1>2, <1>3, <1>4, <1>5

(* Nobody owes more than the burst. *)
LEMMA OwedBounded ==
  ASSUME IInv, NEW r \in Ids, NEW k \in Keys
  PROVE  /\ Limits[r].rate \in Nat /\ Metered!Room(Limits[r]) \in Nat
         /\ Metered!Excess(Limits[r]) \in Nat
         /\ Owed(r, k) \in Nat /\ Owed(r, k) <= Metered!Room(Limits[r])
<1>1. live.conf \in Confs
  BY TypeOKMeans DEF IInv
<1>2. /\ Limits[r].rate \in Nat /\ Metered!Room(Limits[r]) \in Nat
      /\ Metered!Excess(Limits[r]) \in Nat
  BY <1>1, MeterReads, LimitsTyped
<1>3. Owed(r, k) \in Nat
  BY OwedTyped
<1>4. Owed(r, k) <= Metered!Room(Limits[r])
  <2>1. CASE live.lim[r] = 0
    BY <1>2, <2>1, OwedTyped
  <2>2. CASE live.lim[r] # 0
    <3> DEFINE m == lims[r][live.lim[r]]
    <3>1. Sound(m) /\ m.burst = Metered!Room(Limits[r])
      BY <2>2, LiveMeter
    <3>2. Fill(m, k) \in Nat
      BY <3>1, FillTyped
    <3>3. Owed(r, k) = m.burst - Fill(m, k)
      BY <2>2, OwedTyped
    <3> HIDE DEF m
    <3> QED BY <1>2, <3>1, <3>2, <3>3
  <2> QED BY <2>1, <2>2
<1> QED BY <1>2, <1>3, <1>4

LEMMA OwedPrimed ==
  /\ \A r, k : Owed(r, k)' =
       IF live'.lim[r] = 0 THEN 0
       ELSE lims'[r][live'.lim[r]].burst - Fill(lims'[r][live'.lim[r]], k)
  /\ \A r, k : Quiet(r, k)' =
       IF live'.lim[r] = 0 THEN Idle + 1 ELSE Rests(lims'[r][live'.lim[r]], k)
BY DEF Owed, Quiet

(* What the meter sees of a key, when its limiter shows the same. *)
LEMMA KeyStands ==
  ASSUME IInv, live' = live, NEW r \in Ids, NEW k \in Keys,
         live.lim[r] # 0 =>
           /\ lims'[r][live.lim[r]].burst = lims[r][live.lim[r]].burst
           /\ Fill(lims'[r][live.lim[r]], k) = Fill(lims[r][live.lim[r]], k)
           /\ Rests(lims'[r][live.lim[r]], k) = Rests(lims[r][live.lim[r]], k)
  PROVE  Owed(r, k)' = Owed(r, k) /\ Quiet(r, k)' = Quiet(r, k)
BY OwedPrimed, OwedTyped

(* A step that no live limiter shows. *)
LEMMA MeterStands ==
  ASSUME IInv, live' = live,
         \A r \in Ids : live.lim[r] # 0 =>
           /\ lims'[r][live.lim[r]].burst = lims[r][live.lim[r]].burst
           /\ \A k \in Keys : /\ Fill(lims'[r][live.lim[r]], k) = Fill(lims[r][live.lim[r]], k)
                             /\ Rests(lims'[r][live.lim[r]], k) = Rests(lims[r][live.lim[r]], k)
  PROVE  Limits' = Limits /\ Debts' = Debts /\ Quiets' = Quiets
<1>1. \A r \in Ids, k \in Keys : Owed(r, k)' = Owed(r, k) /\ Quiet(r, k)' = Quiet(r, k)
  BY KeyStands
<1>2. Limits' = Limits
  BY MeterReads
<1> QED BY <1>1, <1>2, MeterReads

LEMMA MeterStandsStill ==
  ASSUME IInv, live' = live, lims' = lims
  PROVE  Limits' = Limits /\ Debts' = Debts /\ Quiets' = Quiets
BY MeterStands

LEMMA MeterInit == Init => Metered!Init
<1> SUFFICES ASSUME Init PROVE Metered!Init
  OBVIOUS
<1>1. IInv
  BY InitInv
<1>2. live.conf \in Confs
  BY <1>1, TypeOKMeans DEF IInv
<1>3. Limits \in [Ids -> Metered!Limit]
  BY <1>2, MeterReads, LimitsTyped
<1>4. ASSUME NEW r \in Ids, NEW k \in Keys PROVE Owed(r, k) = 0 /\ Quiet(r, k) = Idle + 1
  <2>1. CASE live.lim[r] = 0
    BY <1>1, <2>1, OwedTyped
  <2>2. CASE live.lim[r] # 0
    <3>1. live.lim[r] = 1 /\ 1 \in Slots
      BY <2>2, NumbersTyped DEF Init, Slots
    <3>2. lims[r][1] = NewLimiter(LimitOf(First, r))
      BY <3>1 DEF Init
    <3>3. /\ LimitOf(First, r).rate \in Nat /\ LimitOf(First, r).burst \in Nat
          /\ LimitOf(First, r).global \in BOOLEAN
      BY GatewayAssumption, LimitTyped
    <3>4. /\ Fill(lims[r][1], k) = lims[r][1].burst /\ lims[r][1].burst \in Nat
          /\ Rests(lims[r][1], k) = Idle + 1
      BY <3>2, <3>3, NewLimiterIsSound, RoomTyped
    <3>5. /\ Owed(r, k) = lims[r][1].burst - Fill(lims[r][1], k)
          /\ Quiet(r, k) = Rests(lims[r][1], k)
      BY <1>1, <2>2, <3>1, OwedTyped
    <3> QED BY <3>4, <3>5
  <2> QED BY <2>1, <2>2
<1>5. Debts = [r \in Ids |-> [k \in Keys |-> 0]]
  BY <1>4, MeterReads
<1>6. Quiets = [r \in Ids |-> [k \in Keys |-> Idle + 1]]
  BY <1>4, MeterReads
<1> QED BY <1>3, <1>5, <1>6 DEF Metered!Init

(* A change of what one key of one route owes, and of how long it is quiet. *)
LEMMA OneKeyMoves ==
  ASSUME IInv, NEW r \in Ids, NEW k \in Keys, NEW d, NEW t,
         \A s \in Ids, j \in Keys :
           /\ Owed(s, j)' = IF s = r /\ j = k THEN d ELSE Owed(s, j)
           /\ Quiet(s, j)' = IF s = r /\ j = k THEN t ELSE Quiet(s, j)
  PROVE  Debts' = [Debts EXCEPT ![r][k] = d] /\ Quiets' = [Quiets EXCEPT ![r][k] = t]
<1>1. [Debts EXCEPT ![r][k] = d]
      = [s \in Ids |-> [j \in Keys |-> IF s = r /\ j = k THEN d ELSE Owed(s, j)]]
  BY MeterReads
<1>2. [Quiets EXCEPT ![r][k] = t]
      = [s \in Ids |-> [j \in Keys |-> IF s = r /\ j = k THEN t ELSE Quiet(s, j)]]
  BY MeterReads
<1>3. Debts' = [s \in Ids |-> [j \in Keys |-> IF s = r /\ j = k THEN d ELSE Owed(s, j)]]
  BY MeterReads
<1>4. Quiets' = [s \in Ids |-> [j \in Keys |-> IF s = r /\ j = k THEN t ELSE Quiet(s, j)]]
  BY MeterReads
<1> QED BY <1>1, <1>2, <1>3, <1>4

LEMMA RequestingMeters ==
  ASSUME IInv, NEW q \in Requests, Requesting(q)
  PROVE  [Metered!Next]_Metered!vars
<1>1. live' = live
  BY RequestingTakes DEF IInv
<1>2. CASE lims' = lims
  BY <1>1, <1>2, MeterStandsStill DEF Metered!vars
<1>3. ASSUME NEW r \in Ids, NEW n \in Slots, NEW k \in Keys,
             lims' = [lims EXCEPT ![r][n] = Taken(lims[r][n], k)]
      PROVE  [Metered!Next]_Metered!vars
  <2> DEFINE m == lims[r][n]
             w == Taken(m, k)
  <2>1. Sound(m) /\ m.burst \in Nat /\ Fill(m, k) \in Nat
    BY TypeOKMeans, FillTyped DEF IInv, Sound, Limiters
  <2>2. /\ Sound(w) /\ w.rate = m.rate /\ w.burst = m.burst
        /\ Fill(w, k) = IF Admits(m, k) THEN Fill(m, k) - Unit ELSE Fill(m, k)
        /\ Rests(w, k) = 0
        /\ \A j \in Keys : j # k => Fill(w, j) = Fill(m, j) /\ Rests(w, j) = Rests(m, j)
    BY <2>1, TakenIsSound
  <2>3. \A s \in Ids, o \in Slots : lims'[s][o] = IF s = r /\ o = n THEN w ELSE lims[s][o]
    BY <1>3, <2>2, LimitersUpdated DEF IInv
  <2>4. \A s \in Ids : live.lim[s] # 0 => live.lim[s] \in Slots
    BY LiveSlot DEF IInv
  <2> HIDE DEF w
  <2>5. CASE live.lim[r] # n
    <3>1. \A s \in Ids : live.lim[s] # 0 => lims'[s][live.lim[s]] = lims[s][live.lim[s]]
      BY <2>3, <2>4, <2>5
    <3> QED BY <1>1, <3>1, MeterStands DEF Metered!vars
  <2>6. CASE live.lim[r] = n
    <3>1. live.lim[r] # 0
      BY <2>6, NumbersTyped DEF Slots
    <3>2. /\ Limits[r].rate # 0 /\ m.burst = Metered!Room(Limits[r]) /\ Limits' = Limits
      BY <1>1, <2>6, <3>1, LiveMeter, MeterReads
    <3>3. Debts[r][k] = m.burst - Fill(m, k)
      BY <2>6, <3>1, MeterReads, OwedTyped
    <3>4. lims'[r][live.lim[r]] = w
      BY <2>3, <2>6
    <3>5. Quiet(r, k)' = 0
      BY <1>1, <2>2, <3>1, <3>4, OwedPrimed
    <3>6. Owed(r, k)' = m.burst - Fill(w, k)
      BY <1>1, <2>2, <3>1, <3>4, OwedPrimed
    <3>7. ASSUME NEW s \in Ids, NEW j \in Keys, ~(s = r /\ j = k)
          PROVE  Owed(s, j)' = Owed(s, j) /\ Quiet(s, j)' = Quiet(s, j)
      <4>1. CASE s = r
        <5>1. j # k /\ Fill(w, j) = Fill(m, j) /\ Rests(w, j) = Rests(m, j)
          BY <2>2, <3>7, <4>1
        <5> QED BY <1>1, <2>2, <2>6, <3>4, <4>1, <5>1, KeyStands
      <4>2. CASE s # r
        <5>1. live.lim[s] # 0 => lims'[s][live.lim[s]] = lims[s][live.lim[s]]
          BY <2>3, <2>4, <4>2
        <5> QED BY <1>1, <5>1, KeyStands
      <4> QED BY <4>1, <4>2
    <3>8. /\ Debts' = [Debts EXCEPT ![r][k] = Owed(r, k)']
          /\ Quiets' = [Quiets EXCEPT ![r][k] = 0]
      BY <3>5, <3>7, OneKeyMoves
    <3>9. CASE Admits(m, k)
      <4>1. Fill(m, k) >= Unit
        BY <3>9 DEF Admits
      <4>2. Owed(r, k)' = Debts[r][k] + Unit /\ Debts[r][k] + Unit <= Metered!Room(Limits[r])
        BY <2>1, <2>2, <3>2, <3>3, <3>6, <3>9, <4>1, NumbersTyped
      <4>3. Metered!Admit(r, k)
        BY <3>2, <3>8, <4>2 DEF Metered!Admit
      <4> QED BY <4>3 DEF Metered!Next
    <3>10. CASE ~Admits(m, k)
      <4>1. Fill(m, k) < Unit
        BY <2>1, <3>10, NumbersTyped DEF Admits
      <4>2. Owed(r, k)' = Debts[r][k] /\ Debts[r][k] + Unit > Metered!Room(Limits[r])
        BY <2>1, <2>2, <3>2, <3>3, <3>6, <3>10, <4>1, NumbersTyped
      <4>3. [Debts EXCEPT ![r][k] = Debts[r][k]] = Debts
        BY MeterReads
      <4>4. Metered!Refuse(r, k)
        BY <3>2, <3>8, <4>2, <4>3 DEF Metered!Refuse
      <4> QED BY <4>4 DEF Metered!Next
    <3> QED BY <3>9, <3>10
  <2> QED BY <2>5, <2>6
<1> QED BY <1>2, <1>3, RequestingTakes DEF IInv

(* The keys a sweep of the limiter in slot n forgets. *)
Forgotten(r, n) == {k \in Keys : live.lim[r] = n /\ Stale(lims[r][n], k)}

LEMMA SweepForgets ==
  ASSUME IInv, NEW r \in Ids, NEW n \in Slots, Sweep(r, n)
  PROVE  /\ Limits' = Limits /\ live' = live
         /\ \A s \in Ids, k \in Keys :
              /\ Owed(s, k)' = IF s = r /\ k \in Forgotten(r, n) THEN 0 ELSE Owed(s, k)
              /\ Quiet(s, k)' = Quiet(s, k)
         /\ \A k \in Forgotten(r, n) :
              Quiet(r, k) > Idle /\ Owed(r, k) <= Metered!Excess(Limits[r])
<1>1. live' = live
  BY DEF Sweep
<1>2. Sound(lims[r][n]) /\ Sound(Unstale(lims[r][n]))
  BY TypeOKMeans, UnstaleIsSound DEF IInv
<1>3. lims' = [lims EXCEPT ![r][n] = Unstale(lims[r][n])]
  BY SweepSweeps DEF IInv
<1>4. \A s \in Ids, o \in Slots :
        lims'[s][o] = IF s = r /\ o = n THEN Unstale(lims[r][n]) ELSE lims[s][o]
  BY <1>2, <1>3, LimitersUpdated DEF IInv
<1>5. \A s \in Ids : live.lim[s] # 0 => live.lim[s] \in Slots
  BY LiveSlot DEF IInv
<1>6. n # 0
  BY NumbersTyped DEF Slots
<1>7. ASSUME NEW s \in Ids, NEW k \in Keys
      PROVE  /\ Owed(s, k)' = IF s = r /\ k \in Forgotten(r, n) THEN 0 ELSE Owed(s, k)
             /\ Quiet(s, k)' = Quiet(s, k)
  <2> DEFINE m == lims[r][n]
  <2>1. CASE ~(s = r /\ live.lim[r] = n)
    <3>1. live.lim[s] # 0 => lims'[s][live.lim[s]] = lims[s][live.lim[s]]
      BY <1>4, <1>5, <2>1
    <3>2. Owed(s, k)' = Owed(s, k) /\ Quiet(s, k)' = Quiet(s, k)
      BY <1>1, <3>1, KeyStands
    <3> QED BY <2>1, <3>2 DEF Forgotten
  <2>2. CASE s = r /\ live.lim[r] = n
    <3>1. lims'[r][live.lim[r]] = Unstale(m) /\ lims[r][live.lim[r]] = m /\ live.lim[r] # 0
      BY <1>4, <1>6, <2>2
    <3>2. /\ Unstale(m).burst = m.burst /\ Rests(Unstale(m), k) = Rests(m, k)
          /\ Fill(Unstale(m), k) = IF Stale(m, k) THEN m.burst ELSE Fill(m, k)
          /\ m.burst \in Nat
      BY <1>2, UnstaleIsSound, BucketTyped
    <3> HIDE DEF m
    <3>3. CASE Stale(m, k)
      <4>1. Owed(r, k)' = m.burst - m.burst /\ Quiet(r, k)' = Quiet(r, k)
        BY <1>1, <3>1, <3>2, <3>3, OwedPrimed, OwedTyped
      <4>2. k \in Forgotten(r, n)
        BY <2>2, <3>3 DEF Forgotten, m
      <4> QED BY <2>2, <3>2, <4>1, <4>2
    <3>4. CASE ~Stale(m, k)
      <4>1. Owed(r, k)' = Owed(r, k) /\ Quiet(r, k)' = Quiet(r, k)
        BY <1>1, <3>1, <3>2, <3>4, KeyStands
      <4>2. k \notin Forgotten(r, n)
        BY <3>4 DEF Forgotten, m
      <4> QED BY <2>2, <4>1, <4>2
    <3> QED BY <3>3, <3>4
  <2> QED BY <2>1, <2>2
<1>8. ASSUME NEW k \in Forgotten(r, n)
      PROVE  Quiet(r, k) > Idle /\ Owed(r, k) <= Metered!Excess(Limits[r])
  <2> DEFINE m == lims[r][n]
  <2>1. k \in Keys /\ live.lim[r] = n /\ Stale(m, k) /\ lims[r][live.lim[r]] = m
    BY DEF Forgotten
  <2>2. Sound(m) /\ Spare(m) = Metered!Excess(Limits[r])
    BY <1>6, <2>1, LiveMeter
  <2>3. m.burst - Fill(m, k) <= Spare(m) /\ Rests(m, k) = Idle + 1
    BY <2>1, <2>2, StaleOwesLittle, RestsTyped
  <2>4. Owed(r, k) = m.burst - Fill(m, k) /\ Quiet(r, k) = Rests(m, k)
    BY <1>6, <2>1, OwedTyped
  <2> HIDE DEF m
  <2> QED BY <2>2, <2>3, <2>4, NumbersTyped
<1>9. Limits' = Limits
  BY <1>1, MeterReads
<1> QED BY <1>1, <1>7, <1>8, <1>9

LEMMA SweepMeters ==
  ASSUME IInv, NEW r \in Ids, NEW n \in Slots, Sweep(r, n)
  PROVE  Metered!Forget(r, Forgotten(r, n))
<1> DEFINE K == Forgotten(r, n)
<1>1. K \subseteq Keys
  BY DEF Forgotten
<1>2. \A k \in K : Quiets[r][k] > Idle /\ Debts[r][k] <= Metered!Excess(Limits[r])
  BY <1>1, SweepForgets, MeterReads
<1>3. Limits' = Limits /\ Quiets' = Quiets
  BY SweepForgets, MeterReads
<1>4. Debts' = [Debts EXCEPT ![r] = [k \in Keys |-> IF k \in K THEN 0 ELSE Debts[r][k]]]
  <2>1. \A s \in Ids, k \in Keys : Owed(s, k)' = IF s = r /\ k \in K THEN 0 ELSE Owed(s, k)
    BY SweepForgets
  <2> HIDE DEF K
  <2>2. [Debts EXCEPT ![r] = [k \in Keys |-> IF k \in K THEN 0 ELSE Debts[r][k]]]
        = [s \in Ids |-> [k \in Keys |-> IF s = r /\ k \in K THEN 0 ELSE Owed(s, k)]]
    BY MeterReads
  <2>3. Debts' = [s \in Ids |-> [k \in Keys |-> IF s = r /\ k \in K THEN 0 ELSE Owed(s, k)]]
    BY <2>1, MeterReads
  <2> QED BY <2>2, <2>3
<1> QED BY <1>2, <1>3, <1>4 DEF Metered!Forget

LEMMA TickMeters == ASSUME IInv, Tick PROVE Metered!Drain
<1>1. live' = live
  BY DEF Tick
<1>2. ASSUME NEW r \in Ids, NEW k \in Keys
      PROVE  /\ Owed(r, k)' = IF Owed(r, k) > Limits[r].rate THEN Owed(r, k) - Limits[r].rate
                             ELSE 0
             /\ Quiet(r, k)' = IF Quiet(r, k) > Idle THEN Quiet(r, k) ELSE Quiet(r, k) + 1
  <2>1. Owed(r, k) \in Nat /\ Limits[r].rate \in Nat
    BY OwedBounded
  <2>2. CASE live.lim[r] = 0
    <3>1. /\ Owed(r, k) = 0 /\ Owed(r, k)' = 0
          /\ Quiet(r, k) = Idle + 1 /\ Quiet(r, k)' = Idle + 1
      BY <1>1, <2>2, OwedTyped, OwedPrimed
    <3> QED BY <2>1, <3>1, NumbersTyped
  <2>3. CASE live.lim[r] # 0
    <3> DEFINE n == live.lim[r]
               m == lims[r][n]
    <3>1. n \in Slots /\ Sound(m) /\ m.burst \in Nat /\ m.rate = Limits[r].rate
      BY <2>3, LiveMeter
    <3>2. lims'[r][n] = Aged(m)
      BY <3>1, TickAges DEF IInv
    <3>3. /\ Aged(m).burst = m.burst
          /\ Fill(Aged(m), k) = Lower(m.burst, Fill(m, k) + m.rate)
          /\ Rests(Aged(m), k) = IF Rests(m, k) > Idle THEN Rests(m, k) ELSE Rests(m, k) + 1
      BY <3>1, AgedIsSound
    <3>4. Owed(r, k) = m.burst - Fill(m, k) /\ Quiet(r, k) = Rests(m, k)
      BY <2>3, OwedTyped
    <3>5. /\ Owed(r, k)' = m.burst - Lower(m.burst, Fill(m, k) + m.rate)
          /\ Quiet(r, k)' = Rests(Aged(m), k)
      BY <1>1, <2>3, <3>2, <3>3, OwedPrimed
    <3>6. Fill(m, k) \in Nat /\ Fill(m, k) <= m.burst
      BY <3>1, FillTyped
    <3> HIDE DEF m, n
    <3>7. Owed(r, k)' = IF Owed(r, k) > Limits[r].rate THEN Owed(r, k) - Limits[r].rate ELSE 0
      BY <2>1, <3>1, <3>4, <3>5, <3>6 DEF Lower
    <3> QED BY <3>3, <3>4, <3>5, <3>7
  <2> QED BY <2>2, <2>3
<1>3. Limits' = Limits
  BY <1>1, MeterReads
<1>4. Debts' = [r \in Ids |-> [k \in Keys |-> Metered!Drained(r, k)]]
  <2>1. \A r \in Ids, k \in Keys : Owed(r, k)' = Metered!Drained(r, k)
    BY <1>2, MeterReads DEF Metered!Drained
  <2> QED BY <2>1, MeterReads
<1>5. Quiets' = [r \in Ids |-> [k \in Keys |-> Metered!Longer(r, k)]]
  <2>1. \A r \in Ids, k \in Keys : Quiet(r, k)' = Metered!Longer(r, k)
    BY <1>2, MeterReads DEF Metered!Longer
  <2> QED BY <2>1, MeterReads
<1> QED BY <1>3, <1>4, <1>5 DEF Metered!Drain

LEMMA ReloadKeeps ==
  ASSUME IInv, NEW c \in Confs, Reload(c), NEW r \in Ids, NEW k \in Keys
  PROVE  /\ Owed(r, k)' = IF Metered!Kept(Limits[r], Limits'[r]) THEN Owed(r, k) ELSE 0
         /\ Quiet(r, k)' = IF Metered!Kept(Limits[r], Limits'[r]) THEN Quiet(r, k) ELSE Idle + 1
<1> DEFINE kept == Metered!Kept(Limits[r], Limits'[r])
<1>1. live'.conf = c /\ live.conf \in Confs /\ live'.lim[r] = Chosen(c, r)
  BY ReloadReplaces, TypeOKMeans DEF IInv
<1>2. /\ Chosen(c, r) = 0 <=> LimitOf(c, r).rate = 0
      /\ live.lim[r] = 0 <=> LimitOf(live.conf, r).rate = 0
  BY ReloadChooses, TypeOKMeans DEF IInv
<1>3. kept <=> /\ LimitOf(c, r).rate = LimitOf(live.conf, r).rate
               /\ LimitOf(c, r).burst = Metered!Room(LimitOf(live.conf, r))
  BY <1>1, MeterReads, LimitsTyped DEF Metered!Kept
<1> HIDE DEF kept
<1>4. CASE Chosen(c, r) = 0
  <2>1. Owed(r, k)' = 0 /\ Quiet(r, k)' = Idle + 1
    BY <1>1, <1>4, OwedPrimed
  <2>2. kept => Owed(r, k) = 0 /\ Quiet(r, k) = Idle + 1
    BY <1>2, <1>3, <1>4, OwedTyped
  <2> QED BY <2>1, <2>2 DEF kept
<1>5. CASE Chosen(c, r) # 0
  <2> DEFINE w == lims'[r][Chosen(c, r)]
             m == lims[r][live.lim[r]]
  <2>1. /\ w.burst = Metered!Room(LimitOf(c, r))
        /\ Reusable(c, r) => Fill(w, k) = Fill(m, k) /\ Rests(w, k) = Rests(m, k)
        /\ ~Reusable(c, r) => Fill(w, k) = w.burst /\ Rests(w, k) = Idle + 1
    BY <1>5, ReloadReplaces DEF IInv
  <2>2. Owed(r, k)' = w.burst - Fill(w, k) /\ Quiet(r, k)' = Rests(w, k)
    BY <1>1, <1>5, OwedPrimed
  <2>3. Reusable(c, r) <=> kept
    <3>1. CASE live.lim[r] = 0
      <4>1. LimitOf(c, r).rate # LimitOf(live.conf, r).rate
        BY <1>2, <1>5, <3>1
      <4> QED BY <1>3, <3>1, <4>1 DEF Reusable
    <3>2. CASE live.lim[r] # 0
      <4>1. m.rate = LimitOf(live.conf, r).rate /\ m.burst = Metered!Room(LimitOf(live.conf, r))
        BY <3>2 DEF IInv, Current
      <4> QED BY <1>3, <3>2, <4>1 DEF Reusable
    <3> QED BY <3>1, <3>2
  <2>4. CASE Reusable(c, r)
    <3>1. live.lim[r] # 0 /\ m.burst = LimitOf(c, r).burst
      BY <2>4 DEF Reusable
    <3>2. m.burst >= Unit /\ LimitOf(c, r).burst \in Nat
      BY <3>1, LiveLimit, LimitTyped DEF IInv
    <3>3. w.burst = m.burst
      <4> HIDE DEF m, w
      <4> QED BY <2>1, <3>1, <3>2, RoomTyped
    <3>4. Owed(r, k) = m.burst - Fill(m, k) /\ Quiet(r, k) = Rests(m, k)
      BY <3>1, OwedTyped
    <3> QED BY <2>1, <2>2, <2>3, <2>4, <3>3, <3>4 DEF kept
  <2>5. CASE ~Reusable(c, r)
    <3>1. w.burst \in Nat
      BY <2>1, LimitTyped, RoomTyped
    <3> HIDE DEF w
    <3>2. Owed(r, k)' = 0
      BY <2>1, <2>2, <2>5, <3>1
    <3> QED BY <2>1, <2>2, <2>3, <2>5, <3>2 DEF kept
  <2> QED BY <2>4, <2>5
<1> QED BY <1>4, <1>5

LEMMA ReloadMeters ==
  ASSUME IInv, NEW c \in Confs, Reload(c)
  PROVE  Metered!Change
<1>1. Limits' \in [Ids -> Metered!Limit]
  <2>1. live'.conf = c
    BY ReloadReplaces DEF IInv
  <2> QED BY <2>1, MeterReads, LimitsTyped
<1>2. Debts' = [r \in Ids |-> [k \in Keys |->
                  IF Metered!Kept(Limits[r], Limits'[r]) THEN Debts[r][k] ELSE 0]]
  BY ReloadKeeps, MeterReads
<1>3. Quiets' = [r \in Ids |-> [k \in Keys |->
                  IF Metered!Kept(Limits[r], Limits'[r]) THEN Quiets[r][k] ELSE Idle + 1]]
  BY ReloadKeeps, MeterReads
<1> QED BY <1>1, <1>2, <1>3 DEF Metered!Change

LEMMA RefusedMeters ==
  ASSUME IInv, NEW c \in Confs, ReloadRefused(c)
  PROVE  Limits' = Limits /\ Debts' = Debts /\ Quiets' = Quiets
<1>1. live' = live
  BY DEF ReloadRefused
<1>2. \A r \in Ids : live.lim[r] # 0 => live.lim[r] \in Slots
  BY LiveSlot DEF IInv
<1>3. \A r \in Ids, n \in Slots :
        /\ lims'[r][n].burst = lims[r][n].burst
        /\ \A k \in Keys : /\ Fill(lims'[r][n], k) = Fill(lims[r][n], k)
                          /\ Rests(lims'[r][n], k) = Rests(lims[r][n], k)
  BY CloseCloses DEF IInv
<1> QED BY <1>1, <1>2, <1>3, MeterStands

LEMMA NextMeters == IInv /\ [Next]_vars => [Metered!Next]_Metered!vars
<1> SUFFICES ASSUME IInv, [Next]_vars PROVE [Metered!Next]_Metered!vars
  OBVIOUS
<1>1. CASE UNCHANGED vars
  BY <1>1, MeterStandsStill DEF vars, Metered!vars
<1>2. ASSUME NEW c \in Confs, Reload(c) PROVE [Metered!Next]_Metered!vars
  BY <1>2, ReloadMeters DEF Metered!Next
<1>3. ASSUME NEW c \in Confs, ReloadRefused(c) PROVE [Metered!Next]_Metered!vars
  BY <1>3, RefusedMeters DEF Metered!vars
<1>4. ASSUME NEW q \in Requests, Requesting(q) PROVE [Metered!Next]_Metered!vars
  BY <1>4, RequestingMeters
<1>5. ASSUME NEW r \in Ids, NEW n \in Slots, Sweep(r, n) PROVE [Metered!Next]_Metered!vars
  <2>1. Metered!Forget(r, Forgotten(r, n)) /\ Forgotten(r, n) \in SUBSET Keys
    BY <1>5, SweepMeters DEF Forgotten
  <2> QED BY <2>1 DEF Metered!Next
<1>6. ASSUME Tick PROVE [Metered!Next]_Metered!vars
  BY <1>6, TickMeters DEF Metered!Next
<1> QED BY <1>1, <1>2, <1>3, <1>4, <1>5, <1>6 DEF Next, Requesting

(* The buckets, clamped, refilled lazily, swept when idle and handed from  *)
(* table to table, are the meter, for any configurations: a key is let     *)
(* through as its burst and rate allow; a sweep forgives what a burst above *)
(* the rate of the idle time leaves owing, a reload what is owed under a   *)
(* limit it changes or one with a burst below a token, and nothing else    *)
(* forgives (ratelimit.go:29-101, router.go:239).                          *)
THEOREM LimitersImplementMeter == Spec => ImplementsMeter
<1>1. Init => Metered!Init
  BY MeterInit
<1>2. IInv /\ [Next]_vars => [Metered!Next]_Metered!vars
  BY NextMeters
<1>3. Spec => Metered!Spec
  BY <1>1, <1>2, InvAlways, PTL DEF Spec, Metered!Spec
<1> QED BY <1>3 DEF ImplementsMeter

-----------------------------------------------------------------------------
(* How often a limiter lets a key through in a period. *)

VARIABLES
  passed,   \* how often the limiter in force has let the key through
  elapsed,  \* units of time
  swept     \* how often the bucket of the key has been swept

counts == <<passed, elapsed, swept>>

(* The limiter of r that the table in force has lets q through, under k. *)
LetsThrough(q, r, k) ==
  /\ CheckRateLimit(q) /\ req'[q].stage = "circuit"
  /\ r = IdOf(q) /\ req[q].lim[r] = live.lim[r]
  /\ k = Key(lims[r][live.lim[r]], req[q].ip)

(* What counts for the key k of the route r; a period may begin whenever it *)
(* likes, and begins anew when a reload does not keep the limiter of r.     *)
Begins == passed' = 0 /\ elapsed' = 0 /\ swept' = 0

Keeps(r) == Metered!Kept(Limits[r], Limits'[r])

Period(r, k) ==
  \/ \E q \in Requests :
       /\ Requesting(q) /\ UNCHANGED <<elapsed, swept>>
       /\ passed' = IF LetsThrough(q, r, k) THEN passed + 1 ELSE passed
  \/ Tick /\ elapsed' = elapsed + 1 /\ UNCHANGED <<passed, swept>>
  \/ \E s \in Ids, n \in Slots :
       /\ Sweep(s, n) /\ UNCHANGED <<passed, elapsed>>
       /\ swept' = IF s = r /\ k \in Forgotten(s, n) THEN swept + 1 ELSE swept
  \/ \E c \in Confs :
       \/ Reload(c) /\ IF Keeps(r) THEN UNCHANGED counts ELSE Begins
       \/ ReloadRefused(c) /\ UNCHANGED counts
  \/ [Next]_vars /\ Begins

PeriodSpec(r, k) ==
  /\ Init /\ passed = 0 /\ elapsed = 0 /\ swept = 0
  /\ [][Period(r, k)]_<<vars, counts>>

Made(r) == Limits[r].rate * elapsed
Given(r) == Metered!Excess(Limits[r]) * swept

RateKept(r, k) == Unit * passed <= Metered!Room(Limits[r]) + Made(r) + Given(r)

(* What has been let through is still owed, or time has made it good, or a *)
(* sweep has forgiven it.                                                  *)
Accounted(r, k) ==
  /\ passed \in Nat /\ elapsed \in Nat /\ swept \in Nat
  /\ Unit * passed <= Owed(r, k) + Made(r) + Given(r)

Solvent(r, k) == /\ Limits[r].rate \in Nat /\ Metered!Room(Limits[r]) \in Nat
                 /\ Metered!Excess(Limits[r]) \in Nat
                 /\ Owed(r, k) \in Nat /\ Owed(r, k) <= Metered!Room(Limits[r])

LEMMA TokenIsOwed ==
  ASSUME IInv, NEW q \in Requests, Requesting(q), NEW r \in Ids, NEW k \in Keys
  PROVE  /\ Limits' = Limits
         /\ Owed(r, k)' = IF LetsThrough(q, r, k) THEN Owed(r, k) + Unit ELSE Owed(r, k)
<1>1. live' = live
  BY RequestingTakes DEF IInv
<1>2. Limits' = Limits
  BY <1>1, MeterReads
<1>3. CASE ~CheckRateLimit(q)
  <2>1. lims' = lims
    BY <1>3 DEF Requesting, Arrive, Route, Unlimited, Forward, Refuse, Leave
  <2>2. Owed(r, k)' = Owed(r, k)
    BY <1>1, <2>1 DEF Owed
  <2> QED BY <1>2, <1>3, <2>2 DEF LetsThrough
<1>4. CASE CheckRateLimit(q)
  <2> DEFINE s == IdOf(q)
             n == req[q].lim[s]
             m == lims[s][n]
             j == Key(m, req[q].ip)
             w == Taken(m, j)
  <2>1. s \in Ids /\ n \in Slots /\ n # 0
    BY <1>4, LimitSlot, NumbersTyped DEF CheckRateLimit, Slots, IInv
  <2>2. j \in Keys
    <3>1. req[q].ip = ClientIP(req[q].x, Conf[req[q].tbl].trusted)
      BY <1>4 DEF CheckRateLimit, IInv, Rightful, Right, Admitted
    <3> QED BY <3>1, RequestTyped, ClientTyped DEF Key, Keys, IInv
  <2>3. lims' = [lims EXCEPT ![s][n] = w] /\ (req'[q].stage = "circuit" <=> Admits(m, j))
    <3>1. Free.stage = "idle" /\ req \in [Requests -> Request]
      BY TypeOKMeans DEF Free, IInv
    <3>2. Admits(m, j) => req'[q].stage = "circuit"
      <4>1. SUFFICES ASSUME Admits(m, j) PROVE req'[q].stage = "circuit"
        OBVIOUS
      <4>2. req' = [req EXCEPT ![q].paid = TRUE, ![q].lim = NoLimiters, ![q].stage = "circuit"]
        BY <1>4, <4>1 DEF CheckRateLimit
      <4>3. req'[q] = [req[q] EXCEPT !.paid = TRUE, !.lim = NoLimiters, !.stage = "circuit"]
        BY <3>1, <4>2
      <4>4. req[q] \in Request
        BY <3>1
      <4> QED BY <4>3, <4>4 DEF Request
    <3>3. ~Admits(m, j) => req'[q].stage = "idle"
      BY <1>4, <3>1 DEF CheckRateLimit, Answered
    <3> QED BY <1>4, <3>2, <3>3 DEF CheckRateLimit
  <2>4. Sound(m) /\ m.burst \in Nat /\ Fill(m, j) \in Nat
    BY <2>1, <2>2, TypeOKMeans, FillTyped DEF IInv, Sound, Limiters
  <2>5. /\ Sound(w) /\ w.burst = m.burst
        /\ Fill(w, j) = IF Admits(m, j) THEN Fill(m, j) - Unit ELSE Fill(m, j)
        /\ \A i \in Keys : i # j => Fill(w, i) = Fill(m, i)
    BY <2>2, <2>4, TakenIsSound
  <2>6. \A t \in Ids, o \in Slots : lims'[t][o] = IF t = s /\ o = n THEN w ELSE lims[t][o]
    BY <2>1, <2>3, <2>5, LimitersUpdated DEF IInv
  <2>7. LetsThrough(q, r, k) <=> r = s /\ live.lim[r] = n /\ k = j /\ Admits(m, j)
    BY <1>4, <2>3 DEF LetsThrough
  <2> HIDE DEF s, n, m, j, w
  <2>8. CASE live.lim[r] = 0
    BY <1>1, <1>2, <2>1, <2>7, <2>8, OwedPrimed, OwedTyped
  <2>9. CASE live.lim[r] # 0 /\ ~(r = s /\ live.lim[r] = n)
    <3>1. live.lim[r] \in Slots
      BY <2>9, LiveSlot DEF IInv
    <3>2. lims'[r][live.lim[r]] = lims[r][live.lim[r]]
      BY <2>6, <2>9, <3>1
    <3> QED BY <1>1, <1>2, <2>7, <2>9, <3>2, OwedPrimed, OwedTyped
  <2>10. CASE live.lim[r] # 0 /\ r = s /\ live.lim[r] = n
    <3>1. lims'[r][live.lim[r]] = w /\ lims[r][live.lim[r]] = m
      BY <2>1, <2>6, <2>10 DEF m
    <3>2. Owed(r, k) = m.burst - Fill(m, k) /\ Owed(r, k)' = w.burst - Fill(w, k)
      BY <1>1, <2>10, <3>1, OwedPrimed, OwedTyped
    <3>3. CASE k = j
      BY <1>2, <2>4, <2>5, <2>7, <2>10, <3>2, <3>3, NumbersTyped
    <3>4. CASE k # j
      BY <1>2, <2>5, <2>7, <2>10, <3>2, <3>4
    <3> QED BY <3>3, <3>4
  <2> QED BY <2>8, <2>9, <2>10
<1> QED BY <1>3, <1>4

LEMMA PeriodIsNext ==
  ASSUME NEW r, NEW k
  PROVE  [Period(r, k)]_<<vars, counts>> => [Next]_vars
BY DEF Period, Next, Requesting, vars, counts

(* A reload that keeps the limiter keeps what it may let through. *)
LEMMA KeptLimit ==
  ASSUME IInv, NEW c \in Confs, Reload(c), NEW r \in Ids, Keeps(r)
  PROVE  /\ Limits'[r].rate = Limits[r].rate
         /\ Metered!Room(Limits'[r]) = Metered!Room(Limits[r])
         /\ Metered!Excess(Limits'[r]) = Metered!Excess(Limits[r])
<1>1. Limits'[r].rate = Limits[r].rate /\ Limits'[r].burst = Metered!Room(Limits[r])
  BY DEF Keeps, Metered!Kept
<1>2. live.conf \in Confs
  BY TypeOKMeans DEF IInv
<1>3. Limits[r].burst \in Nat
  BY <1>2, MeterReads, LimitsTyped
<1>4. Metered!Room(Limits[r]) \in Nat /\ Metered!Room(Limits[r]) >= Unit
  BY <1>3, RoomTyped
<1>5. Metered!Room(Limits'[r]) = Metered!Room(Limits[r])
  BY <1>1, <1>4, RoomTyped
<1> QED BY <1>1, <1>5 DEF Metered!Excess

LEMMA AccountKept ==
  ASSUME NEW r \in Ids, NEW k \in Keys
  PROVE  /\ IInv /\ Solvent(r, k) /\ Solvent(r, k)' /\ Accounted(r, k)
         /\ [Period(r, k)]_<<vars, counts>>
         => Accounted(r, k)'
<1> SUFFICES ASSUME IInv, Solvent(r, k), Solvent(r, k)', Accounted(r, k),
                    [Period(r, k)]_<<vars, counts>>
             PROVE  Accounted(r, k)'
  OBVIOUS
<1> DEFINE rate == Limits[r].rate
           excess == Metered!Excess(Limits[r])
           owed == Owed(r, k)
           made == rate * elapsed
           given == excess * swept
           paid == Unit * passed
<1>1. /\ owed \in Nat /\ owed' \in Nat /\ rate \in Nat /\ rate' \in Nat
      /\ excess \in Nat /\ excess' \in Nat
      /\ passed \in Nat /\ elapsed \in Nat /\ swept \in Nat
      /\ Unit \in Nat /\ paid <= owed + made + given
  BY NumbersTyped DEF Accounted, Solvent, Made, Given
<1>2. /\ rate * (elapsed + 1) = rate * elapsed + rate /\ rate' * 0 = 0
      /\ excess * (swept + 1) = excess * swept + excess /\ excess' * 0 = 0
      /\ Unit * (passed + 1) = Unit * passed + Unit /\ Unit * 0 = 0
      /\ made = rate * elapsed /\ made' = rate' * elapsed'
      /\ given = excess * swept /\ given' = excess' * swept'
      /\ paid = Unit * passed /\ paid' = Unit * passed'
  BY <1>1, Products
<1>3. made \in Nat /\ given \in Nat /\ paid \in Nat
  BY <1>1, Products
<1> HIDE DEF rate, excess, owed, made, given, paid
<1>4. ASSUME passed' \in Nat, elapsed' \in Nat, swept' \in Nat,
             paid' <= owed' + made' + given'
      PROVE  Accounted(r, k)'
  BY <1>4 DEF Accounted, Made, Given, rate, excess, owed, made, given, paid
<1>5. ASSUME Begins PROVE Accounted(r, k)'
  <2>1. passed' = 0 /\ elapsed' = 0 /\ swept' = 0 /\ made' = 0 /\ given' = 0 /\ paid' = 0
    BY <1>2, <1>5 DEF Begins
  <2>2. paid' <= owed' + made' + given'
    <3>1. \A n \in Nat : 0 <= n + 0 + 0
      OBVIOUS
    <3>2. 0 <= owed' + 0 + 0
      BY <1>1, <3>1, Zenon
    <3> QED BY <2>1, <3>2, Zenon
  <2>3. passed' \in Nat /\ elapsed' \in Nat /\ swept' \in Nat
    BY <2>1
  <2> QED BY <1>4, <2>2, <2>3
<1>6. ASSUME UNCHANGED counts, rate' = rate, excess' = excess, owed' = owed
      PROVE  Accounted(r, k)'
  <2>1. /\ passed' = passed /\ elapsed' = elapsed /\ swept' = swept
        /\ made' = made /\ given' = given /\ paid' = paid
    BY <1>2, <1>6 DEF counts
  <2> QED BY <1>1, <1>4, <1>6, <2>1
<1>7. ASSUME NEW q \in Requests, Requesting(q), UNCHANGED <<elapsed, swept>>,
             passed' = IF LetsThrough(q, r, k) THEN passed + 1 ELSE passed
      PROVE  Accounted(r, k)'
  <2>1. Limits' = Limits /\ owed' = IF LetsThrough(q, r, k) THEN owed + Unit ELSE owed
    BY <1>7, TokenIsOwed DEF owed
  <2>2. rate' = rate /\ excess' = excess
    BY <2>1 DEF rate, excess
  <2>3. made' = made /\ given' = given
    BY <1>2, <1>7, <2>2
  <2>4. paid' = IF LetsThrough(q, r, k) THEN paid + Unit ELSE paid
    BY <1>2, <1>7
  <2>5. paid' <= owed' + made' + given'
    BY <1>1, <1>3, <2>1, <2>3, <2>4
  <2> QED BY <1>1, <1>4, <1>7, <2>5
<1>8. ASSUME Tick, elapsed' = elapsed + 1, UNCHANGED <<passed, swept>>
      PROVE  Accounted(r, k)'
  <2>1. Limits' = Limits /\ Debts' = [s \in Ids |-> [j \in Keys |-> Metered!Drained(s, j)]]
    BY <1>8, TickMeters DEF Metered!Drain
  <2>2. rate' = rate /\ excess' = excess
    BY <2>1 DEF rate, excess
  <2>3. owed' = IF owed > rate THEN owed - rate ELSE 0
    BY <2>1, MeterReads DEF rate, owed, Metered!Drained
  <2>4. made' = made + rate /\ given' = given /\ paid' = paid
    BY <1>2, <1>8, <2>2
  <2>5. paid' <= owed' + made' + given'
    BY <1>1, <1>3, <2>3, <2>4
  <2> QED BY <1>1, <1>4, <1>8, <2>5
<1>9. ASSUME Limits' = Limits, Debts' = Debts, UNCHANGED counts PROVE Accounted(r, k)'
  <2>1. rate' = rate /\ excess' = excess /\ owed' = owed
    BY <1>9, MeterReads DEF rate, excess, owed
  <2> QED BY <1>6, <1>9, <2>1
<1>10. ASSUME NEW s \in Ids, NEW n \in Slots, Sweep(s, n), UNCHANGED <<passed, elapsed>>,
              swept' = IF s = r /\ k \in Forgotten(s, n) THEN swept + 1 ELSE swept
       PROVE  Accounted(r, k)'
  <2>1. /\ Limits' = Limits
        /\ owed' = IF s = r /\ k \in Forgotten(s, n) THEN 0 ELSE owed
        /\ s = r /\ k \in Forgotten(s, n) => owed <= excess
    BY <1>10, SweepForgets DEF owed, excess
  <2>2. rate' = rate /\ excess' = excess
    BY <2>1 DEF rate, excess
  <2>3. made' = made /\ paid' = paid
    BY <1>2, <1>10, <2>2
  <2>4. given' = IF s = r /\ k \in Forgotten(s, n) THEN given + excess ELSE given
    BY <1>2, <1>10, <2>2
  <2>5. paid' <= owed' + made' + given'
    BY <1>1, <1>3, <2>1, <2>3, <2>4
  <2> QED BY <1>1, <1>4, <1>10, <2>5
<1>11. ASSUME NEW c \in Confs, Reload(c), Keeps(r), UNCHANGED counts
       PROVE  Accounted(r, k)'
  <2>1. owed' = owed
    BY <1>11, ReloadKeeps DEF owed, Keeps
  <2>2. rate' = rate /\ excess' = excess
    BY <1>11, KeptLimit DEF rate, excess
  <2> QED BY <1>6, <1>11, <2>1, <2>2
<1>12. ASSUME NEW c \in Confs, ReloadRefused(c), UNCHANGED counts PROVE Accounted(r, k)'
  BY <1>9, <1>12, RefusedMeters
<1>13. CASE UNCHANGED <<vars, counts>>
  BY <1>9, <1>13, MeterStandsStill DEF vars
<1> QED BY <1>5, <1>7, <1>8, <1>10, <1>11, <1>12, <1>13 DEF Period

(* In any period, from any moment on, in which no reload replaces the      *)
(* limiter of a route, it lets a key through no more often than its burst, *)
(* or one token if that is more, and the rate times the period allow, and  *)
(* as much more for every sweep of the key's bucket as the burst exceeds   *)
(* what the rate makes good in the idle time; whatever requests, sweeps    *)
(* and reloads there are (ratelimit.go:29-101, router.go:239).             *)
THEOREM RateIsKept ==
  ASSUME NEW CONSTANT r \in Ids, NEW CONSTANT k \in Keys
  PROVE  PeriodSpec(r, k) => []RateKept(r, k)
<1>1. Init /\ passed = 0 /\ elapsed = 0 /\ swept = 0 => Accounted(r, k)
  <2> SUFFICES ASSUME Init, passed = 0, elapsed = 0, swept = 0 PROVE Accounted(r, k)
    OBVIOUS
  <2>1. /\ Owed(r, k) \in Nat /\ Limits[r].rate \in Nat /\ Unit \in Nat
        /\ Metered!Excess(Limits[r]) \in Nat
    BY InitInv, OwedBounded, NumbersTyped
  <2>2. Limits[r].rate * 0 = 0 /\ Metered!Excess(Limits[r]) * 0 = 0 /\ Unit * 0 = 0
    BY <2>1, Products
  <2>3. Made(r) = 0 /\ Given(r) = 0 /\ Unit * passed = 0
    BY <2>2 DEF Made, Given
  <2>4. 0 <= Owed(r, k) + 0 + 0
    BY <2>1
  <2> QED BY <2>3, <2>4 DEF Accounted
<1>2. IInv /\ Accounted(r, k) => RateKept(r, k)
  <2> SUFFICES ASSUME IInv, Accounted(r, k) PROVE RateKept(r, k)
    OBVIOUS
  <2> DEFINE room == Metered!Room(Limits[r])
             paid == Unit * passed
  <2>1. /\ Limits[r].rate \in Nat /\ room \in Nat /\ Unit \in Nat
        /\ Metered!Excess(Limits[r]) \in Nat
        /\ Owed(r, k) \in Nat /\ Owed(r, k) <= room
    BY OwedBounded, NumbersTyped
  <2>2. /\ paid \in Nat /\ Made(r) \in Nat /\ Given(r) \in Nat
        /\ paid <= Owed(r, k) + Made(r) + Given(r)
    BY <2>1, Products DEF Accounted, Made, Given
  <2> HIDE DEF room, paid
  <2>3. paid <= room + Made(r) + Given(r)
    BY <2>1, <2>2
  <2> QED BY <2>3 DEF RateKept, room, paid
<1>3. [Period(r, k)]_<<vars, counts>> => [Next]_vars
  BY PeriodIsNext
<1>4. IInv /\ Solvent(r, k) /\ Solvent(r, k)' /\ Accounted(r, k) /\ [Period(r, k)]_<<vars, counts>>
        => Accounted(r, k)'
  BY AccountKept
<1>5. IInv => Solvent(r, k)
  BY OwedBounded DEF Solvent
<1> QED BY <1>1, <1>2, <1>3, <1>4, <1>5, InitInv, NextInv, PTL DEF PeriodSpec
=============================================================================
