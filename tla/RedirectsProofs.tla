-------------------------- MODULE RedirectsProofs --------------------------
(***************************************************************************)
(* Proofs about Redirects, for all providers, AuthPolicies and redirects   *)
(* of workloads: which Locations the script rewrites, and that a table of  *)
(* parameters written in any order says what the table says.               *)
(***************************************************************************)
EXTENDS Redirects, FiniteSetTheorems, TLAPS

----------------------------------------------------------------------------
(* Greatest elements.                                                      *)

LEMMA LeastOf ==
  ASSUME NEW R, NEW S, S \subseteq Nat, S # {}, IsWellFoundedOn(R, Nat),
         \A x, y \in Nat : x < y => << x, y >> \in R
  PROVE  \E m \in S : \A n \in S : m <= n
<1>1. IsWellFoundedOn(R, Nat)
  OBVIOUS
<1>2. \E m \in S : \A n \in S : << n, m >> \notin R
  BY ONLY S \subseteq Nat, S # {}, <1>1, WFMin, ZenonT(30)
<1>3. PICK m \in S : \A n \in S : << n, m >> \notin R
  BY <1>2
<1>4. ASSUME NEW n \in S
      PROVE  m <= n
  <2>1. m \in Nat /\ n \in Nat
    OBVIOUS
  <2>2. ~(n < m)
    BY <1>3, <2>1, Zenon
  <2> QED
    BY <2>1, <2>2
<1> QED
  BY <1>4

\* A set of numbers has a least one.
LEMMA Least ==
  ASSUME NEW S, S \subseteq Nat, S # {}
  PROVE  \E m \in S : \A n \in S : m <= n
<1> DEFINE R == OpToRel(<, Nat)
<1>1. IsWellFoundedOn(R, Nat)
  BY NatLessThanWellFounded
<1>2. \A x, y \in Nat : x < y => << x, y >> \in R
  BY DEF OpToRel
<1> HIDE DEF R
<1> QED
  BY <1>1, <1>2, LeastOf

\* A bounded set of numbers has a greatest one.
LEMMA Greatest ==
  ASSUME NEW n \in Nat, NEW S, S \subseteq 1..n, S # {}
  PROVE  \E m \in S : \A k \in S : k <= m
<1> DEFINE D == { d \in 0..n : n - d \in S }
<1>1. D \subseteq Nat
  OBVIOUS
<1>2. \A k \in S : n - k \in D /\ k \in 1..n
  OBVIOUS
<1>3. D # {}
  BY <1>2
<1>4. \A d \in D : d \in 0..n /\ n - d \in S
  OBVIOUS
<1> HIDE DEF D
<1>5. PICK d \in D : \A x \in D : d <= x
  BY <1>1, <1>3, Least
<1>6. ASSUME NEW k \in S
      PROVE  k <= n - d
  <2>1. d <= n - k /\ k \in 1..n /\ d \in 0..n
    BY <1>2, <1>4, <1>5
  <2> QED
    BY <2>1
<1> QED
  BY <1>4, <1>6

----------------------------------------------------------------------------
(* Tables of parameters and the queries they are written to.               *)

\* A sequence that lists a finite set without repetition lists all of it.
LEMMA ListsAll ==
  ASSUME NEW S, IsFiniteSet(S), NEW q \in SetToSeqs(S)
  PROVE  /\ \A i \in DOMAIN q : q[i] \in S
         /\ \A x \in S : \E i \in DOMAIN q : q[i] = x
<1> DEFINE n == Cardinality(S)
<1>1. n \in Nat
  BY FS_CardinalityType
<1>2. q \in [ 1..n -> S ] /\ \A i, j \in 1..n : i # j => q[i] # q[j]
  BY DEF SetToSeqs
<1>3. IsFiniteSet(1..n) /\ Cardinality(1..n) = n
  BY <1>1, FS_Interval
<1>4. ASSUME NEW x \in S, \A i \in 1..n : q[i] # x PROVE FALSE
  <2>1. IsFiniteSet(S \ {x}) /\ Cardinality(S \ {x}) = n - 1
    BY FS_RemoveElement
  <2>2. q \in [ 1..n -> S \ {x} ]
    BY <1>2, <1>4
  <2> HIDE DEF n
  <2>3. Cardinality(S \ {x}) < Cardinality(1..n)
    BY <1>1, <1>3, <2>1
  <2>4. \E i, j \in 1..n : i # j /\ q[i] = q[j]
    BY <1>3, <2>1, <2>2, <2>3, FS_PigeonHole
  <2> QED BY <1>2, <2>4
<1>5. DOMAIN q = 1..n
  BY <1>2
<1> QED BY <1>2, <1>4, <1>5

\* In whatever order a table is written, the query has its values.
LEMMA QueryOfTable ==
  ASSUME NEW params, IsFiniteSet(DOMAIN params), NEW q \in QueriesOf(params), NEW base, NEW k
  PROVE  ValuesOf(Location(base, q), k) = IF k \in DOMAIN params THEN { params[k] } ELSE {}
<1> DEFINE D == DOMAIN params
           S == { << x, params[x] >> : x \in D }
           f == [ x \in D |-> << x, params[x] >> ]
<1>1. f \in Surjection(D, S)
  BY DEF Surjection
<1>2. IsFiniteSet(S)
  BY <1>1, FS_Surjection
<1>3. q \in SetToSeqs(S)
  BY DEF QueriesOf
<1> HIDE DEF f
<1>4. /\ \A i \in DOMAIN q : q[i] \in S
      /\ \A x \in S : \E i \in DOMAIN q : q[i] = x
  BY <1>2, <1>3, ListsAll
<1>5. \A i \in DOMAIN q : \E x \in D : q[i][1] = x /\ q[i][2] = params[x]
  BY <1>4
<1>6. \A x \in D : \E i \in DOMAIN q : q[i][1] = x /\ q[i][2] = params[x]
  <2> TAKE x \in D
  <2>1. << x, params[x] >> \in S
    OBVIOUS
  <2> HIDE DEF S, D
  <2>2. PICK i \in DOMAIN q : q[i] = << x, params[x] >>
    BY <1>4, <2>1
  <2> QED BY <2>2
<1>7. ValuesOf(Location(base, q), k) = { q[i][2] : i \in { j \in DOMAIN q : q[j][1] = k } }
  BY DEF ValuesOf, Location
<1> HIDE DEF S, D
<1>8. \A v : v \in ValuesOf(Location(base, q), k) <=> k \in D /\ v = params[k]
  BY <1>5, <1>6, <1>7
<1> QED BY <1>8 DEF D

\* A parameter that occurs once, with a value, is found.
LEMMA FoundOnce ==
  ASSUME NEW q, NEW i \in DOMAIN q, NEW k, NEW v, v # NoValue, i \in Nat,
         q[i][1] = k, q[i][2] = v, \A j \in DOMAIN q : q[j][1] = k => j = i, NEW base
  PROVE  /\ k \in DOMAIN Params(q) /\ Params(q)[k] = v
         /\ ValuesOf(Location(base, q), k) = { v }
<1>0. \A a \in Nat : a <= a
  OBVIOUS
<1> DEFINE found == { j \in DOMAIN q : q[j][2] # NoValue }
           LastWith(x) == CHOOSE j \in found : /\ q[j][1] = x
                                               /\ \A h \in found : q[h][1] = x => h <= j
<1>1. Params(q) = [ x \in { q[j][1] : j \in found } |-> q[LastWith(x)][2] ]
  BY DEF Params
<1>2. i \in found
  OBVIOUS
<1>3. LastWith(k) = i
  <2>1. q[i][1] = k /\ \A h \in found : q[h][1] = k => h <= i
    BY <1>0, Zenon
  <2>2. LastWith(k) \in found /\ q[LastWith(k)][1] = k
    BY <1>2, <2>1
  <2> QED BY <2>2
<1>4. k \in { q[j][1] : j \in found }
  BY <1>2
<1> HIDE DEF found, LastWith
<1>5. k \in DOMAIN Params(q) /\ Params(q)[k] = q[LastWith(k)][2]
  BY <1>1, <1>4
<1>6. ValuesOf(Location(base, q), k) = { q[j][2] : j \in { h \in DOMAIN q : q[h][1] = k } }
  BY DEF ValuesOf, Location
<1>7. { h \in DOMAIN q : q[h][1] = k } = { i }
  OBVIOUS
<1> QED BY <1>3, <1>5, <1>6, <1>7

\* The keys of a query are those with a value.
LEMMA KeysAre ==
  ASSUME NEW l, NEW k
  PROVE  k \in Keys(l) <=> ValuesOf(l, k) # {}
<1>1. ValuesOf(l, k) = { l.query[i][2] : i \in { j \in DOMAIN l.query : l.query[j][1] = k } }
  BY DEF ValuesOf
<1>2. k \in Keys(l) <=> \E i \in DOMAIN l.query : l.query[i][1] = k
  BY DEF Keys
<1> QED BY <1>1, <1>2

\* Where no value is empty, every parameter is found, with one of its values.
LEMMA FoundAll ==
  ASSUME NEW q, NEW n \in Nat, DOMAIN q = 1..n, \A i \in DOMAIN q : q[i][2] # NoValue,
         NEW base, NEW k
  PROVE  /\ k \in DOMAIN Params(q) <=> k \in Keys(Location(base, q))
         /\ k \in DOMAIN Params(q) => Params(q)[k] \in ValuesOf(Location(base, q), k)
         /\ k \in DOMAIN Params(q) /\ OccursOnce(Location(base, q), k) =>
              ValuesOf(Location(base, q), k) = { Params(q)[k] }
<1> DEFINE found == { j \in DOMAIN q : q[j][2] # NoValue }
           with == { j \in 1..n : q[j][1] = k }
           last == CHOOSE j \in found : q[j][1] = k /\ \A h \in found : q[h][1] = k => h <= j
<1>1. found = 1..n
  OBVIOUS
<1>2. DOMAIN Params(q) = { q[j][1] : j \in found }
  BY DEF Params
<1>3. k \in DOMAIN Params(q) => Params(q)[k] = q[last][2]
  BY <1>2 DEF Params
<1>4. Location(base, q).query = q
  BY DEF Location
<1>5. Keys(Location(base, q)) = { q[j][1] : j \in 1..n }
  BY <1>4 DEF Keys
<1>6. ValuesOf(Location(base, q), k) = { q[j][2] : j \in with }
  BY <1>4 DEF ValuesOf
<1>7. ASSUME k \in DOMAIN Params(q) PROVE last \in with
  <2>1. with # {} /\ with \subseteq 1..n
    BY <1>1, <1>2, <1>7
  <2>2. PICK m \in with : \A h \in with : h <= m
    BY <2>1, Greatest
  <2>3. m \in found /\ q[m][1] = k /\ \A h \in found : q[h][1] = k => h <= m
    BY <1>1, <2>2
  <2>4. last \in found /\ q[last][1] = k
    BY <2>3
  <2> QED BY <1>1, <2>4
<1> HIDE DEF found, last
<1>8. k \in DOMAIN Params(q) => Params(q)[k] \in ValuesOf(Location(base, q), k)
  BY <1>3, <1>6, <1>7
<1>9. ASSUME k \in DOMAIN Params(q), OccursOnce(Location(base, q), k)
      PROVE  ValuesOf(Location(base, q), k) = { Params(q)[k] }
  <2>1. \A i, j \in with : i = j
    BY <1>4, <1>9 DEF OccursOnce
  <2>2. with = { last }
    BY <1>7, <1>9, <2>1
  <2> QED BY <1>3, <1>6, <1>9, <2>2
<1> QED BY <1>1, <1>2, <1>5, <1>8, <1>9

\* What is found in a query of finite length is a finite table.
LEMMA ParamsFinite ==
  ASSUME NEW q, NEW n \in Nat, DOMAIN q = 1..n
  PROVE  IsFiniteSet(DOMAIN Params(q))
<1> DEFINE found == { j \in DOMAIN q : q[j][2] # NoValue }
           keys == { q[j][1] : j \in found }
           f == [ j \in found |-> q[j][1] ]
<1>1. DOMAIN Params(q) = keys
  BY DEF Params
<1>2. IsFiniteSet(1..n)
  BY FS_Interval
<1>3. IsFiniteSet(found)
  BY <1>2, FS_Subset
<1>4. f \in Surjection(found, keys)
  BY DEF Surjection
<1> HIDE DEF found, keys, f
<1>5. IsFiniteSet(keys)
  BY <1>3, <1>4, FS_Surjection
<1> QED BY <1>1, <1>5

----------------------------------------------------------------------------
(* What the OAuth2 filter sends.                                           *)

LoginQuery ==
  << <<"client_id", "me">>, <<"scope", "openid">>, <<"state", "s1">> >>
    \o [ i \in 1..Len(spec.resources) |-> <<"resource", spec.resources[i]>> ]

LogoutQuery(token) ==
  << <<"id_token_hint", token>>, <<"client_id", "me">>, <<"post_logout_redirect_uri", "app">> >>

LEMMA Concatenated ==
  ASSUME NEW T, NEW s \in Seq(T), NEW t \in Seq(T)
  PROVE  /\ DOMAIN (s \o t) = 1..(Len(s) + Len(t))
         /\ \A j \in 1..(Len(s) + Len(t)) : (s \o t)[j] = IF j <= Len(s) THEN s[j] ELSE t[j - Len(s)]
OBVIOUS

LEMMA LoginQueryHas ==
  ASSUME spec \in Specs
  PROVE  /\ \E n \in Nat : DOMAIN LoginQuery = 1..n
         /\ LoginQuery # << >>
         /\ \A i \in DOMAIN LoginQuery : LoginQuery[i][2] # NoValue
<1> DEFINE fixed == << <<"client_id", "me">>, <<"scope", "openid">>, <<"state", "s1">> >>
           m == Len(spec.resources)
           more == [ i \in 1..m |-> <<"resource", spec.resources[i]>> ]
           q == fixed \o more
<1>0. \A T : \A r \in Seq(T) : Len(r) \in Nat /\ \A i \in 1..Len(r) : r[i] \in T
  OBVIOUS
<1>01. spec.resources \in Seq(STRING \ { "" })
  BY SpecsAssumption
<1>1. m \in Nat
  BY <1>0, <1>01, Zenon
<1> HIDE DEF m
<1>2. \E T : more \in Seq(T) /\ fixed \in Seq(T)
  <2> DEFINE T == { more[i] : i \in 1..m } \cup { fixed[1], fixed[2], fixed[3] }
  <2>1. more \in [ 1..m -> T ]
    OBVIOUS
  <2>2. more \in Seq(T)
    BY <1>1, <2>1
  <2>3. fixed \in Seq(T)
    OBVIOUS
  <2> QED BY <2>2, <2>3
<1>3. Len(fixed) = 3 /\ Len(more) = m
  BY <1>1
<1> DEFINE f1 == fixed[1]
           f2 == fixed[2]
           f3 == fixed[3]
<1>4. /\ f1[1] = "client_id" /\ f1[2] = "me" /\ f2[1] = "scope" /\ f2[2] = "openid"
      /\ f3[1] = "state" /\ f3[2] = "s1"
  OBVIOUS
<1>5. \A i \in 1..m : more[i][2] # NoValue
  <2>2. \A i \in 1..m : spec.resources[i] \in STRING \ { "" }
    BY <1>0, <1>01, Zenon DEF m
  <2>3. \A i \in 1..m : more[i][2] = spec.resources[i]
    OBVIOUS
  <2> QED BY <2>2, <2>3 DEF NoValue
<1> HIDE DEF f1, f2, f3
<1>6. f1 = fixed[1] /\ f2 = fixed[2] /\ f3 = fixed[3]
  BY DEF f1, f2, f3
<1> HIDE DEF fixed, more
<1>7. /\ DOMAIN q = 1..(m + 3)
      /\ q[1] = f1 /\ q[2] = f2 /\ q[3] = f3
      /\ \A j \in 4..(m + 3) : q[j] = more[j - 3]
  <2>1. PICK T : more \in Seq(T) /\ fixed \in Seq(T)
    BY <1>2
  <2>2. /\ DOMAIN q = 1..(Len(fixed) + Len(more))
        /\ \A j \in 1..(Len(fixed) + Len(more)) :
             q[j] = IF j <= Len(fixed) THEN fixed[j] ELSE more[j - Len(fixed)]
    BY <2>1, Concatenated
  <2> HIDE DEF q
  <2>3. \A j \in 1..(m + 3) : q[j] = IF j <= 3 THEN fixed[j] ELSE more[j - 3]
    BY <1>1, <1>3, <2>2
  <2>4. DOMAIN q = 1..(m + 3)
    BY <1>1, <1>3, <2>2
  <2>5. q[1] = fixed[1] /\ q[2] = fixed[2] /\ q[3] = fixed[3]
    BY <1>1, <2>3
  <2> QED BY <1>1, <1>6, <2>3, <2>4, <2>5
<1>8. q = LoginQuery
  BY DEF LoginQuery, fixed, more, m
<1> HIDE DEF q
<1>9. "me" # NoValue /\ "openid" # NoValue /\ "s1" # NoValue
  BY Zenon DEF NoValue
<1>10. f1[2] # NoValue /\ f2[2] # NoValue /\ f3[2] # NoValue
  BY <1>4, <1>9
<1>11. ASSUME NEW j \in DOMAIN q PROVE q[j][2] # NoValue
  <2>1. j \in { 1, 2, 3 } \/ (j \in 4..(m + 3) /\ j - 3 \in 1..m)
    BY <1>1, <1>7
  <2> QED BY <1>5, <1>7, <1>10, <2>1
<1>12. m + 3 \in Nat /\ 1 \in DOMAIN q
  BY <1>1, <1>7
<1> QED BY <1>7, <1>8, <1>11, <1>12

LEMMA LogoutQueryHas ==
  ASSUME NEW token
  PROVE  /\ DOMAIN LogoutQuery(token) = 1..3
         /\ LogoutQuery(token) # << >>
         /\ "client_id" \in DOMAIN Params(LogoutQuery(token))
         /\ Params(LogoutQuery(token))["client_id"] = "me"
         /\ "post_logout_redirect_uri" \in DOMAIN Params(LogoutQuery(token))
<1> DEFINE q == LogoutQuery(token)
<1>1. DOMAIN q = 1..3 /\ q # << >>
  BY DEF LogoutQuery
<1>2. /\ q[1][1] = "id_token_hint" /\ q[2][1] = "client_id" /\ q[2][2] = "me"
      /\ q[3][1] = "post_logout_redirect_uri" /\ q[3][2] = "app"
  BY DEF LogoutQuery
<1> HIDE DEF q
<1>3. /\ \A j \in DOMAIN q : q[j][1] = "client_id" => j = 2
      /\ \A j \in DOMAIN q : q[j][1] = "post_logout_redirect_uri" => j = 3
  BY <1>1, <1>2
<1>4. 2 \in DOMAIN q /\ 3 \in DOMAIN q
  BY <1>1
<1>40. \A i \in DOMAIN q : \A k, v :
         /\ i \in Nat /\ v # NoValue /\ q[i][1] = k /\ q[i][2] = v
         /\ \A j \in DOMAIN q : q[j][1] = k => j = i
         => k \in DOMAIN Params(q) /\ Params(q)[k] = v
  BY FoundOnce
<1>41. "me" # NoValue /\ "app" # NoValue
  BY Zenon DEF NoValue
<1>5. "client_id" \in DOMAIN Params(q) /\ Params(q)["client_id"] = "me"
  BY <1>2, <1>3, <1>4, <1>40, <1>41
<1>6. "post_logout_redirect_uri" \in DOMAIN Params(q)
  BY <1>2, <1>3, <1>4, <1>40, <1>41
<1> QED BY <1>1, <1>5, <1>6 DEF q

----------------------------------------------------------------------------
(* What the script makes of it.                                            *)

\* Every rewritten Location keeps its base and has the values of the table.
LEMMA RewrittenHas ==
  ASSUME NEW base, NEW query, query # << >>, NEW params, IsFiniteSet(DOMAIN params),
         NEW l \in Rewritten(Location(base, query), params)
  PROVE  /\ l.base = base
         /\ \A k : ValuesOf(l, k) = IF k \in DOMAIN params THEN { params[k] } ELSE {}
<1>1. Location(base, query).query = query /\ Location(base, query).base = base
  BY DEF Location
<1>2. PICK q \in QueriesOf(params) : l = Location(base, q)
  BY <1>1 DEF Rewritten
<1>3. l.base = base
  BY <1>2 DEF Location
<1> QED BY <1>2, <1>3, QueryOfTable

LEMMA LoginTable ==
  ASSUME spec \in Specs, NEW params, IsFiniteSet(DOMAIN params)
  PROVE  /\ IsFiniteSet(DOMAIN WithLoginParams(params))
         /\ DOMAIN WithLoginParams(params) = DOMAIN LoginParams \cup DOMAIN params
         /\ \A k \in DOMAIN LoginParams :
              k \in DOMAIN WithLoginParams(params) /\ WithLoginParams(params)[k] = LoginParams[k]
         /\ \A k \in DOMAIN params \ DOMAIN LoginParams :
              k \in DOMAIN WithLoginParams(params) /\ WithLoginParams(params)[k] = params[k]
<1>1. IsFiniteSet(DOMAIN LoginParams)
  BY SpecsAssumption DEF LoginParams
<1>2. DOMAIN WithLoginParams(params) = DOMAIN LoginParams \cup DOMAIN params
  BY DEF WithLoginParams
<1>3. IsFiniteSet(DOMAIN LoginParams \cup DOMAIN params)
  BY <1>1, FS_Union
<1> QED BY <1>2, <1>3 DEF WithLoginParams

LEMMA LogoutTable ==
  ASSUME spec \in Specs, NEW params, IsFiniteSet(DOMAIN params)
  PROVE  LET key == "post_logout_redirect_uri"
             table == WithPostLogout(params)
         IN  /\ IsFiniteSet(DOMAIN table)
             /\ (IF key \in DOMAIN table THEN { table[key] } ELSE {}) = PostLogout
             /\ \A k : k # key => (k \in DOMAIN table <=> k \in DOMAIN params)
             /\ \A k \in DOMAIN params \ { key } : table[k] = params[k]
<1> DEFINE key == "post_logout_redirect_uri"
           table == WithPostLogout(params)
<1>1. DOMAIN table = (DOMAIN params \ { key }) \cup { key : u \in PostLogout }
  BY DEF WithPostLogout
<1>2. \A k \in DOMAIN table : table[k] = IF k = key THEN CHOOSE u \in PostLogout : TRUE ELSE params[k]
  BY DEF WithPostLogout
<1>3. AtMostOne(PostLogout)
  BY SpecsAssumption DEF AtMostOne, PostLogout
<1> HIDE DEF table
<1>4. DOMAIN table \subseteq DOMAIN params \cup { key }
  BY <1>1
<1>5. IsFiniteSet(DOMAIN table)
  <2>1. IsFiniteSet(DOMAIN params \cup { key })
    BY FS_AddElement
  <2> QED BY <1>4, <2>1, FS_Subset
<1>6. key \in DOMAIN table <=> PostLogout # {}
  BY <1>1
<1>7. (IF key \in DOMAIN table THEN { table[key] } ELSE {}) = PostLogout
  <2>1. CASE PostLogout = {}
    BY <1>6, <2>1
  <2>2. CASE PostLogout # {}
    <3>1. key \in DOMAIN table /\ table[key] = CHOOSE u \in PostLogout : TRUE
      BY <1>2, <1>6, <2>2
    <3>2. table[key] \in PostLogout
      BY <2>2, <3>1
    <3>3. { table[key] } = PostLogout
      BY <1>3, <3>2 DEF AtMostOne
    <3> QED BY <3>1, <3>3
  <2> QED BY <2>1, <2>2
<1>8. \A k : k # key => (k \in DOMAIN table <=> k \in DOMAIN params)
  BY <1>1
<1>9. \A k \in DOMAIN params \ { key } : table[k] = params[k]
  BY <1>2, <1>8
<1> QED BY <1>5, <1>7, <1>8, <1>9 DEF table

----------------------------------------------------------------------------
(* The invariant.                                                          *)

\* All documents that a pass may get.
Docs == Documents \cup { WellKnown[u] : u \in DOMAIN WellKnown }

\* The URIs are those of a document that was found usable.
Resolved ==
  \E doc \in Docs : /\ Usable(doc, spec.autoLogin)
                    /\ uris.authorization = OrEmpty(doc.authorization)
                    /\ uris.endSession = doc.endSession

\* Where redirects come from.
Sent(l) ==
  \/ l = Location(uris.authorization, LoginQuery)
  \/ OrEmpty(uris.endSession) = << >> /\ l = Location(<< "app" >>, << >>)
  \/ \E token \in { NoValue, "t1" } : l = Location(OrEmpty(uris.endSession), LogoutQuery(token))
  \/ l \in Elsewhere

RedirectInv ==
  /\ spec \in Specs
  /\ phase \in { "ready", "redirect", "rewritten" } => Resolved
  /\ phase \in { "redirect", "rewritten" } => spec.autoLogin /\ Sent(original)
  /\ phase = "rewritten" => location \in Outcomes(original)

LEMMA RedirectInvInit == RInit => RedirectInv
BY DEF RInit, RedirectInv

\* A redirect leaves the configuration as it is.
LEMMA RedirectSends ==
  ASSUME RedirectInv, NEW l, Redirect(l), Sent(l)
  PROVE  RedirectInv'
<1>1. /\ phase \in { "ready", "rewritten" } /\ spec.autoLogin /\ phase' = "redirect" /\ original' = l
      /\ UNCHANGED << spec, uris >>
  BY DEF Redirect
<1>2. spec' \in Specs /\ Resolved' /\ spec'.autoLogin
  BY <1>1 DEF RedirectInv, Resolved, Usable, SupportsAutoLogin
<1>3. Sent(original)'
  BY <1>1 DEF Sent, LoginQuery
<1> QED BY <1>1, <1>2, <1>3 DEF RedirectInv

LEMMA RedirectInvStep ==
  ASSUME RedirectInv, [RNext]_rvars
  PROVE  RedirectInv'
<1>1. CASE ResolveDiscoveryDocument
  <2>1. PICK doc \in GetOAuthDiscoveryDocument(spec.uri) :
          IF Usable(doc, spec.autoLogin)
          THEN /\ uris' = [ authorization |-> OrEmpty(doc.authorization), endSession |-> doc.endSession ]
               /\ phase' = "ready"
          ELSE phase' = "failed" /\ UNCHANGED uris
    BY <1>1 DEF ResolveDiscoveryDocument
  <2>2. doc \in Docs
    BY DEF GetOAuthDiscoveryDocument, Docs
  <2>3. spec' = spec
    BY <1>1 DEF ResolveDiscoveryDocument
  <2>4. CASE Usable(doc, spec.autoLogin)
    <3>1. /\ uris'.authorization = OrEmpty(doc.authorization) /\ uris'.endSession = doc.endSession
          /\ phase' = "ready"
      BY <2>1, <2>4
    <3>2. Resolved'
      BY <2>2, <2>3, <2>4, <3>1 DEF Resolved, Usable, SupportsAutoLogin
    <3> QED BY <2>3, <3>1, <3>2 DEF RedirectInv
  <2>5. CASE ~Usable(doc, spec.autoLogin)
    BY <2>1, <2>3, <2>5 DEF RedirectInv
  <2> QED BY <2>4, <2>5
<1>2. CASE ResolveFails \/ NextPass
  BY <1>2 DEF ResolveFails, NextPass, RedirectInv
<1>3. CASE OAuth2Login
  BY <1>3, RedirectSends DEF OAuth2Login, Sent, LoginQuery
<1>4. CASE OAuth2Logout
  <2>1. PICK l : Redirect(l) /\ Sent(l)
    <3>1. PICK token \in { NoValue, "t1" } :
            IF OrEmpty(uris.endSession) = << >> THEN Redirect(Location(<< "app" >>, << >>))
            ELSE Redirect(Location(OrEmpty(uris.endSession), LogoutQuery(token)))
      BY <1>4 DEF OAuth2Logout, LogoutQuery
    <3>2. /\ OrEmpty(uris.endSession) = << >> => Sent(Location(<< "app" >>, << >>))
          /\ Sent(Location(OrEmpty(uris.endSession), LogoutQuery(token)))
      BY DEF Sent
    <3> QED BY <3>1, <3>2
  <2> QED BY <2>1, RedirectSends
<1>5. CASE WorkloadRedirect
  BY <1>5, RedirectSends DEF WorkloadRedirect, Sent
<1>6. CASE envoy_on_response
  <2>1. /\ phase = "redirect" /\ location' \in Outcomes(original) /\ phase' = "rewritten"
        /\ UNCHANGED << spec, uris, original >>
    BY <1>6 DEF envoy_on_response
  <2>2. Resolved' /\ Sent(original)' /\ spec' \in Specs /\ spec'.autoLogin
    BY <2>1 DEF RedirectInv, Resolved, Usable, SupportsAutoLogin, Sent, LoginQuery
  <2>3. Outcomes(original)' = Outcomes(original)
    BY <2>1 DEF Outcomes, EndsSession, Authorizes, LoginParams, WithPostLogout, PostLogout, WithLoginParams
  <2> QED BY <2>1, <2>2, <2>3 DEF RedirectInv
<1>7. CASE UNCHANGED rvars
  <2>1. UNCHANGED << spec, uris, phase, original, location >>
    BY <1>7 DEF rvars
  <2>2. (Resolved' <=> Resolved) /\ (Sent(original)' <=> Sent(original))
    BY <2>1 DEF Resolved, Usable, SupportsAutoLogin, Sent, LoginQuery
  <2>3. Outcomes(original)' = Outcomes(original)
    BY <2>1 DEF Outcomes, EndsSession, Authorizes, LoginParams, WithPostLogout, PostLogout, WithLoginParams
  <2> QED BY <2>1, <2>2, <2>3 DEF RedirectInv
<1> QED BY <1>1, <1>2, <1>3, <1>4, <1>5, <1>6, <1>7 DEF RNext

----------------------------------------------------------------------------
(* The theorems.                                                           *)

\* No workload redirects to an address that begins with an endpoint of a
\* provider.
WorkloadsApart ==
  \A doc \in Docs : \A u \in doc.authorization \cup doc.endSession, l \in Elsewhere :
    ~IsPrefix(u, l.base)

\* The authorize endpoint does not begin with the end session endpoint (the
\* other way round is no trouble).
LogoutApart ==
  \A doc \in Docs : \A a \in doc.authorization, e \in doc.endSession : ~IsPrefix(e, a)

\* With auto-login both endpoints are those of one document.
LEMMA BothEndpoints ==
  ASSUME RedirectInv, phase = "rewritten"
  PROVE  /\ spec \in Specs /\ Sent(original) /\ location \in Outcomes(original)
         /\ \E doc \in Docs :
              /\ uris.authorization \in doc.authorization
              /\ OrEmpty(uris.endSession) \in doc.endSession
              /\ uris.endSession = { OrEmpty(uris.endSession) }
              /\ uris.authorization \in Seq(STRING) /\ OrEmpty(uris.endSession) \in Seq(STRING)
<1>1. spec \in Specs /\ Sent(original) /\ location \in Outcomes(original) /\ spec.autoLogin /\ Resolved
  BY DEF RedirectInv
<1>2. PICK doc \in Docs : /\ Usable(doc, spec.autoLogin)
                          /\ uris.authorization = OrEmpty(doc.authorization)
                          /\ uris.endSession = doc.endSession
  BY <1>1 DEF Resolved
<1>3. doc.authorization # {} /\ doc.endSession # {}
  BY <1>1, <1>2 DEF Usable, SupportsAutoLogin
<1>4. \A S : S # {} => OrEmpty(S) \in S
  BY DEF OrEmpty
<1>5. doc \in Document
  BY DocumentsAssumption DEF Docs
<1>6. doc.authorization \in URIField /\ doc.endSession \in URIField
  BY <1>5 DEF Document
<1>7. doc.authorization \subseteq Seq(STRING) /\ doc.endSession \subseteq Seq(STRING) /\ AtMostOne(doc.endSession)
  BY <1>6 DEF URIField
<1>8. doc.endSession = { OrEmpty(doc.endSession) }
  BY <1>3, <1>4, <1>7 DEF AtMostOne
<1> QED BY <1>1, <1>2, <1>3, <1>4, <1>7, <1>8

LEMMA PrefixFacts ==
  ASSUME NEW s \in Seq(STRING)
  PROVE  IsPrefix(s, s) /\ IsPrefix(<< >>, s)
<1>1. Len(s) \in Nat /\ Len(s) <= Len(s)
  OBVIOUS
<1>2. IsPrefix(s, s)
  BY <1>1 DEF IsPrefix
<1>3. Len(<< >>) = 0
  OBVIOUS
<1>4. SubSeq(<< >>, 1, 0) = << >> /\ SubSeq(s, 1, 0) = << >>
  OBVIOUS
<1>5. IsPrefix(<< >>, s)
  BY <1>1, <1>3, <1>4 DEF IsPrefix
<1> QED BY <1>2, <1>5

\* Where no workload redirects into the provider, the script leaves the
\* workload's redirects as they are: it is never given a missing end session
\* endpoint, which every address begins with.
THEOREM OthersUntouched ==
  ASSUME WorkloadsApart
  PROVE  RSpec => []OtherRedirectsUntouched
<1>1. RedirectInv => OtherRedirectsUntouched
  <2> SUFFICES ASSUME RedirectInv, phase = "rewritten", original \in Elsewhere
               PROVE  location = original
    BY DEF OtherRedirectsUntouched
  <2>1. PICK doc \in Docs : /\ uris.authorization \in doc.authorization
                            /\ OrEmpty(uris.endSession) \in doc.endSession
    BY BothEndpoints
  <2>2. ~IsPrefix(uris.authorization, original.base) /\ ~IsPrefix(OrEmpty(uris.endSession), original.base)
    BY <2>1 DEF WorkloadsApart
  <2>3. Outcomes(original) = { original }
    BY <2>2 DEF Outcomes, EndsSession, Authorizes
  <2> QED BY <2>3, BothEndpoints
<1> QED BY <1>1, RedirectInvInit, RedirectInvStep, PTL DEF RSpec

\* A redirect to one of the endpoints is the OAuth2 filter's own.
LEMMA OwnRedirects ==
  ASSUME RedirectInv, phase = "rewritten", WorkloadsApart, LogoutApart
  PROVE  /\ original.base = uris.authorization => original = Location(uris.authorization, LoginQuery)
         /\ original.base \in uris.endSession =>
              \E token : original = Location(OrEmpty(uris.endSession), LogoutQuery(token))
         /\ ~IsPrefix(OrEmpty(uris.endSession), uris.authorization)
<1> DEFINE a == uris.authorization
           e == OrEmpty(uris.endSession)
<1>1. PICK doc \in Docs : /\ a \in doc.authorization /\ e \in doc.endSession /\ uris.endSession = { e }
                          /\ a \in Seq(STRING) /\ e \in Seq(STRING)
  BY BothEndpoints
<1>2. \A b, q : Location(b, q).base = b
  BY DEF Location
<1>3. ~IsPrefix(e, a)
  BY <1>1 DEF LogoutApart
<1>4. e # << >> /\ e # a
  BY <1>1, <1>3, PrefixFacts
<1>5. original \in Elsewhere => original.base # a /\ original.base # e
  BY <1>1, PrefixFacts DEF WorkloadsApart
<1>6. Sent(original)
  BY BothEndpoints
<1> HIDE DEF a, e
<1>7. \/ original = Location(a, LoginQuery)
      \/ \E token : original = Location(e, LogoutQuery(token))
      \/ original \in Elsewhere
  BY <1>4, <1>6 DEF Sent, a, e
<1>8. original.base = a => original = Location(a, LoginQuery)
  BY <1>2, <1>4, <1>5, <1>7
<1>9. original.base = e => \E token : original = Location(e, LogoutQuery(token))
  BY <1>2, <1>4, <1>5, <1>7
<1> QED BY <1>1, <1>3, <1>8, <1>9 DEF a, e

\* For all providers whose endpoints are apart, parameters and orders of
\* Lua's pairs: a login goes out with every configured parameter, with every
\* parameter of the OAuth2 filter's that occurs once as it was, and with one
\* of the values of every other; nothing else is added.
THEOREM LoginsMerged ==
  ASSUME WorkloadsApart, LogoutApart
  PROVE  RSpec => []LoginParamsMerged
<1>1. RedirectInv => LoginParamsMerged
  <2> SUFFICES ASSUME RedirectInv, phase = "rewritten", original.base = uris.authorization
               PROVE  /\ location.base = original.base
                      /\ \A k \in DOMAIN LoginParams : ValuesOf(location, k) = { LoginParams[k] }
                      /\ \A k \in (Keys(original) \cup Keys(location)) \ DOMAIN LoginParams :
                           /\ ValuesOf(location, k) # {}
                           /\ ValuesOf(location, k) \subseteq ValuesOf(original, k)
                           /\ OccursOnce(original, k) => ValuesOf(location, k) = ValuesOf(original, k)
    BY DEF LoginParamsMerged, ToProvider
  <2> DEFINE a == uris.authorization
             params == Params(LoginQuery)
             table == WithLoginParams(params)
  <2>1. original = Location(a, LoginQuery) /\ ~IsPrefix(OrEmpty(uris.endSession), a)
    BY OwnRedirects
  <2>2. spec \in Specs /\ location \in Outcomes(original) /\ a \in Seq(STRING)
    BY BothEndpoints
  <2>3. original.base = a /\ original.query = LoginQuery
    BY <2>1 DEF Location
  <2>4. ~EndsSession(original) /\ (Authorizes(original) <=> DOMAIN LoginParams # {})
    BY <2>1, <2>2, <2>3, PrefixFacts DEF EndsSession, Authorizes
  <2>5. CASE DOMAIN LoginParams = {}
    <3>1. location = original
      BY <2>2, <2>4, <2>5 DEF Outcomes
    <3> QED BY <2>5, <3>1, KeysAre
  <2>6. CASE DOMAIN LoginParams # {}
    <3>1. location \in Rewritten(Location(a, LoginQuery), table)
      BY <2>1, <2>2, <2>3, <2>4, <2>6 DEF Outcomes
    <3>2. LoginQuery # << >> /\ IsFiniteSet(DOMAIN params)
      BY <2>2, LoginQueryHas, ParamsFinite
    <3>3. /\ IsFiniteSet(DOMAIN table) /\ DOMAIN table = DOMAIN LoginParams \cup DOMAIN params
          /\ \A k \in DOMAIN LoginParams : k \in DOMAIN table /\ table[k] = LoginParams[k]
          /\ \A k \in DOMAIN params \ DOMAIN LoginParams : k \in DOMAIN table /\ table[k] = params[k]
      BY <2>2, <3>2, LoginTable
    <3>4. PICK n \in Nat : DOMAIN LoginQuery = 1..n
      BY <2>2, LoginQueryHas
    <3>5. \A i \in DOMAIN LoginQuery : LoginQuery[i][2] # NoValue
      BY <2>2, LoginQueryHas
    <3>6. ASSUME NEW k
          PROVE  /\ k \in DOMAIN params <=> k \in Keys(original)
                 /\ k \in DOMAIN params => params[k] \in ValuesOf(original, k)
                 /\ k \in DOMAIN params /\ OccursOnce(original, k) => ValuesOf(original, k) = { params[k] }
      BY <2>1, <3>4, <3>5, FoundAll
    <3> HIDE DEF params, table
    <3>7. /\ location.base = a
          /\ \A k : ValuesOf(location, k) = IF k \in DOMAIN table THEN { table[k] } ELSE {}
      BY <3>1, <3>2, <3>3, RewrittenHas
    <3>8. ASSUME NEW k \in (Keys(original) \cup Keys(location)) \ DOMAIN LoginParams
          PROVE  k \in DOMAIN params /\ ValuesOf(location, k) = { params[k] }
      <4>1. k \in DOMAIN table
        BY <3>3, <3>6, <3>7, KeysAre
      <4> QED BY <3>3, <3>7, <4>1
    <3> QED BY <2>3, <3>3, <3>6, <3>7, <3>8
  <2> QED BY <2>5, <2>6
<1> QED BY <1>1, RedirectInvInit, RedirectInvStep, PTL DEF RSpec

\* For all such providers a logout takes the configured URI with it or none,
\* with or without an id token, and no parameter of a login.
THEOREM LogoutsAsConfigured ==
  ASSUME WorkloadsApart, LogoutApart
  PROVE  RSpec => []LogoutAsConfigured
<1>1. RedirectInv => LogoutAsConfigured
  <2> SUFFICES ASSUME RedirectInv, phase = "rewritten", original.base \in uris.endSession
               PROVE  /\ location.base = original.base
                      /\ ValuesOf(location, "post_logout_redirect_uri") = PostLogout
                      /\ ValuesOf(location, "client_id") = { "me" }
                      /\ \A k \in DOMAIN LoginParams \ DOMAIN Params(original.query) :
                           ValuesOf(location, k) = {}
    BY DEF LogoutAsConfigured
  <2> DEFINE e == OrEmpty(uris.endSession)
  <2>1. PICK token : original = Location(e, LogoutQuery(token))
    BY OwnRedirects
  <2> DEFINE q == LogoutQuery(token)
             params == Params(q)
             table == WithPostLogout(params)
  <2>2. spec \in Specs /\ location \in Outcomes(original) /\ e \in Seq(STRING)
    BY BothEndpoints
  <2>3. original.base = e /\ original.query = q
    BY <2>1 DEF Location
  <2>4. EndsSession(original)
    BY <2>2, <2>3, PrefixFacts DEF EndsSession
  <2>5. location \in Rewritten(Location(e, q), table)
    BY <2>1, <2>2, <2>3, <2>4 DEF Outcomes
  <2>6. /\ DOMAIN q = 1..3 /\ q # << >> /\ "client_id" \in DOMAIN params /\ params["client_id"] = "me"
        /\ "post_logout_redirect_uri" \in DOMAIN params
    BY LogoutQueryHas
  <2>7. IsFiniteSet(DOMAIN params)
    BY <2>6, ParamsFinite
  <2> HIDE DEF q, params
  <2>8. /\ IsFiniteSet(DOMAIN table)
        /\ (IF "post_logout_redirect_uri" \in DOMAIN table
            THEN { table["post_logout_redirect_uri"] } ELSE {}) = PostLogout
        /\ \A k : k # "post_logout_redirect_uri" => (k \in DOMAIN table <=> k \in DOMAIN params)
        /\ \A k \in DOMAIN params \ { "post_logout_redirect_uri" } : table[k] = params[k]
    BY <2>2, <2>7, LogoutTable
  <2> HIDE DEF table
  <2>9. /\ location.base = e
        /\ \A k : ValuesOf(location, k) = IF k \in DOMAIN table THEN { table[k] } ELSE {}
    BY <2>5, <2>6, <2>8, RewrittenHas
  <2>10. ValuesOf(location, "post_logout_redirect_uri") = PostLogout
    BY <2>8, <2>9
  <2>11. ValuesOf(location, "client_id") = { "me" }
    BY <2>6, <2>8, <2>9
  <2>12. \A k : k \notin DOMAIN params => ValuesOf(location, k) = {}
    BY <2>6, <2>8, <2>9
  <2> QED BY <2>3, <2>9, <2>10, <2>11, <2>12 DEF params
<1> QED BY <1>1, RedirectInvInit, RedirectInvStep, PTL DEF RSpec
=============================================================================
