------------------------------- MODULE Paths -------------------------------
(***************************************************************************)
(* The path of a rule on its three ways: through validation                *)
(* (pkg/validation/path_validation.go), into an AuthorizationPolicy        *)
(* (path_transformation.go) and into the Lua script                        *)
(* (pkg/luascript/matcher_path_converter.go).  The other modules take a    *)
(* path for the set of request paths it matches; that this is one set, the *)
(* same for Istio and for the script, is checked here.                     *)
(*                                                                         *)
(* A path is a sequence of characters, because what is wrong with one can  *)
(* hide between any two of them.                                           *)
(***************************************************************************)
EXTENDS SequencesExt

CONSTANTS
  Char,          \* the characters of paths
  RulePaths,     \* the paths of rules
  RequestPaths,  \* the paths of requests
  Literal        \* the characters that validLiteral admits

VARIABLES path, verdict, istioPath, luaPattern, request, matches

pvars == << path, verdict, istioPath, luaPattern, request, matches >>

Slash == "/"
Star == "*"
Open == "{"
Close == "}"
Braces == { Open, Close }
matchOneTemplate == << Open, Star, Close >>
matchAnyTemplate == << Open, Star, Star, Close >>

Has(s, chars) == ToSet(s) \cap chars # {}
TrimSuffix(s, suffix) == IF IsSuffix(suffix, s) THEN SubSeq(s, 1, Len(s) - Len(suffix)) ELSE s
ContainsSeq(s, t) == \E i \in 0..(Len(s) - Len(t)) : SubSeq(s, i + 1, i + Len(t)) = t

----------------------------------------------------------------------------
(* Classification.                                                         *)

\* An asterisk is raw unless the last brace before it opens.
hasRawAsteriskOutsideCurlyBrackets(s) ==
  \E i \in DOMAIN s :
    /\ s[i] = Star
    /\ LET braces == { j \in 1..(i - 1) : s[j] \in Braces }
       IN  braces = {} \/ s[Max(braces)] = Close

classifyPath(s) ==
  IF hasRawAsteriskOutsideCurlyBrackets(s)
  THEN IF ~Has(s, Braces) /\ \A i \in DOMAIN s : s[i] = Star => i = Len(s)
       THEN "legacyStar" ELSE "error"
  ELSE IF Has(s, Braces) THEN "template" ELSE "plain"

----------------------------------------------------------------------------
(* Validation.                                                             *)

\* A segment is known by the position where it starts, an empty one too.
SegmentStarts(s) == { p \in 1..(Len(s) + 1) : p = 1 \/ s[p - 1] = Slash }
SegmentEnd(s, p) == Min({ i \in p..Len(s) : s[i] = Slash } \cup { Len(s) + 1 })
Segment(s, p) == SubSeq(s, p, SegmentEnd(s, p) - 1)

\* strings.Trim(path, Slash), split: the segments between the first and the last
\* character that is no slash.
toPathSegments(s) ==
  LET kept == { i \in DOMAIN s : s[i] # Slash }
  IN  [ p \in { q \in SegmentStarts(s) : \E i, j \in kept : i <= q /\ q <= j } |-> Segment(s, p) ]

IsLiteral(seg) == seg # << >> /\ ToSet(seg) \subseteq Literal

validatePlainPathLiterals(s) ==
  LET segs == toPathSegments(s)
  IN  \A i \in DOMAIN segs : segs[i] = << >> \/ IsLiteral(segs[i])

\* An operator stands alone in its segment, none after {**}; a literal with
\* {**} is the last segment and the only operator.
validateTemplatePathSegment(segs, i) ==
  LET seg == segs[i]
      Seen(operator) == \E j \in DOMAIN segs : j < i /\ segs[j] = operator
  IN  IF seg \in { matchOneTemplate, matchAnyTemplate } THEN ~Seen(matchAnyTemplate)
      ELSE IF IsSuffix(matchAnyTemplate, seg)
           THEN /\ IsLiteral(TrimSuffix(seg, matchAnyTemplate))
                /\ \A j \in DOMAIN segs : j <= i
                /\ ~Seen(matchAnyTemplate) /\ ~Seen(matchOneTemplate)
           ELSE IsLiteral(seg)

validateTemplatePath(s) ==
  LET segs == toPathSegments(s)
  IN  \A i \in DOMAIN segs : validateTemplatePathSegment(segs, i)

validatePath(s) ==
  /\ IsPrefix(<< Slash >>, s)
  /\ CASE classifyPath(s) = "error" -> FALSE
       [] classifyPath(s) = "legacyStar" -> validatePlainPathLiterals(TrimSuffix(s, << Star >>))
       [] classifyPath(s) = "template" -> validateTemplatePath(s)
       [] OTHER -> validatePlainPathLiterals(s)

----------------------------------------------------------------------------
(* The path of an AuthorizationPolicy.                                     *)

\* Slip: the last operator is left as it is.
Untransformed(s) == s

transformPathForIstio(s) ==
  LET trimmed == TrimSuffix(s, matchAnyTemplate)
  IN  IF \/ ~IsSuffix(matchAnyTemplate, s)
         \/ IsSuffix(<< Slash >>, trimmed)
         \/ ContainsSeq(trimmed, matchOneTemplate) \/ ContainsSeq(trimmed, matchAnyTemplate)
      THEN s ELSE Append(trimmed, Star)

----------------------------------------------------------------------------
(* The pattern of the Lua script: what every character of the path puts    *)
(* into it, which is nothing, the character or one of two items for the    *)
(* wildcards, [^/]+ and .* .                                               *)

Nothing == "nothing"
MatchOne == "[^/]+"
MatchAny == ".*"
EscapedDot == "%."

\* Slip: characters are taken over as they are.
NoEscape(c) == c

\* The dot stands for all characters that mean something in a Lua pattern.
escapeLuaPatternChars(c) == IF c = "." THEN EscapedDot ELSE c

\* From i to j there are only wildcards and the braces that go.
SameRun(s, i, j) == \A k \in i..j : s[k] \in Braces \cup { Star }

\* Of the asterisks that are neighbours once the braces are gone, each two
\* are taken together from the left.
Wildcard(s, i) ==
  LET before == { j \in 1..(i - 1) : s[j] = Star /\ SameRun(s, j, i) }
      after == { j \in (i + 1)..Len(s) : s[j] = Star /\ SameRun(s, i, j) }
  IN  IF Cardinality(before) % 2 = 1 THEN Nothing
      ELSE IF after # {} THEN MatchAny ELSE MatchOne

\* Without templates an asterisk is the old syntax, and is doubled.
Pattern(s, templates) ==
  [ i \in DOMAIN s |->
      CASE templates /\ s[i] \in Braces -> Nothing
        [] s[i] = Star -> IF templates THEN Wildcard(s, i) ELSE MatchAny
        [] OTHER -> escapeLuaPatternChars(s[i]) ]

\* Slip: braces go only where they hold a wildcard.
PatternWithOtherBraces(s) ==
  Pattern(s, ContainsSeq(s, matchOneTemplate) \/ ContainsSeq(s, matchAnyTemplate))

toLuaPattern(s) == Pattern(s, Has(s, Braces))

\* An item takes the characters of the request from j up to k.
Takes(item, req, j, k) ==
  CASE item = Nothing -> k = j
    [] item = MatchAny -> TRUE
    [] item = MatchOne -> k > j /\ \A x \in j..(k - 1) : req[x] # Slash
    [] OTHER -> k = j + 1 /\ (item \in { ".", req[j] } \/ (item = EscapedDot /\ req[j] = "."))

\* The positions of the request from which the items from i on match the rest
\* of it, for every i.
LuaFrom(items, req) ==
  LET from[i \in 1..(Len(items) + 1)] ==
        IF i > Len(items) THEN { Len(req) + 1 }
        ELSE LET rest == from[i + 1]
             IN  { j \in 1..(Len(req) + 1) : \E k \in rest : k >= j /\ Takes(items[i], req, j, k) }
  IN  from

\* The anchored pattern against a whole request.
LuaMatch(items, req) == 1 \in LuaFrom(items, req)[1]

----------------------------------------------------------------------------
(* Istio's side.                                                           *)

\* A path with a template is checked segment by segment, as is the order of
\* its operators; braces mean nothing else.
IstioAccepts(s) ==
  LET segs == toPathSegments(s)
      operators == { matchOneTemplate, matchAnyTemplate }
      isTemplate == ContainsSeq(s, matchOneTemplate) \/ ContainsSeq(s, matchAnyTemplate)
  IN  \A i \in DOMAIN segs :
        IF segs[i] \in operators
        THEN \A j \in DOMAIN segs : j < i => segs[j] # matchAnyTemplate
        ELSE ~Has(segs[i], Braces) /\ (isTemplate => IsLiteral(segs[i]))

\* The segments of the request from which the template's segments from p on
\* match all that is left of it, for every p; {**} takes any number of them.
TemplateFrom(s, req) ==
  LET from[p \in 1..(Len(s) + 2)] ==
        IF p > Len(s) + 1 THEN { Len(req) + 2 }
        ELSE LET seg == Segment(s, p)
                 rest == from[SegmentEnd(s, p) + 1]
                 ends == { q \in SegmentStarts(req) : SegmentEnd(req, q) + 1 \in rest }
             IN  { q \in SegmentStarts(req) :
                     \/ seg = matchAnyTemplate /\ \E k \in ends : q <= k
                     \/ seg = matchOneTemplate /\ q \in ends /\ Segment(req, q) # << >>
                     \/ q \in ends /\ Segment(req, q) = seg }
  IN  from

TemplateMatch(s, req) == 1 \in TemplateFrom(s, req)[1]

\* Exactly, by a prefix, or by a template.
IstioMatch(s, req) ==
  IF ContainsSeq(s, matchOneTemplate) \/ ContainsSeq(s, matchAnyTemplate)
  THEN TemplateMatch(s, req)
  ELSE IF IsSuffix(<< Star >>, s) THEN IsPrefix(TrimSuffix(s, << Star >>), req)
  ELSE s = req

----------------------------------------------------------------------------
(* What the provers are told: the items of a pattern are no characters, and *)
(* the expression of validLiteral has neither slash nor wildcard nor brace. *)
ASSUME PathsAssumption ==
  /\ RulePaths \cup RequestPaths \subseteq Seq(Char)
  /\ { Nothing, MatchOne, MatchAny, EscapedDot } \cap Char = {}
  /\ Literal \cap ({ Slash, Star } \cup Braces) = {}

PInit ==
  /\ path \in RulePaths
  /\ verdict = "unknown"
  /\ istioPath = << >>
  /\ luaPattern = << >>
  /\ request = << >>
  /\ matches = [ istio |-> FALSE, lua |-> FALSE ]

\* Auto-login is resolved, and the script written, before anything is
\* validated.
Resolve ==
  /\ verdict = "unknown"
  /\ luaPattern' = toLuaPattern(path)
  /\ verdict' = "resolved"
  /\ UNCHANGED << path, istioPath, request, matches >>

ValidatePaths ==
  /\ verdict = "resolved"
  /\ verdict' = IF validatePath(path) THEN "valid" ELSE "invalid"
  /\ UNCHANGED << path, istioPath, luaPattern, request, matches >>

\* The AuthorizationPolicies of a valid AuthPolicy.
TransformPathsForIstio ==
  /\ verdict = "valid"
  /\ istioPath' = transformPathForIstio(path)
  /\ verdict' = IF IstioAccepts(istioPath') THEN "applied" ELSE "refused"
  /\ UNCHANGED << path, luaPattern, request, matches >>

Receive ==
  /\ verdict = "applied" /\ request = << >>
  /\ request' \in RequestPaths
  /\ matches' = [ istio |-> IstioMatch(istioPath, request'),
                  lua |-> LuaMatch(luaPattern, request') ]
  /\ UNCHANGED << path, verdict, istioPath, luaPattern >>

PNext == Resolve \/ ValidatePaths \/ TransformPathsForIstio \/ Receive

PSpec == PInit /\ [][PNext]_pvars

----------------------------------------------------------------------------
(* Properties.                                                             *)

\* The trimming hides a slash at the end from the validation.
TrailingSlash(s) == Len(s) > 1 /\ IsSuffix(<< Slash >>, s)

\* The script and the policies read a path alike: what the script lets pass
\* or sends to the login is what the policies admit or refuse.
LuaAgreesWithIstio == matches.lua = matches.istio

\* A path that passed the validation makes a policy that Istio takes; else
\* the write would fail in every pass, and the rule would never be enforced.
ValidIsAccepted ==
  ~TrailingSlash(path) => verdict # "refused"

\* escapeLuaPatternChars panics ("should be called after wildcard
\* processing") where a wildcard or brace is left.  The script is written
\* before the paths are validated, so this must hold for every path.
NeverPanics ==
  verdict # "unknown" => ~Has(luaPattern, Braces \cup { Star })
=============================================================================
