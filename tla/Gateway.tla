------------------------------ MODULE Gateway ------------------------------
(***************************************************************************)
(* What a protected workload's users are promised, without filters,        *)
(* headers or policies: which answers a request may get, by the rules of   *)
(* its AuthPolicy, the token it carries and the session of its browser.    *)
(* AutoLogin implements this.                                              *)
(***************************************************************************)
EXTENDS AccessRules

CONSTANT Logins   \* auto-login configurations, defaults filled in

\* loginPaths: LoginPath, if there is one.
Login == [ enabled : BOOLEAN, redirectPath : Path, logoutPath : Path,
           loginPaths : SUBSET Path ]

\* A request carries nothing, a valid or an invalid bearer token, or the code
\* with which the identity provider sends a user back.
Carried == { "none", "good", "bad", "code" }

\* served: by the workload.  login: sent to the identity provider.  callback:
\* sent back to the page the user came for.  logout: signed out.
Answers == { "served", "unauthorized", "forbidden", "login", "callback", "logout" }

VARIABLES
  policy, login,   \* the AuthPolicy
  claims,          \* the conditions the user's tokens satisfy
  session,         \* the user is logged in
  request,         \* the request at hand
  carries,         \* what it carries
  answer           \* its answer, "none" while there is none

vars == << policy, login, claims, session, request, carries, answer >>

Init ==
  /\ policy \in Policies
  /\ login \in Logins
  /\ claims \in SUBSET Condition
  /\ session = FALSE
  /\ request \in Request
  /\ carries \in Carried \ {"code"}
  /\ answer = "none"

----------------------------------------------------------------------------
HasBearer == carries \in { "good", "bad" }

\* Auto-login looks after requests without a bearer token.
InLogin == login.enabled /\ ~HasBearer

\* The claims a request can show.
Known == IF carries = "good" \/ (InLogin /\ session) THEN claims ELSE {}

IntendedFor(holds) == Intended(policy, [ request EXCEPT !.holds = holds ])

LoginPaths == { login.redirectPath, login.logoutPath } \cup login.loginPaths

\* Open to anyone, and not one of the paths of the login itself.
Public == IntendedFor({}) /\ request.path \notin LoginPaths

DenyRedirect ==
  \E r \in Elems(policy.authRules) : r.denyRedirect /\ Covers(r, request)

\* The user has to log in first.
Anonymous == InLogin /\ ~session /\ ~Public
               /\ request.path \notin { login.redirectPath, login.logoutPath }

MayServe ==
  /\ carries # "bad"
  /\ IntendedFor(Known)
  /\ InLogin => request.path \notin { login.redirectPath, login.logoutPath }
  /\ ~Anonymous

MayForbid == carries # "bad" /\ ~IntendedFor(Known) /\ ~Anonymous

MayBeUnauthorized ==
  \/ carries = "bad"
  \/ Anonymous /\ DenyRedirect
  \/ InLogin /\ request.path = login.redirectPath /\ carries # "code"

MaySendToLogin == Anonymous /\ ~DenyRedirect

MayCallBack == InLogin /\ request.path = login.redirectPath /\ carries = "code"

MayLogOut == InLogin /\ request.path = login.logoutPath

May(a) ==
  CASE a = "served" -> MayServe
    [] a = "forbidden" -> MayForbid
    [] a = "unauthorized" -> MayBeUnauthorized
    [] a = "login" -> MaySendToLogin
    [] a = "callback" -> MayCallBack
    [] OTHER -> MayLogOut

----------------------------------------------------------------------------
\* A client sends its next request.
Ask ==
  /\ answer # "none"
  /\ request' \in Request
  /\ carries' \in Carried
  /\ answer' = "none"
  /\ UNCHANGED << policy, login, claims, session >>

\* It gets an answer; only the login and the logout change the session.
Reply ==
  /\ answer = "none"
  /\ \E a \in Answers :
       /\ May(a)
       /\ answer' = a
       /\ session' = CASE a = "callback" -> TRUE
                       [] a = "logout" -> FALSE
                       [] OTHER -> session
  /\ UNCHANGED << policy, login, claims, request, carries >>

Next == Ask \/ Reply

Spec == Init /\ [][Next]_vars
=============================================================================
