------------------------------- MODULE SignIn -------------------------------
(***************************************************************************)
(* The redirects a browser goes through before it sees a preview: the      *)
(* grant handshake between the preview host and the dashboard, the GitHub  *)
(* login behind it, and the login of the canonical onyx host.              *)
(*                                                                         *)
(* One browser with several tabs that share its cookies, all on previews   *)
(* of one domain.  A session stands for its token; a cookie that names it  *)
(* is "live" or "dead".  A tab whose request is refused shows an error.    *)
(***************************************************************************)
EXTENDS Naturals

CONSTANTS
    Tabs, NoTab,
    OnyxBefore,   \* the onyx cookie the browser starts with: "none", or "host"
                  \* of a login before onyx signed in for the previews
    Visits,       \* bound: navigations to a preview
    Expiries      \* bound: sessions, codes, cookies and tokens that end

ASSUME SignInAssumption == {Visits, Expiries} \subseteq Nat /\ OnyxBefore \in {"none", "host"}

VARIABLES
    tab,      \* where each tab is, and where the handshake lands it
    code,     \* the grant code in each tab's URL
    jar,      \* the browser's cookies: preview_session, preview_grant,
              \* preview_oauth_state (the tab that set it), onyx_return, onyx's
    token,    \* whether onyx's cookie holds a token that has not expired
    visits, expiries

signInVars == <<tab, code, jar, token, visits, expiries>>

AtRest == {"away", "page", "error"}

SignInInit ==
    /\ tab = [t \in Tabs |-> [at |-> "away", to |-> "preview"]]
    /\ code = [t \in Tabs |-> "none"]
    /\ jar = [apex |-> "none", grant |-> "none", state |-> NoTab,
              return |-> FALSE, onyx |-> OnyxBefore]
    /\ token = TRUE /\ visits = 0 /\ expiries = 0

Goes(t, place) == tab' = [tab EXCEPT ![t].at = place]

Visit(t) ==
    /\ tab[t].at \in AtRest /\ visits < Visits /\ visits' = visits + 1
    /\ tab' = [tab EXCEPT ![t] = [at |-> "preview", to |-> "preview"]]
    /\ UNCHANGED <<code, jar, token, expiries>>

-------------------------------------------------------------------------------
\* Preview hosts and the canonical host, gated alike.
Gated(t) ==
    /\ tab[t].at \in {"preview", "canonical"} /\ jar.grant # "live"
    /\ tab' = [tab EXCEPT ![t] = [at |-> "grant", to |-> tab[t].at]]
    /\ UNCHANGED <<code, jar, token, visits, expiries>>

\* A navigation without onyx's cookie goes to log in; so does one whose token
\* the preview's own onyx finds expired, by way of its /auth/login.
NeedsOnyxLogin == jar.onyx # "wide" \/ ~token

Preview(t) ==
    /\ tab[t].at = "preview" /\ jar.grant = "live"
    /\ IF NeedsOnyxLogin
       THEN jar' = [jar EXCEPT !.return = TRUE] /\ Goes(t, "canonical")
       ELSE Goes(t, "page") /\ UNCHANGED jar
    /\ UNCHANGED <<code, token, visits, expiries>>

\* A bug to catch: the browser is sent back with the cookie it came with.
ReturnsNarrow(t) ==
    /\ jar.onyx # "none" /\ jar.return
    /\ jar' = [jar EXCEPT !.return = FALSE] /\ Goes(t, "preview")

\* The browser has a session and a place to return to.
Returns(t) ==
    /\ jar.onyx # "none" /\ jar.return
    /\ jar' = [jar EXCEPT !.return = FALSE, !.onyx = "wide"] /\ Goes(t, "preview")

\* serveReserved on the canonical host: back to the preview, or on to onyx.
Canonical(t) ==
    /\ tab[t].at = "canonical" /\ jar.grant = "live"
    /\ \/ Returns(t)
       \/ /\ ~(jar.onyx # "none" /\ jar.return) /\ UNCHANGED jar
          /\ Goes(t, IF jar.onyx # "none" /\ token THEN "page" ELSE "google")
    /\ UNCHANGED <<code, token, visits, expiries>>

\* onyx's own login; rewriteOnyxCookieDomain widens the cookie it sets.
Google(t, consents) ==
    /\ tab[t].at = "google"
    /\ IF consents THEN /\ jar' = [jar EXCEPT !.onyx = "wide"] /\ token' = TRUE
                        /\ Goes(t, "canonical")
       ELSE Goes(t, "error") /\ UNCHANGED <<jar, token>>
    /\ UNCHANGED <<code, visits, expiries>>

-------------------------------------------------------------------------------
\* handleAuthPreviewGrant mints a code for a signed-in user.
Grant(t) ==
    /\ tab[t].at = "grant"
    /\ IF jar.apex = "live" THEN Goes(t, "code") /\ code' = [code EXCEPT ![t] = "good"]
       ELSE Goes(t, "login") /\ UNCHANGED code
    /\ UNCHANGED <<jar, token, visits, expiries>>

\* redeemPreviewGrant uses the code up; a code that is gone, or whose session
\* is, restarts the handshake.
Redeem(t) ==
    /\ tab[t].at = "code" /\ code' = [code EXCEPT ![t] = "none"]
    /\ IF code[t] = "good" THEN jar' = [jar EXCEPT !.grant = "live"] /\ Goes(t, tab[t].to)
       ELSE Goes(t, "grant") /\ UNCHANGED jar
    /\ UNCHANGED <<token, visits, expiries>>

\* handleAuthLogin: one state cookie for all tabs.
Login(t) ==
    /\ tab[t].at = "login" /\ jar' = [jar EXCEPT !.state = t] /\ Goes(t, "github")
    /\ UNCHANGED <<code, token, visits, expiries>>

GitHub(t, consents) ==
    /\ tab[t].at = "github" /\ Goes(t, IF consents THEN "callback" ELSE "error")
    /\ UNCHANGED <<code, jar, token, visits, expiries>>

\* githubsso's Exchange.  An account is on the allowlist itself, belongs to the
\* organisation that is, or neither; a failed read of the profile or its e-mails
\* is an error, a failed read of the membership counts as none.
Member(account, fails) == account = "member" /\ "membership" \notin fails

Exchange(account, fails) ==
    IF fails \cap {"code", "profile", "emails"} # {} THEN "error"
    ELSE IF account = "listed" \/ Member(account, fails) THEN "identity" ELSE "not allowed"

\* handleAuthCallback consumes the state cookie, whoever set it; only an
\* identity gets a session.
Callback(t, account, fails) ==
    LET in == jar.state = t /\ Exchange(account, fails) = "identity" IN
    /\ tab[t].at = "callback"
    /\ jar' = [jar EXCEPT !.state = NoTab, !.apex = IF in THEN "live" ELSE @]
    /\ Goes(t, IF in THEN "grant" ELSE "error")
    /\ UNCHANGED <<code, token, visits, expiries>>

-------------------------------------------------------------------------------
Orphaned == [t \in Tabs |-> IF code[t] = "good" THEN "bad" ELSE code[t]]

\* The dashboard session ends, in time or by a logout, and the codes minted for
\* it with it.
ApexEnds ==
    /\ jar.apex = "live" /\ jar' = [jar EXCEPT !.apex = "dead"] /\ code' = Orphaned
    /\ UNCHANGED <<tab, token>>

CodeEnds(t) ==
    /\ code[t] = "good" /\ code' = [code EXCEPT ![t] = "bad"] /\ UNCHANGED <<tab, jar, token>>

CookieEnds ==
    /\ \/ jar.grant = "live" /\ jar' = [jar EXCEPT !.grant = "dead"]
       \/ jar.state # NoTab /\ jar' = [jar EXCEPT !.state = NoTab]
       \/ jar.return /\ jar' = [jar EXCEPT !.return = FALSE]
       \/ jar.onyx # "none" /\ jar' = [jar EXCEPT !.onyx = "none"]
    /\ UNCHANGED <<tab, code, token>>

TokenEnds == jar.onyx # "none" /\ token /\ token' = FALSE /\ UNCHANGED <<tab, code, jar>>

Ends ==
    /\ expiries < Expiries /\ expiries' = expiries + 1 /\ UNCHANGED visits
    /\ ApexEnds \/ CookieEnds \/ TokenEnds \/ \E t \in Tabs : CodeEnds(t)

Serves(t) ==
    \/ Gated(t) \/ Preview(t) \/ Canonical(t) \/ Grant(t) \/ Redeem(t) \/ Login(t)
    \/ \E yes \in BOOLEAN : Google(t, yes) \/ GitHub(t, yes)
    \/ \E account \in {"listed", "member", "stranger"} :
         \E fails \in SUBSET {"code", "profile", "emails", "membership"} : Callback(t, account, fails)

SignInNext == Ends \/ \E t \in Tabs : Visit(t) \/ Serves(t)

\* A browser follows redirects, and its user answers what GitHub and Google ask.
SignInSpec == SignInInit /\ [][SignInNext]_signInVars /\ \A t \in Tabs : WF_signInVars(Serves(t))

-------------------------------------------------------------------------------

SignInTypeOK ==
    /\ \A t \in Tabs : /\ tab[t].at \in AtRest \cup {"preview", "canonical", "google", "grant",
                                            "code", "login", "github", "callback"}
                       /\ code[t] \in {"none", "good", "bad"}
    /\ jar.apex \in {"none", "live", "dead"} /\ jar.grant \in {"none", "live", "dead"}
    /\ jar.onyx \in {"none", "host", "wide"} /\ jar.state \in Tabs \cup {NoTab}

\* The cookie outlives the token it holds.
TokenOutlived == jar.onyx # "none" /\ ~token

\* "so needsOnyxLogin would bounce it right back here, forever"
\* (proxy.go:749): whatever expires on the way and however tabs interfere, each
\* navigation comes to an end, unless onyx's cookie outlives its token.
NavigationLands == \A t \in Tabs : []<>(tab[t].at \in AtRest \/ TokenOutlived)
=============================================================================
