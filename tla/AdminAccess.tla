----------------------------- MODULE AdminAccess -----------------------------
(***************************************************************************)
(* Who is an admin: the login guard (auth.go), the session cookie and its  *)
(* flash messages (main.go), the CSRF token (csrf.go) and the handlers     *)
(* that log in and out, change the password, and delete a user once its    *)
(* log was exported (handlers.go).                                         *)
(*                                                                         *)
(* A session lives in the browser's cookie, whole.  A request carries the  *)
(* cookie as it was when it was sent, and a response that saves the        *)
(* session overwrites whatever cookie the browser has by then.  A tab has  *)
(* one request under way at a time; time is counted in ticks.              *)
(***************************************************************************)
EXTENDS Integers, FiniteSets

CONSTANTS Tabs,
          LoginMaxFailures, LoginBaseLockout, LoginMaxLockout,
          MaxTokens   \* bound on the CSRF tokens minted

ASSUME AccessAssumption ==
  /\ LoginMaxFailures \in Nat \ {0} /\ MaxTokens \in Nat \ {0}
  /\ LoginBaseLockout \in Nat \ {0} /\ LoginMaxLockout \in Nat
  /\ LoginBaseLockout <= LoginMaxLockout
  /\ IsFiniteSet(Tabs)

VARIABLES guard,   \* loginGuard; blocked: ticks to blockedUntil
          jar,     \* the browser's cookie
          minted,  \* CSRF tokens minted
          tab,     \* tab[t]: its form, its request and the response to it
          deleted, \* the user is deleted
          told,    \* history: what the browser was last told, "in" or "out";
                   \* "raced" if an overtaken response brought a session back
          csv,     \* history: the user's log was downloaded in this session
          spent    \* history: wrong passwords admitted since a success or lockout

vars == <<guard, jar, minted, tab, deleted, told, csv, spent>>

Sessions == [admin : BOOLEAN, csrf : 0..MaxTokens, flash : BOOLEAN, exported : BOOLEAN]
NoSession == [admin |-> FALSE, csrf |-> 0, flash |-> FALSE, exported |-> FALSE]
Answers == {"none", "page", "login", "out", "changed", "csv", "refused", "error"}
NewTab == [pc |-> "idle", form |-> 0, sess |-> NoSession, right |-> FALSE, sets |-> FALSE,
           answer |-> "none", stale |-> FALSE]

Init ==
  /\ guard = [failures |-> 0, lockout |-> 0, blocked |-> 0]
  /\ jar = NoSession /\ minted = 0 /\ deleted = FALSE
  /\ tab = [t \in Tabs |-> NewTab]
  /\ told = "out" /\ csv = FALSE /\ spent = 0

-----------------------------------------------------------------------------
(* The login guard.                                                        *)

allow == guard.blocked = 0

\* The next lockout, doubled up to its maximum.
Lockout(g) ==
  IF g.lockout = 0 THEN LoginBaseLockout
  ELSE IF g.lockout * 2 <= LoginMaxLockout THEN g.lockout * 2 ELSE LoginMaxLockout

\* Mutant: the lockout after the first is not capped.
failed_Uncapped(g) ==
  IF g.failures + 1 < LoginMaxFailures THEN [g EXCEPT !.failures = @ + 1]
  ELSE LET l == IF g.lockout = 0 THEN LoginBaseLockout ELSE g.lockout * 2
       IN [failures |-> 0, lockout |-> l, blocked |-> l]

failed(g) ==
  IF g.failures + 1 < LoginMaxFailures THEN [g EXCEPT !.failures = @ + 1]
  ELSE [failures |-> 0, lockout |-> Lockout(g), blocked |-> Lockout(g)]

succeeded == [failures |-> 0, lockout |-> 0, blocked |-> 0]

Tick ==
  /\ guard.blocked > 0
  /\ guard' = [guard EXCEPT !.blocked = @ - 1]
  /\ spent' = IF guard.blocked = 1 THEN 0 ELSE spent
  /\ UNCHANGED <<jar, minted, tab, deleted, told, csv>>

-----------------------------------------------------------------------------
(* Responses and the browser.                                              *)

\* The request of t is answered; if sets, with the session sess as a cookie.
Answer(t, answer, sess, sets) ==
  tab' = [tab EXCEPT ![t] = [NewTab EXCEPT !.pc = "answered", !.form = tab[t].form,
                                           !.answer = answer, !.sets = sets,
                                           !.sess = IF sets THEN sess ELSE NoSession,
                                           !.stale = tab[t].stale]]
Refuse(t) == Answer(t, "error", NoSession, FALSE)

\* saveSession sets a cookie if the session can be encoded, and if no part of
\* the response was written before: net/http has sent its headers then.
saveSession(saved, committed) == saved /\ ~committed

addFlash(t, sess, saved) ==
  Answer(t, "error", [sess EXCEPT !.flash = TRUE], saveSession(saved, FALSE))

\* Requests under way when a cookie is replaced carry an old one.
Overtaken(t) == [u \in Tabs |-> IF u # t /\ tab[u].pc # "idle" THEN [tab[u] EXCEPT !.stale = TRUE] ELSE tab[u]]

Deliver(t) ==
  /\ tab[t].pc = "answered"
  /\ jar' = IF tab[t].sets THEN tab[t].sess ELSE jar
  /\ told' = CASE tab[t].answer = "login" -> "in"
               [] tab[t].answer = "out" -> "out"
               [] told = "out" /\ tab[t].sess.admin /\ tab[t].stale -> "raced"
               [] OTHER -> told
  /\ tab' = [(IF tab[t].sets THEN Overtaken(t) ELSE tab) EXCEPT
               ![t] = [NewTab EXCEPT !.form = tab[t].form]]
  /\ csv' = (csv \/ tab[t].answer = "csv")
  /\ UNCHANGED <<guard, minted, deleted, spent>>

\* The cookie reaches its age.
Expire ==
  /\ jar.admin
  /\ jar' = NoSession /\ csv' = FALSE
  /\ tab' = [t \in Tabs |-> IF tab[t].pc = "idle" THEN tab[t] ELSE [tab[t] EXCEPT !.stale = TRUE]]
  /\ UNCHANGED <<guard, minted, deleted, told, spent>>

-----------------------------------------------------------------------------
(* Pages.                                                                  *)

Mints == IF jar.csrf = 0 THEN 1 ELSE 0

\* A page shows the flashes, and its forms hold the token of the session, minted
\* if there was none; what changed is saved.
newBaseData(t) ==
  /\ tab[t].pc = "idle" /\ minted + Mints <= MaxTokens
  /\ minted' = minted + Mints
  /\ \E saved \in BOOLEAN :
       LET token == IF jar.csrf = 0 THEN minted + 1 ELSE jar.csrf
           sess == [jar EXCEPT !.flash = FALSE, !.csrf = token]
           sets == sess # jar /\ saveSession(saved, FALSE)
       IN tab' = [tab EXCEPT ![t] = [NewTab EXCEPT !.pc = "answered", !.answer = "page",
                                                   !.form = token, !.sets = sets,
                                                   !.sess = IF sets THEN sess ELSE NoSession]]
  /\ UNCHANGED <<guard, jar, deleted, told, csv, spent>>

-----------------------------------------------------------------------------
(* Forms.                                                                  *)

\* csrfMiddleware lets a form through with the token of the session.
Submits(t) == tab[t].pc = "idle" /\ jar.csrf # 0 /\ jar.csrf = tab[t].form
Admin(t) == Submits(t) /\ jar.admin

csrfMiddleware(t) ==
  /\ tab[t].pc = "idle" /\ tab[t].form # 0 /\ ~Submits(t)
  /\ Refuse(t)
  /\ UNCHANGED <<guard, jar, minted, deleted, told, csv, spent>>

\* Without a session the other handlers send the browser to the login page.
NotAdmin(t) ==
  /\ Submits(t) /\ ~jar.admin
  /\ Refuse(t)
  /\ UNCHANGED <<guard, jar, minted, deleted, told, csv, spent>>

\* Mutant: an attempt refused by the guard counts as a failure.
Throttled_Counts(t) ==
  /\ Submits(t) /\ ~allow
  /\ Refuse(t) /\ guard' = failed(guard)
  /\ UNCHANGED <<jar, minted, deleted, told, csv, spent>>

\* handleAdminLogin refuses during a lockout, before it hashes ...
Throttled(t) ==
  /\ Submits(t) /\ ~allow
  /\ Refuse(t)
  /\ UNCHANGED <<guard, jar, minted, deleted, told, csv, spent>>

\* Mutant: the guard is asked after the password was hashed.
BeginLogin_HashFirst(t, right) ==
  /\ Submits(t)
  /\ tab' = [tab EXCEPT ![t] = [@ EXCEPT !.pc = "verify", !.sess = jar, !.right = right, !.stale = FALSE]]
  /\ spent' = IF right THEN spent ELSE spent + 1
  /\ UNCHANGED <<guard, jar, minted, deleted, told, csv>>

\* ... and otherwise reads the hash and derives the key, which takes its time.
\* If the hash cannot be read, nothing is counted.
BeginLogin(t, right) ==
  /\ Submits(t) /\ allow
  /\ tab' = [tab EXCEPT ![t] = [@ EXCEPT !.pc = "verify", !.sess = jar, !.right = right, !.stale = FALSE]]
  /\ spent' = IF right THEN spent ELSE spent + 1
  /\ UNCHANGED <<guard, jar, minted, deleted, told, csv>>

NoHash(t) ==
  /\ Submits(t) /\ allow
  /\ Refuse(t)
  /\ UNCHANGED <<guard, jar, minted, deleted, told, csv, spent>>

WrongPassword(t, saved) ==
  /\ tab[t].pc = "verify" /\ ~tab[t].right
  /\ guard' = failed(guard)
  /\ addFlash(t, tab[t].sess, saved)
  /\ UNCHANGED <<jar, minted, deleted, told, csv, spent>>

RightPassword(t, saved) ==
  /\ tab[t].pc = "verify" /\ tab[t].right
  /\ guard' = succeeded /\ spent' = 0
  /\ IF saved THEN Answer(t, "login", [tab[t].sess EXCEPT !.admin = TRUE], saveSession(saved, FALSE))
     ELSE Refuse(t)
  /\ UNCHANGED <<jar, minted, deleted, told, csv>>

\* Mutant: the browser is redirected even if the session could not be saved.
handleLogout_Redirects(t, saved) ==
  /\ Submits(t)
  /\ Answer(t, "out", [jar EXCEPT !.admin = FALSE], saveSession(saved, FALSE))
  /\ UNCHANGED <<guard, jar, minted, deleted, told, csv, spent>>

handleLogout(t, saved) ==
  /\ Submits(t)
  /\ IF saved THEN Answer(t, "out", [jar EXCEPT !.admin = FALSE], saveSession(saved, FALSE))
     ELSE Refuse(t)
  /\ UNCHANGED <<guard, jar, minted, deleted, told, csv, spent>>

\* A wrong form flashes and changes nothing; a new password ends this session,
\* and is kept if the session cannot be saved.
handleChangePassword(t, valid, updated, saved) ==
  /\ Admin(t)
  /\ IF ~valid THEN addFlash(t, jar, saved)
     ELSE IF ~updated THEN Refuse(t)
     ELSE Answer(t, "changed", [jar EXCEPT !.admin = FALSE, !.flash = TRUE], saveSession(saved, FALSE))
  /\ UNCHANGED <<guard, jar, minted, deleted, told, csv, spent>>

\* A GET.  The CSV is flushed to the client before the session is saved.
handleExport(t, saved) ==
  /\ tab[t].pc = "idle" /\ jar.admin
  /\ Answer(t, IF saved THEN "csv" ELSE "error", [jar EXCEPT !.exported = TRUE], saveSession(saved, TRUE))
  /\ UNCHANGED <<guard, jar, minted, deleted, told, csv, spent>>

handleDelete(t, ok, saved) ==
  /\ Admin(t)
  /\ IF ~jar.exported THEN Answer(t, "refused", NoSession, FALSE) /\ UNCHANGED deleted
     ELSE /\ deleted' = (deleted \/ ok)
          /\ Answer(t, IF ok THEN "page" ELSE "error", [jar EXCEPT !.exported = ~ok],
                    ok /\ saveSession(saved, FALSE))
  /\ UNCHANGED <<guard, jar, minted, told, csv, spent>>

Next ==
  \/ Tick \/ Expire
  \/ \E t \in Tabs :
       \/ newBaseData(t) \/ csrfMiddleware(t) \/ NotAdmin(t) \/ Throttled(t) \/ NoHash(t) \/ Deliver(t)
       \/ \E right \in BOOLEAN : BeginLogin(t, right)
       \/ \E saved \in BOOLEAN : \/ WrongPassword(t, saved) \/ RightPassword(t, saved)
                                 \/ handleLogout(t, saved) \/ handleExport(t, saved)
       \/ \E valid, updated, saved \in BOOLEAN : handleChangePassword(t, valid, updated, saved)
       \/ \E ok, saved \in BOOLEAN : handleDelete(t, ok, saved)

\* Time passes.
Spec == Init /\ [][Next]_vars /\ WF_vars(Tick)

-----------------------------------------------------------------------------
(* Properties.                                                             *)

\* The guard, the cookie and the tabs have their types: no lockout is longer
\* than its maximum.
TypeOK ==
  /\ guard \in [failures : 0..(LoginMaxFailures - 1), lockout : 0..LoginMaxLockout,
                blocked : 0..LoginMaxLockout]
  /\ jar \in Sessions /\ minted \in 0..MaxTokens
  /\ tab \in [Tabs -> [pc : {"idle", "verify", "answered"}, form : 0..MaxTokens, sess : Sessions,
                       right : BOOLEAN, sets : BOOLEAN, answer : Answers, stale : BOOLEAN]]
  /\ told \in {"in", "out", "raced"} /\ {deleted, csv} \subseteq BOOLEAN /\ spent \in Nat

\* However attempts overlap, between a success or the end of a lockout and the
\* next lockout no more wrong passwords are hashed than the allowance and one
\* attempt already under way in every other tab.
WorkBounded == spent <= LoginMaxFailures - 1 + Cardinality(Tabs)

\* A browser that was told it is logged out holds no admin session, unless a
\* response that was under way before brought an older cookie back.
OutMeansOut == told = "out" => ~jar.admin

\* A lockout ends, whatever attempts keep arriving and however many were under
\* way when it began.
LockoutEnds == ~allow ~> allow

\* Once the log of a user was downloaded, deleting the user is not refused for
\* want of an export.
ExportEnablesDelete ==
  (\E t \in Tabs : tab[t].answer = "refused") => ~csv
=============================================================================
