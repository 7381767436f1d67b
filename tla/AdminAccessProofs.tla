-------------------------- MODULE AdminAccessProofs --------------------------
(***************************************************************************)
(* Proofs about AdminAccess for any number of tabs, any allowance of the   *)
(* login guard and any lockouts.  AccessInv is inductive: it relates the   *)
(* passwords counted to the attempts under way, and the session a request  *)
(* carries to the browser's cookie.                                        *)
(***************************************************************************)
EXTENDS AdminAccess, FiniteSetTheorems, TLAPS

TabTypes == [pc : {"idle", "verify", "answered"}, form : 0..MaxTokens, sess : Sessions,
             right : BOOLEAN, sets : BOOLEAN, answer : Answers, stale : BOOLEAN]
GuardTypes == [failures : 0..(LoginMaxFailures - 1), lockout : 0..LoginMaxLockout,
               blocked : 0..LoginMaxLockout]

\* Attempts with a wrong password that are being hashed.
Wrong == {t \in Tabs : tab[t].pc = "verify" /\ ~tab[t].right}

\* Outside a lockout every wrong password since the last was counted or is being
\* hashed; the bound holds during a lockout because nothing new is admitted.
AttemptsCounted ==
  /\ guard.blocked = 0 => spent <= guard.failures + Cardinality(Wrong)
  /\ WorkBounded

\* What holds of one tab: the session of a request that nothing has overtaken is
\* the browser's, so only a login makes an admin of a browser that is none; a
\* logout is answered with a cookie; and a tab that waits has no answer.
TabOK(w) ==
  /\ w.pc # "idle" /\ ~w.stale /\ w.sess.admin /\ w.answer # "login" => jar.admin
  /\ w.answer = "out" => w.sets /\ ~w.sess.admin
  /\ w.pc # "answered" => w.answer = "none"

AccessInv == TypeOK /\ AttemptsCounted /\ OutMeansOut /\ \A t \in Tabs : TabOK(tab[t])

-----------------------------------------------------------------------------
(* Types of the parts.                                                     *)

LEMMA TabTyped == TypeOK <=> /\ guard \in GuardTypes /\ tab \in [Tabs -> TabTypes]
                             /\ jar \in Sessions /\ minted \in 0..MaxTokens
                             /\ told \in {"in", "out", "raced"}
                             /\ {deleted, csv} \subseteq BOOLEAN /\ spent \in Nat
  BY DEF TypeOK, GuardTypes, TabTypes

LEMMA NoSessionTyped == NoSession \in Sessions /\ ~NoSession.admin
  BY AccessAssumption DEF NoSession, Sessions

\* Handlers edit single fields of a session.
LEMMA FlashTyped ==
  ASSUME NEW s \in Sessions
  PROVE  [s EXCEPT !.flash = TRUE] \in Sessions /\ [s EXCEPT !.flash = TRUE].admin = s.admin
  BY DEF Sessions

LEMMA AdminTyped ==
  ASSUME NEW s \in Sessions PROVE [s EXCEPT !.admin = TRUE] \in Sessions
  BY DEF Sessions

LEMMA TokenTyped ==
  ASSUME NEW s \in Sessions, NEW token \in 0..MaxTokens
  PROVE  /\ [s EXCEPT !.flash = FALSE, !.csrf = token] \in Sessions
         /\ [s EXCEPT !.flash = FALSE, !.csrf = token].admin = s.admin
  BY DEF Sessions

LEMMA NewTabTyped ==
  ASSUME NEW f \in 0..MaxTokens
  PROVE  [NewTab EXCEPT !.form = f] \in TabTypes
  BY NoSessionTyped DEF NewTab, TabTypes, Answers

LEMMA WrongCounted ==
  /\ IsFiniteSet(Wrong) /\ Cardinality(Wrong) \in Nat
  /\ Cardinality(Wrong) <= Cardinality(Tabs) /\ Cardinality(Tabs) \in Nat
<1>1. Wrong \in SUBSET Tabs
  BY DEF Wrong
<1>2. QED
  BY <1>1, AccessAssumption, FS_Subset, FS_CardinalityType

\* A response with the session sess, if it sets one.
Reply(t, answer, sess, sets) ==
  [NewTab EXCEPT !.pc = "answered", !.form = tab[t].form, !.answer = answer, !.sets = sets,
                 !.sess = IF sets THEN sess ELSE NoSession, !.stale = tab[t].stale]

LEMMA ReplyShape ==
  ASSUME TypeOK, NEW t \in Tabs, NEW answer \in Answers, NEW sess \in Sessions,
         NEW sets \in BOOLEAN
  PROVE  LET w == Reply(t, answer, sess, sets) IN
           /\ w \in TabTypes /\ w.pc = "answered" /\ w.answer = answer
           /\ w.sets = sets /\ w.stale = tab[t].stale
           /\ sets => w.sess = sess
           /\ ~sets => w.sess = NoSession
<1>1. tab[t] \in TabTypes
  BY TabTyped
<1>2. tab[t].form \in 0..MaxTokens /\ tab[t].stale \in BOOLEAN
  BY <1>1 DEF TabTypes
<1>3. PICK cookie \in Sessions : cookie = IF sets THEN sess ELSE NoSession
  BY NoSessionTyped
<1>4. Reply(t, answer, sess, sets) =
        [NewTab EXCEPT !.pc = "answered", !.form = tab[t].form, !.answer = answer, !.sets = sets,
                       !.sess = cookie, !.stale = tab[t].stale]
  BY <1>3 DEF Reply
<1>5. QED
  BY <1>2, <1>3, <1>4, NoSessionTyped DEF NewTab, TabTypes

LEMMA AnswerIsReply ==
  ASSUME NEW t, NEW answer, NEW sess, NEW sets, Answer(t, answer, sess, sets)
  PROVE  tab' = [tab EXCEPT ![t] = Reply(t, answer, sess, sets)]
  BY DEF Answer, Reply

-----------------------------------------------------------------------------
(* One tab moves.                                                          *)

LEMMA OneTab ==
  ASSUME AccessInv, NEW t \in Tabs, NEW w \in TabTypes, TabOK(w),
         tab' = [tab EXCEPT ![t] = w], jar' = jar
  PROVE  /\ tab' \in [Tabs -> TabTypes]
         /\ \A u \in Tabs : TabOK(tab[u])'
         /\ w.pc = "verify" /\ ~w.right => Wrong' = Wrong \cup {t}
         /\ ~(w.pc = "verify" /\ ~w.right) => Wrong' = Wrong \ {t}
<1>1. tab \in [Tabs -> TabTypes]
  BY TabTyped DEF AccessInv
<1>2. /\ tab' \in [Tabs -> TabTypes] /\ tab'[t] = w
      /\ \A u \in Tabs : u # t => tab'[u] = tab[u]
  BY <1>1
<1>3. \A u \in Tabs : TabOK(tab[u])'
  BY <1>2 DEF TabOK, AccessInv
<1>4. QED
  BY <1>2, <1>3 DEF Wrong

\* A request is answered.  Only a login may carry an admin session that the
\* browser does not have.
LEMMA ReplyStep ==
  ASSUME AccessInv, NEW t \in Tabs,
         NEW answer \in Answers, NEW sess \in Sessions, NEW sets \in BOOLEAN,
         Answer(t, answer, sess, sets), jar' = jar,
         answer # "login" /\ sess.admin /\ ~tab[t].stale => jar.admin,
         answer = "out" => sets /\ ~sess.admin
  PROVE  tab' \in [Tabs -> TabTypes] /\ (\A u \in Tabs : TabOK(tab[u])') /\ Wrong' = Wrong \ {t}
<1> DEFINE w == Reply(t, answer, sess, sets)
<1>1. /\ w \in TabTypes /\ w.pc = "answered" /\ w.answer = answer
      /\ w.sets = sets /\ w.stale = tab[t].stale
      /\ sets => w.sess = sess
      /\ ~sets => w.sess = NoSession
  BY ReplyShape DEF AccessInv
<1>2. tab' = [tab EXCEPT ![t] = w]
  BY AnswerIsReply
<1> HIDE DEF w
<1>3. TabOK(w)
  BY <1>1, NoSessionTyped DEF TabOK
<1>4. QED
  BY <1>1, <1>2, <1>3, OneTab

\* A tab that was not hashing changes no count.
LEMMA CountsUntouched ==
  ASSUME AccessInv, NEW t \in Tabs, tab[t].pc = "idle" \/ tab[t].pc = "answered",
         Wrong' = Wrong \ {t}, UNCHANGED <<guard, spent>>
  PROVE  AttemptsCounted'
<1>1. Wrong' = Wrong
  BY DEF Wrong
<1>2. QED
  BY <1>1 DEF AccessInv, AttemptsCounted, WorkBounded

\* A handler that leaves the guard alone answers.
LEMMA PlainAnswer ==
  ASSUME AccessInv, NEW t \in Tabs, tab[t].pc = "idle",
         NEW answer \in Answers, NEW sess \in Sessions, NEW sets \in BOOLEAN,
         Answer(t, answer, sess, sets),
         answer # "login", sess.admin => jar.admin, answer = "out" => sets /\ ~sess.admin,
         UNCHANGED <<guard, jar, minted, told, csv, spent>>, deleted' \in BOOLEAN
  PROVE  AccessInv'
<1>1. tab' \in [Tabs -> TabTypes] /\ (\A u \in Tabs : TabOK(tab[u])') /\ Wrong' = Wrong \ {t}
  BY ReplyStep
<1>2. TypeOK'
  BY <1>1, TabTyped DEF AccessInv, TypeOK, TabTypes
<1>3. QED
  BY <1>1, <1>2, CountsUntouched DEF AccessInv, OutMeansOut

\* Handlers that refuse.
LEMMA RefuseStep ==
  ASSUME AccessInv, NEW t \in Tabs,
         csrfMiddleware(t) \/ NotAdmin(t) \/ Throttled(t) \/ NoHash(t)
  PROVE  AccessInv'
<1>1. /\ tab[t].pc = "idle" /\ Answer(t, "error", NoSession, FALSE)
      /\ UNCHANGED <<guard, jar, minted, told, csv, spent, deleted>>
  BY DEF csrfMiddleware, NotAdmin, Throttled, NoHash, Refuse, Submits
<1>2. "error" \in Answers /\ deleted \in BOOLEAN
  BY DEF Answers, AccessInv, TypeOK
<1>3. QED
  BY <1>1, <1>2, NoSessionTyped, PlainAnswer

\* Handlers of the browser's own session.
LEMMA SessionEdits ==
  ASSUME AccessInv
  PROVE  /\ jar \in Sessions
         /\ \A b \in BOOLEAN : /\ [jar EXCEPT !.flash = b] \in Sessions
                               /\ [jar EXCEPT !.flash = b].admin = jar.admin
                               /\ [jar EXCEPT !.exported = b] \in Sessions
                               /\ [jar EXCEPT !.exported = b].admin = jar.admin
         /\ [jar EXCEPT !.admin = FALSE] \in Sessions /\ ~[jar EXCEPT !.admin = FALSE].admin
         /\ [jar EXCEPT !.admin = FALSE, !.flash = TRUE] \in Sessions
         /\ ~[jar EXCEPT !.admin = FALSE, !.flash = TRUE].admin
  BY DEF AccessInv, TypeOK, Sessions

LEMMA LogoutStep ==
  ASSUME AccessInv, NEW t \in Tabs, NEW saved \in BOOLEAN, handleLogout(t, saved)
  PROVE  AccessInv'
<1>1. /\ tab[t].pc = "idle" /\ deleted \in BOOLEAN /\ {"out", "error"} \subseteq Answers
      /\ UNCHANGED <<guard, jar, minted, told, csv, spent, deleted>>
  BY DEF handleLogout, Submits, AccessInv, TypeOK, Answers
<1>2. CASE saved
  <2>1. Answer(t, "out", [jar EXCEPT !.admin = FALSE], TRUE)
    BY <1>2 DEF handleLogout, saveSession
  <2>2. QED
    BY <1>1, <2>1, SessionEdits, PlainAnswer
<1>3. CASE ~saved
  <2>1. Answer(t, "error", NoSession, FALSE)
    BY <1>3 DEF handleLogout, Refuse
  <2>2. QED
    BY <1>1, <2>1, NoSessionTyped, PlainAnswer
<1>4. QED
  BY <1>2, <1>3

LEMMA PasswordStep ==
  ASSUME AccessInv, NEW t \in Tabs, NEW valid \in BOOLEAN, NEW updated \in BOOLEAN,
         NEW saved \in BOOLEAN, handleChangePassword(t, valid, updated, saved)
  PROVE  AccessInv'
<1>1. /\ tab[t].pc = "idle" /\ deleted \in BOOLEAN /\ {"changed", "error"} \subseteq Answers
      /\ UNCHANGED <<guard, jar, minted, told, csv, spent, deleted>>
      /\ saveSession(saved, FALSE) \in BOOLEAN
  BY DEF handleChangePassword, Admin, Submits, AccessInv, TypeOK, Answers, saveSession
<1>2. CASE ~valid
  <2>1. Answer(t, "error", [jar EXCEPT !.flash = TRUE], saveSession(saved, FALSE))
    BY <1>2 DEF handleChangePassword, addFlash
  <2>2. PICK sess \in Sessions : sess = [jar EXCEPT !.flash = TRUE] /\ sess.admin = jar.admin
    BY SessionEdits
  <2>3. Answer(t, "error", sess, saveSession(saved, FALSE))
    BY <2>1, <2>2
  <2>4. QED
    BY <1>1, <2>2, <2>3, PlainAnswer
<1>3. CASE valid /\ ~updated
  <2>1. Answer(t, "error", NoSession, FALSE)
    BY <1>3 DEF handleChangePassword, Refuse
  <2>2. QED
    BY <1>1, <2>1, NoSessionTyped, PlainAnswer
<1>4. CASE valid /\ updated
  <2>1. Answer(t, "changed", [jar EXCEPT !.admin = FALSE, !.flash = TRUE],
               saveSession(saved, FALSE))
    BY <1>4 DEF handleChangePassword
  <2>2. QED
    BY <1>1, <2>1, SessionEdits, PlainAnswer
<1>5. QED
  BY <1>2, <1>3, <1>4

LEMMA ExportStep ==
  ASSUME AccessInv, NEW t \in Tabs, NEW saved \in BOOLEAN, handleExport(t, saved)
  PROVE  AccessInv'
<1>1. /\ tab[t].pc = "idle" /\ deleted \in BOOLEAN
      /\ UNCHANGED <<guard, jar, minted, told, csv, spent, deleted>>
      /\ saveSession(saved, TRUE) \in BOOLEAN
  BY DEF handleExport, AccessInv, TypeOK, saveSession
<1>2. PICK answer \in {"csv", "error"} :
        Answer(t, answer, [jar EXCEPT !.exported = TRUE], saveSession(saved, TRUE))
  BY DEF handleExport
<1>3. answer \in Answers
  BY DEF Answers
<1>4. PICK sess \in Sessions : sess = [jar EXCEPT !.exported = TRUE] /\ sess.admin = jar.admin
  BY SessionEdits
<1>5. Answer(t, answer, sess, saveSession(saved, TRUE))
  BY <1>2, <1>4
<1>6. QED
  BY <1>1, <1>3, <1>4, <1>5, PlainAnswer

LEMMA DeleteStep ==
  ASSUME AccessInv, NEW t \in Tabs, NEW ok \in BOOLEAN, NEW saved \in BOOLEAN,
         handleDelete(t, ok, saved)
  PROVE  AccessInv'
<1>1. /\ tab[t].pc = "idle" /\ deleted \in BOOLEAN /\ {"refused", "page", "error"} \subseteq Answers
      /\ UNCHANGED <<guard, jar, minted, told, csv, spent>>
      /\ (ok /\ saveSession(saved, FALSE)) \in BOOLEAN
  BY DEF handleDelete, Admin, Submits, AccessInv, TypeOK, Answers, saveSession
<1>2. CASE ~jar.exported
  <2>1. Answer(t, "refused", NoSession, FALSE) /\ deleted' = deleted
    BY <1>2 DEF handleDelete
  <2>2. QED
    BY <1>1, <2>1, NoSessionTyped, PlainAnswer
<1>3. CASE jar.exported
  <2>1. deleted' \in BOOLEAN
    BY <1>3 DEF handleDelete
  <2>2. PICK answer \in {"page", "error"} :
          Answer(t, answer, [jar EXCEPT !.exported = ~ok], ok /\ saveSession(saved, FALSE))
    BY <1>3 DEF handleDelete
  <2>3. PICK e \in BOOLEAN : e = ~ok
    OBVIOUS
  <2>4. Answer(t, answer, [jar EXCEPT !.exported = e], ok /\ saveSession(saved, FALSE))
    BY <2>2, <2>3
  <2>5. QED
    BY <1>1, <2>1, <2>4, SessionEdits, PlainAnswer
<1>4. QED
  BY <1>2, <1>3

\* A page carries the browser's session, with a token and without flashes.
LEMMA PageStep ==
  ASSUME AccessInv, NEW t \in Tabs, newBaseData(t) PROVE AccessInv'
<1>1. /\ jar \in Sessions /\ minted \in 0..MaxTokens /\ tab[t].pc = "idle"
      /\ UNCHANGED <<guard, jar, deleted, told, csv, spent>>
  BY DEF newBaseData, AccessInv, TypeOK
<1>2. minted' \in 0..MaxTokens
  BY <1>1, AccessAssumption DEF newBaseData, Mints
<1>3. PICK saved \in BOOLEAN :
        LET token == IF jar.csrf = 0 THEN minted + 1 ELSE jar.csrf
            sess == [jar EXCEPT !.flash = FALSE, !.csrf = token]
            sets == sess # jar /\ saveSession(saved, FALSE)
        IN tab' = [tab EXCEPT ![t] = [NewTab EXCEPT !.pc = "answered", !.answer = "page",
                                                    !.form = token, !.sets = sets,
                                                    !.sess = IF sets THEN sess ELSE NoSession]]
  BY DEF newBaseData
<1>4. PICK token \in 0..MaxTokens : token = IF jar.csrf = 0 THEN minted + 1 ELSE jar.csrf
  <2>1. jar.csrf \in 0..MaxTokens
    BY <1>1 DEF Sessions
  <2>2. jar.csrf = 0 => minted + 1 \in 0..MaxTokens
    BY <1>1, AccessAssumption DEF newBaseData, Mints
  <2>3. QED
    BY <2>1, <2>2
<1>5. PICK sess \in Sessions :
        sess = [jar EXCEPT !.flash = FALSE, !.csrf = token] /\ sess.admin = jar.admin
  BY <1>1, TokenTyped
<1>6. PICK sets \in BOOLEAN : sets = (sess # jar /\ saveSession(saved, FALSE))
  OBVIOUS
<1>7. PICK cookie \in Sessions :
        cookie = (IF sets THEN sess ELSE NoSession) /\ (cookie.admin => jar.admin)
  BY <1>5, NoSessionTyped
<1> DEFINE w == [NewTab EXCEPT !.pc = "answered", !.answer = "page", !.form = token,
                               !.sets = sets, !.sess = cookie]
<1>8. tab' = [tab EXCEPT ![t] = w]
  BY <1>3, <1>4, <1>5, <1>6, <1>7
<1>9. w \in TabTypes /\ w.pc = "answered" /\ w.answer = "page" /\ w.sess = cookie
  BY NoSessionTyped DEF NewTab, TabTypes, Answers
<1> HIDE DEF w
<1>10. TabOK(w)
  BY <1>7, <1>9 DEF TabOK
<1>11. tab' \in [Tabs -> TabTypes] /\ (\A u \in Tabs : TabOK(tab[u])') /\ Wrong' = Wrong \ {t}
  BY <1>1, <1>8, <1>9, <1>10, OneTab
<1>12. TypeOK'
  BY <1>1, <1>2, <1>11, TabTyped DEF AccessInv, TypeOK, TabTypes
<1>13. QED
  BY <1>1, <1>11, <1>12, CountsUntouched DEF AccessInv, OutMeansOut

-----------------------------------------------------------------------------
(* The login guard.                                                        *)

\* A lockout is never zero and never longer than its maximum.
LEMMA FailedGuard ==
  ASSUME NEW g \in GuardTypes
  PROVE  /\ failed(g) \in GuardTypes
         /\ failed(g).blocked = 0 =>
              g.blocked = 0 /\ failed(g).failures = g.failures + 1
<1>1. /\ g.failures \in 0..(LoginMaxFailures - 1) /\ g.lockout \in 0..LoginMaxLockout
      /\ g.blocked \in 0..LoginMaxLockout
  BY DEF GuardTypes
<1>2. Lockout(g) \in 1..LoginMaxLockout
  BY <1>1, AccessAssumption DEF Lockout
<1>3. CASE g.failures + 1 < LoginMaxFailures
  <2>1. failed(g) = [g EXCEPT !.failures = g.failures + 1]
    BY <1>3 DEF failed
  <2>2. g.failures + 1 \in 0..(LoginMaxFailures - 1)
    BY <1>1, <1>3, AccessAssumption
  <2>3. QED
    BY <2>1, <2>2 DEF GuardTypes
<1>4. CASE ~(g.failures + 1 < LoginMaxFailures)
  <2>1. failed(g) = [failures |-> 0, lockout |-> Lockout(g), blocked |-> Lockout(g)]
    BY <1>4 DEF failed
  <2>2. 0 \in 0..(LoginMaxFailures - 1) /\ Lockout(g) \in 0..LoginMaxLockout /\ Lockout(g) # 0
    BY <1>2, AccessAssumption
  <2>3. QED
    BY <2>1, <2>2 DEF GuardTypes
<1>5. QED
  BY <1>3, <1>4

\* An attempt is admitted only outside a lockout, and is then under way.
LEMMA BeginLoginStep ==
  ASSUME AccessInv, NEW t \in Tabs, NEW right \in BOOLEAN, BeginLogin(t, right)
  PROVE  AccessInv'
<1>1. /\ jar \in Sessions /\ tab \in [Tabs -> TabTypes] /\ guard \in GuardTypes /\ spent \in Nat
      /\ tab[t].pc = "idle" /\ guard.blocked = 0
      /\ UNCHANGED <<guard, jar, minted, deleted, told, csv>>
  BY TabTyped DEF BeginLogin, Submits, allow, AccessInv
<1> DEFINE w == [tab[t] EXCEPT !.pc = "verify", !.sess = jar, !.right = right, !.stale = FALSE]
<1>2. /\ w \in TabTypes /\ w.pc = "verify" /\ w.sess = jar /\ w.right = right
      /\ w.answer = tab[t].answer
  BY <1>1 DEF TabTypes
<1>3. tab' = [tab EXCEPT ![t] = w]
  BY DEF BeginLogin
<1> HIDE DEF w
<1>4. TabOK(w)
  BY <1>1, <1>2 DEF TabOK, AccessInv
<1>5. /\ tab' \in [Tabs -> TabTypes] /\ (\A u \in Tabs : TabOK(tab[u])')
      /\ ~right => Wrong' = Wrong \cup {t}
      /\ right => Wrong' = Wrong \ {t}
  BY <1>1, <1>2, <1>3, <1>4, OneTab
<1>6. t \notin Wrong
  BY <1>1 DEF Wrong
<1>7. guard.failures \in 0..(LoginMaxFailures - 1)
  BY <1>1 DEF GuardTypes
<1>8. spent <= guard.failures + Cardinality(Wrong)
  BY <1>1 DEF AccessInv, AttemptsCounted
<1>9. AttemptsCounted' /\ spent' \in Nat
  <2>1. CASE right
    <3>1. Wrong' = Wrong /\ spent' = spent
      BY <1>5, <1>6, <2>1 DEF BeginLogin
    <3>2. QED
      BY <1>1, <3>1 DEF AccessInv, AttemptsCounted, WorkBounded
  <2>2. CASE ~right
    <3>1. Cardinality(Wrong \cup {t}) = Cardinality(Wrong) + 1
      BY <1>6, WrongCounted, FS_AddElement
    <3>2. Wrong' = Wrong \cup {t} /\ spent' = spent + 1
      BY <1>5, <2>2 DEF BeginLogin
    <3>3. Cardinality(Wrong') <= Cardinality(Tabs)
      <4>1. Wrong \cup {t} \in SUBSET Tabs
        BY DEF Wrong
      <4>2. QED
        BY <3>2, <4>1, AccessAssumption, FS_Subset
    <3>4. QED
      BY <1>1, <1>7, <1>8, <3>1, <3>2, <3>3, WrongCounted, AccessAssumption
         DEF AttemptsCounted, WorkBounded
  <2>3. QED
    BY <2>1, <2>2
<1>10. TypeOK'
  BY <1>1, <1>5, <1>9, TabTyped DEF AccessInv, TypeOK, TabTypes
<1>11. QED
  BY <1>1, <1>5, <1>9, <1>10 DEF AccessInv, OutMeansOut

\* A wrong password goes from the attempts under way to the failures counted, or
\* begins a lockout.
LEMMA WrongStep ==
  ASSUME AccessInv, NEW t \in Tabs, NEW saved \in BOOLEAN, WrongPassword(t, saved)
  PROVE  AccessInv'
<1>1. /\ tab \in [Tabs -> TabTypes] /\ guard \in GuardTypes /\ spent \in Nat
      /\ tab[t] \in TabTypes /\ TabOK(tab[t])
      /\ tab[t].pc = "verify" /\ ~tab[t].right /\ guard' = failed(guard)
      /\ UNCHANGED <<jar, minted, deleted, told, csv, spent>>
  BY TabTyped DEF WrongPassword, AccessInv
<1>2. PICK sess \in Sessions :
        sess = [tab[t].sess EXCEPT !.flash = TRUE] /\ sess.admin = tab[t].sess.admin
  <2>1. tab[t].sess \in Sessions
    BY <1>1 DEF TabTypes
  <2>2. QED
    BY <2>1, FlashTyped
<1>3. PICK sets \in BOOLEAN : Answer(t, "error", sess, sets)
  BY <1>2 DEF WrongPassword, addFlash, saveSession
<1>4. tab' \in [Tabs -> TabTypes] /\ (\A u \in Tabs : TabOK(tab[u])') /\ Wrong' = Wrong \ {t}
  <2>1. sess.admin /\ ~tab[t].stale => jar.admin
    BY <1>1, <1>2 DEF TabOK
  <2>2. "error" \in Answers /\ "error" # "out"
    BY DEF Answers
  <2>3. QED
    BY <1>1, <1>3, <2>1, <2>2, ReplyStep
<1>5. t \in Wrong
  BY <1>1 DEF Wrong
<1>6. Cardinality(Wrong') = Cardinality(Wrong) - 1
  <2>1. Cardinality(Wrong \ {t}) = Cardinality(Wrong) - 1
    BY <1>5, WrongCounted, FS_RemoveElement
  <2>2. QED
    BY <1>4, <2>1
<1>7. /\ guard' \in GuardTypes
      /\ guard'.blocked = 0 => guard.blocked = 0 /\ guard'.failures = guard.failures + 1
  BY <1>1, FailedGuard
<1>8. AttemptsCounted'
  BY <1>1, <1>6, <1>7, WrongCounted DEF AccessInv, AttemptsCounted, WorkBounded, GuardTypes
<1>9. TypeOK'
  BY <1>1, <1>4, <1>7, TabTyped DEF AccessInv, TypeOK, TabTypes, GuardTypes
<1>10. QED
  BY <1>1, <1>4, <1>8, <1>9 DEF AccessInv, OutMeansOut

\* A success clears all counts.
LEMMA RightStep ==
  ASSUME AccessInv, NEW t \in Tabs, NEW saved \in BOOLEAN, RightPassword(t, saved)
  PROVE  AccessInv'
<1>1. /\ tab \in [Tabs -> TabTypes] /\ tab[t] \in TabTypes
      /\ guard' = [failures |-> 0, lockout |-> 0, blocked |-> 0] /\ spent' = 0
      /\ UNCHANGED <<jar, minted, deleted, told, csv>>
  BY TabTyped DEF RightPassword, succeeded, AccessInv
<1>2. tab' \in [Tabs -> TabTypes] /\ (\A u \in Tabs : TabOK(tab[u])') /\ Wrong' = Wrong \ {t}
  <2>1. CASE saved
    <3>1. PICK sess \in Sessions : sess = [tab[t].sess EXCEPT !.admin = TRUE]
      <4>1. tab[t].sess \in Sessions
        BY <1>1 DEF TabTypes
      <4>2. QED
        BY <4>1, AdminTyped
    <3>2. PICK sets \in BOOLEAN : Answer(t, "login", sess, sets)
      BY <2>1, <3>1 DEF RightPassword, saveSession
    <3>3. "login" \in Answers /\ "login" # "out"
      BY DEF Answers
    <3>4. QED
      BY <1>1, <3>2, <3>3, ReplyStep
  <2>2. CASE ~saved
    <3>1. Answer(t, "error", NoSession, FALSE) /\ "error" \in Answers
      BY <2>2 DEF RightPassword, Refuse, Answers
    <3>2. QED
      BY <1>1, <3>1, NoSessionTyped, ReplyStep
  <2>3. QED
    BY <2>1, <2>2
<1>3. guard' \in GuardTypes /\ guard'.failures = 0
  BY <1>1, AccessAssumption DEF GuardTypes
<1>4. Cardinality(Wrong') \in Nat /\ Cardinality(Tabs) \in Nat
  <2>1. Wrong \ {t} \in SUBSET Tabs
    BY DEF Wrong
  <2>2. QED
    BY <1>2, <2>1, WrongCounted, AccessAssumption, FS_Subset, FS_CardinalityType
<1>5. AttemptsCounted'
  BY <1>1, <1>3, <1>4, AccessAssumption DEF AttemptsCounted, WorkBounded
<1>6. TypeOK'
  BY <1>1, <1>2, <1>3, TabTyped DEF AccessInv, TypeOK, TabTypes, GuardTypes
<1>7. QED
  BY <1>1, <1>2, <1>5, <1>6 DEF AccessInv, OutMeansOut

\* The end of a lockout clears the count of wrong passwords.
LEMMA TickStep ==
  ASSUME AccessInv, Tick PROVE AccessInv'
<1>1. /\ guard \in GuardTypes /\ spent \in Nat /\ guard.blocked \in 1..LoginMaxLockout
      /\ guard' = [guard EXCEPT !.blocked = guard.blocked - 1]
      /\ guard.failures \in 0..(LoginMaxFailures - 1)
      /\ UNCHANGED <<jar, minted, tab, deleted, told, csv>>
  BY TabTyped DEF Tick, AccessInv, GuardTypes
<1>2. /\ guard' \in GuardTypes /\ guard'.failures = guard.failures
      /\ guard'.blocked = guard.blocked - 1
  BY <1>1, AccessAssumption DEF GuardTypes
<1>3. Wrong' = Wrong /\ \A u \in Tabs : TabOK(tab[u])'
  BY <1>1 DEF Wrong, AccessInv, TabOK
<1>4. spent' \in Nat /\ spent' <= spent /\ (guard'.blocked = 0 => spent' = 0)
  BY <1>1, <1>2 DEF Tick
<1>5. AttemptsCounted'
  BY <1>1, <1>2, <1>3, <1>4, WrongCounted, AccessAssumption
     DEF AccessInv, AttemptsCounted, WorkBounded
<1>6. TypeOK'
  BY <1>1, <1>2, <1>4, TabTyped DEF AccessInv, TypeOK, TabTypes, GuardTypes
<1>7. QED
  BY <1>1, <1>3, <1>5, <1>6 DEF AccessInv, OutMeansOut

-----------------------------------------------------------------------------
(* The browser.                                                            *)

\* A response replaces the cookie: the other requests under way are overtaken.
LEMMA DeliverStep ==
  ASSUME AccessInv, NEW t \in Tabs, Deliver(t) PROVE AccessInv'
<1>1. /\ tab \in [Tabs -> TabTypes] /\ tab[t] \in TabTypes /\ TabOK(tab[t]) /\ jar \in Sessions
      /\ tab[t].pc = "answered" /\ tab[t].form \in 0..MaxTokens /\ tab[t].sess \in Sessions
      /\ UNCHANGED <<guard, minted, deleted, spent>>
  BY TabTyped DEF Deliver, AccessInv, TabTypes
<1> DEFINE w == [NewTab EXCEPT !.form = tab[t].form]
<1>2. w \in TabTypes /\ w.pc = "idle" /\ w.answer = "none"
  BY <1>1, NoSessionTyped DEF NewTab, TabTypes, Answers
<1>3. jar' = (IF tab[t].sets THEN tab[t].sess ELSE jar) /\ jar' \in Sessions
  BY <1>1 DEF Deliver
<1>4. csv' \in BOOLEAN /\ told' \in {"in", "out", "raced"}
  <2>1. csv' \in BOOLEAN
    BY DEF Deliver
  <2>2. told' \in {"in", "out", "raced"}
    BY DEF Deliver, AccessInv, TypeOK
  <2>3. QED
    BY <2>1, <2>2
<1>5. /\ tab' \in [Tabs -> TabTypes] /\ tab'[t] = w
      /\ \A u \in Tabs : u # t =>
           /\ tab'[u].pc = tab[u].pc /\ tab'[u].sess = tab[u].sess /\ tab'[u].right = tab[u].right
           /\ tab'[u].answer = tab[u].answer /\ tab'[u].sets = tab[u].sets
           /\ tab[t].sets /\ tab[u].pc # "idle" => tab'[u].stale
           /\ ~tab[t].sets => tab'[u].stale = tab[u].stale
  <2> DEFINE base == IF tab[t].sets THEN Overtaken(t) ELSE tab
  <2>1. /\ base \in [Tabs -> TabTypes]
        /\ \A u \in Tabs : u # t =>
             /\ base[u].pc = tab[u].pc /\ base[u].sess = tab[u].sess /\ base[u].right = tab[u].right
             /\ base[u].answer = tab[u].answer /\ base[u].sets = tab[u].sets
             /\ tab[t].sets /\ tab[u].pc # "idle" => base[u].stale
             /\ ~tab[t].sets => base[u].stale = tab[u].stale
    <3>1. CASE tab[t].sets
      BY <1>1, <3>1 DEF Overtaken, TabTypes
    <3>2. CASE ~tab[t].sets
      BY <1>1, <3>2
    <3>3. QED
      BY <3>1, <3>2
  <2>2. tab' = [base EXCEPT ![t] = w]
    BY DEF Deliver
  <2> HIDE DEF base, w
  <2>3. QED
    BY <1>2, <2>1, <2>2
<1> HIDE DEF w
<1>6. Wrong' = Wrong
  BY <1>1, <1>2, <1>5 DEF Wrong
<1>7. AttemptsCounted'
  BY <1>1, <1>6 DEF AccessInv, AttemptsCounted, WorkBounded
<1>8. ASSUME NEW u \in Tabs PROVE TabOK(tab[u])'
  <2>1. CASE u = t
    BY <1>2, <1>5, <2>1 DEF TabOK
  <2>2. CASE u # t
    BY <1>3, <1>5, <2>2 DEF TabOK, AccessInv
  <2>3. QED
    BY <2>1, <2>2
<1>9. OutMeansOut'
  <2> SUFFICES ASSUME told' = "out" PROVE ~jar'.admin
    BY DEF OutMeansOut
  <2>1. CASE tab[t].answer = "out"
    BY <1>1, <1>3, <2>1 DEF TabOK
  <2>2. CASE tab[t].answer # "out"
    <3>1. tab[t].answer # "login" /\ told = "out" /\ ~(tab[t].sess.admin /\ tab[t].stale)
      BY <2>2 DEF Deliver
    <3>2. ~jar.admin
      BY <3>1 DEF AccessInv, OutMeansOut
    <3>3. QED
      BY <1>1, <1>3, <3>1, <3>2 DEF TabOK
  <2>3. QED
    BY <2>1, <2>2
<1>10. TypeOK'
  BY <1>1, <1>3, <1>4, <1>5, TabTyped DEF AccessInv, TypeOK, TabTypes
<1>11. QED
  BY <1>7, <1>8, <1>9, <1>10 DEF AccessInv

LEMMA ExpireStep ==
  ASSUME AccessInv, Expire PROVE AccessInv'
<1>1. /\ tab \in [Tabs -> TabTypes] /\ jar' = NoSession /\ csv' = FALSE
      /\ UNCHANGED <<guard, minted, deleted, told, spent>>
      /\ tab' = [t \in Tabs |-> IF tab[t].pc = "idle" THEN tab[t] ELSE [tab[t] EXCEPT !.stale = TRUE]]
  BY TabTyped DEF Expire, AccessInv
<1>2. /\ tab' \in [Tabs -> TabTypes]
      /\ \A u \in Tabs :
           /\ tab'[u].pc = tab[u].pc /\ tab'[u].right = tab[u].right /\ tab'[u].sess = tab[u].sess
           /\ tab'[u].answer = tab[u].answer /\ tab'[u].sets = tab[u].sets
           /\ tab[u].pc # "idle" => tab'[u].stale
  BY <1>1, ZenonT(40) DEF TabTypes
<1>3. Wrong' = Wrong
  BY <1>2 DEF Wrong
<1>4. AttemptsCounted'
  BY <1>1, <1>3 DEF AccessInv, AttemptsCounted, WorkBounded
<1>5. \A u \in Tabs : TabOK(tab[u])'
  BY <1>2 DEF TabOK, AccessInv
<1>6. TypeOK' /\ OutMeansOut'
  BY <1>1, <1>2, NoSessionTyped DEF AccessInv, TypeOK, TabTypes, OutMeansOut
<1>7. QED
  BY <1>4, <1>5, <1>6 DEF AccessInv

-----------------------------------------------------------------------------
(* The invariant.                                                          *)

LEMMA InvInit == Init => AccessInv
<1> SUFFICES ASSUME Init PROVE AccessInv
  OBVIOUS
<1>1. NewTab \in TabTypes /\ NewTab.pc = "idle" /\ NewTab.answer = "none"
  BY NoSessionTyped, AccessAssumption DEF NewTab, TabTypes, Answers
<1>2. guard \in GuardTypes /\ tab \in [Tabs -> TabTypes]
  BY <1>1, AccessAssumption DEF Init, GuardTypes
<1>3. TypeOK
  <2>1. jar \in Sessions /\ minted \in 0..MaxTokens /\ spent \in Nat
    BY NoSessionTyped, AccessAssumption DEF Init
  <2>2. told \in {"in", "out", "raced"} /\ {deleted, csv} \subseteq BOOLEAN
    BY DEF Init
  <2>3. QED
    BY <1>2, <2>1, <2>2, TabTyped
<1>4. guard.failures = 0 /\ spent = 0
  BY DEF Init
<1>5. AttemptsCounted
  BY <1>4, WrongCounted, AccessAssumption DEF AttemptsCounted, WorkBounded
<1>6. OutMeansOut /\ \A t \in Tabs : TabOK(tab[t])
  BY <1>1, NoSessionTyped DEF Init, OutMeansOut, TabOK
<1>7. QED
  BY <1>3, <1>5, <1>6 DEF AccessInv

LEMMA InvStep == AccessInv /\ [Next]_vars => AccessInv'
<1> SUFFICES ASSUME AccessInv, [Next]_vars PROVE AccessInv'
  OBVIOUS
<1>1. CASE Tick \/ Expire
  BY <1>1, TickStep, ExpireStep
<1>2. ASSUME NEW t \in Tabs,
             \/ newBaseData(t) \/ csrfMiddleware(t) \/ NotAdmin(t) \/ Throttled(t) \/ NoHash(t)
             \/ Deliver(t)
      PROVE  AccessInv'
  BY <1>2, PageStep, RefuseStep, DeliverStep
<1>3. ASSUME NEW t \in Tabs, NEW right \in BOOLEAN, BeginLogin(t, right) PROVE AccessInv'
  BY <1>3, BeginLoginStep
<1>4. ASSUME NEW t \in Tabs, NEW saved \in BOOLEAN,
             \/ WrongPassword(t, saved) \/ RightPassword(t, saved)
             \/ handleLogout(t, saved) \/ handleExport(t, saved)
      PROVE  AccessInv'
  BY <1>4, WrongStep, RightStep, LogoutStep, ExportStep
<1>5. ASSUME NEW t \in Tabs, NEW valid \in BOOLEAN, NEW updated \in BOOLEAN, NEW saved \in BOOLEAN,
             handleChangePassword(t, valid, updated, saved)
      PROVE  AccessInv'
  BY <1>5, PasswordStep
<1>6. ASSUME NEW t \in Tabs, NEW ok \in BOOLEAN, NEW saved \in BOOLEAN, handleDelete(t, ok, saved)
      PROVE  AccessInv'
  BY <1>6, DeleteStep
<1>7. CASE UNCHANGED vars
  BY <1>7 DEF vars, AccessInv, TypeOK, AttemptsCounted, WorkBounded, Wrong, OutMeansOut, TabOK
<1>8. QED
  BY <1>1, <1>2, <1>3, <1>4, <1>5, <1>6, <1>7 DEF Next

LEMMA AccessInvariant == Spec => []AccessInv
  BY InvInit, InvStep, PTL DEF Spec

-----------------------------------------------------------------------------
(* Theorems.                                                               *)

\* Type correctness: the guard, the cookie, the tabs and the requests always
\* have their types; in particular no lockout exceeds loginMaxLockout
\* (auth.go failed).
THEOREM TypeCorrect == Spec => []TypeOK
<1>1. AccessInv => TypeOK
  BY DEF AccessInv
<1>2. QED
  BY <1>1, AccessInvariant, PTL

\* However many attempts overlap, the passwords hashed between a success or the
\* end of a lockout and the next lockout are bounded (auth.go allow and failed,
\* around the hash of handleAdminLogin).
THEOREM GuardBoundsWork == Spec => []WorkBounded
<1>1. AccessInv => WorkBounded
  BY DEF AccessInv, AttemptsCounted
<1>2. QED
  BY <1>1, AccessInvariant, PTL

\* A browser told it is logged out holds no admin session, unless an overtaken
\* response brought one back (handlers.go handleLogout, main.go saveSession).
THEOREM LogoutHolds == Spec => []OutMeansOut
<1>1. AccessInv => OutMeansOut
  BY DEF AccessInv
<1>2. QED
  BY <1>1, AccessInvariant, PTL
=============================================================================
