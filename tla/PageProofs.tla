----------------------------- MODULE PageProofs -----------------------------
(***************************************************************************)
(* Proofs about the browser side, for any number of tabs, sockets, calls   *)
(* and users: the WebSocket of a tab, the session the tabs share, the      *)
(* practice lab and the pages of the CTF area.                             *)
(***************************************************************************)
EXTENDS ClientSocket, ClientSession, CTFPages, PracticePages, FiniteSetTheorems, TLAPS

(***************************************************************************)
(* The WebSocket.                                                          *)
(*                                                                         *)
(* What makes SocketSound inductive is that the timer belongs to an open   *)
(* socket, and that the effect that last ran without a token left nothing. *)
(***************************************************************************)
SocketTyped ==
    /\ ready \in [Sockets -> States]
    /\ ws \in Sockets \cup {0}
    /\ pingTimer \in Sockets \cup {0}

TimerOfOpen == pingTimer # 0 => pingTimer = ws /\ ready[ws] = "open"

QuietEffect == effectOn = NoToken => ws = 0 /\ pingTimer = 0

SocketInv == SocketTyped /\ TimerOfOpen /\ QuietEffect /\ OneLiveSocket /\ leaked = {}

LEMMA NoSocketZero == 0 \notin Sockets
BY SocketAssumption

LEMMA RunEffectKeeps ==
    ASSUME SocketInv, NEW k \in Sockets, RunEffect(k)
    PROVE  SocketInv'
<1> DEFINE clean == effectOn # NoToken
           states == IF clean THEN Dropped(ready) ELSE ready
           kept == IF clean THEN 0 ELSE ws
<1>1. kept = 0 /\ ~Reusable(kept)
  BY DEF SocketInv, QuietEffect, Reusable
<1>2. pingTimer' = 0 /\ leaked' = {} /\ effectOn' = tokenNow
  BY DEF RunEffect, SocketInv, QuietEffect
<1>3. states \in [Sockets -> States]
  BY DEF SocketInv, SocketTyped, Dropped, States
<1>4. \A j \in Sockets : states[j] \notin {"connecting", "open"}
  BY NoSocketZero DEF SocketInv, SocketTyped, OneLiveSocket, QuietEffect, Dropped
<1>5. \/ ready' = states /\ ws' = 0
      \/ tokenNow # NoToken /\ ready' = [states EXCEPT ![k] = "connecting"] /\ ws' = k
  BY <1>1 DEF RunEffect
<1> HIDE DEF states
<1>6. SocketTyped' /\ OneLiveSocket'
  BY <1>2, <1>3, <1>4, <1>5 DEF SocketTyped, OneLiveSocket, States
<1>7. TimerOfOpen' /\ QuietEffect'
  BY <1>2, <1>5 DEF TimerOfOpen, QuietEffect
<1> QED BY <1>2, <1>6, <1>7 DEF SocketInv

LEMMA SocketNextInv == SocketInv /\ [SocketNext]_socketVars => SocketInv'
<1> SUFFICES ASSUME SocketInv, [SocketNext]_socketVars PROVE SocketInv'
  OBVIOUS
<1>1. ASSUME NEW tok \in Tokens \cup {NoToken}, ChangeToken(tok) PROVE SocketInv'
  BY <1>1 DEF SocketInv, ChangeToken, SocketTyped, TimerOfOpen, QuietEffect, OneLiveSocket
<1>2. ASSUME NEW k \in Sockets, Opens(k) PROVE SocketInv'
  <2>1. k = ws /\ pingTimer = 0 /\ effectOn # NoToken
    BY <1>2, NoSocketZero DEF SocketInv, Opens, OneLiveSocket, TimerOfOpen, QuietEffect
  <2>2. /\ ready' = [ready EXCEPT ![k] = "open"] /\ leaked' = {} /\ pingTimer' = k
        /\ ws' = ws /\ effectOn' = effectOn
    BY <1>2, <2>1 DEF SocketInv, Opens
  <2>3. SocketTyped'
    BY <2>2 DEF SocketInv, SocketTyped, States
  <2>4. TimerOfOpen' /\ QuietEffect'
    BY <2>1, <2>2 DEF SocketInv, SocketTyped, TimerOfOpen, QuietEffect
  <2>5. OneLiveSocket'
    BY <2>1, <2>2 DEF SocketInv, SocketTyped, OneLiveSocket
  <2> QED BY <2>2, <2>3, <2>4, <2>5 DEF SocketInv
<1>3. ASSUME NEW k \in Sockets, Delivers(k) PROVE SocketInv'
  BY <1>3 DEF SocketInv, Delivers, SocketTyped, TimerOfOpen, QuietEffect, OneLiveSocket
<1>4. ASSUME NEW k \in Sockets, Closes(k) PROVE SocketInv'
  <2>1. SocketTyped' /\ OneLiveSocket'
    BY <1>4 DEF SocketInv, Closes, SocketTyped, OneLiveSocket, States
  <2>2. TimerOfOpen' /\ QuietEffect' /\ leaked' = {}
    BY <1>4 DEF SocketInv, Closes, TimerOfOpen, QuietEffect
  <2> QED BY <2>1, <2>2 DEF SocketInv
<1>5. CASE UNCHANGED socketVars
  BY <1>5 DEF SocketInv, socketVars, SocketTyped, TimerOfOpen, QuietEffect, OneLiveSocket
<1> QED BY <1>1, <1>2, <1>3, <1>4, <1>5, RunEffectKeeps DEF SocketNext

LEMMA SocketInitInv == SocketInit => SocketInv
BY DEF SocketInit, SocketInv, SocketTyped, TimerOfOpen, QuietEffect, OneLiveSocket, States

(* A tab holds one live connection at most, leaks no timer, and is quiet   *)
(* once it is signed out, for any number of sockets and token changes and  *)
(* any order of open and close events (connectSocket, disconnectSocket).   *)
THEOREM SocketHolds == SocketSpec => []SocketSound
<1>1. SocketInv => SocketSound
  BY DEF SocketInv, SocketSound, NoTimerLeaks, TimerOfOpen, SignedOutIsQuiet, QuietEffect, Timers
<1> QED BY SocketInitInv, SocketNextInv, <1>1, PTL DEF SocketSpec
-----------------------------------------------------------------------------
(***************************************************************************)
(* The practice lab.                                                       *)
(*                                                                         *)
(* OneFlagPerForm is stated of the mounted form.  A page that is mounted   *)
(* again gets a number no call carries (LabNumbers), so that the calls of  *)
(* its earlier mounts, whose answers may arrive any time, are not its own. *)
(***************************************************************************)
FlagsOf(calls, m) == {c \in calls : c.kind = "flag" /\ c.mount = m}

LabNumbers ==
    /\ labCount \in Nat /\ mount \in 0 .. labCount
    /\ \A c \in labCalls : c.mount \in 0 .. labCount

LabInv ==
    /\ submitting \in BOOLEAN /\ labBusy \in BOOLEAN /\ typed \in BOOLEAN
    /\ SkeletonHasFetch
    /\ \A c, d \in FlagsOf(labCalls, mount) : c = d
    /\ Alive /\ labPage = "player" => (submitting <=> FlagsOf(labCalls, mount) # {})

\* The count of the calls only grows, and a new call carries a mount of now.
LEMMA LabNumbersNext == LabNumbers /\ [PracticeNext]_labVars => LabNumbers'
<1> SUFFICES ASSUME LabNumbers, [PracticeNext]_labVars PROVE LabNumbers'
  OBVIOUS
<1> USE DEF LabNumbers
<1>1. CASE UNCHANGED <<labCount, mount>> /\ labCalls' \subseteq labCalls
  BY <1>1
<1>2. ASSUME LabCounted, mount' \in {mount, 0, labCount'}, NEW m \in {mount', 0}, NEW kind,
             labCalls' \subseteq labCalls \cup {AskLab(kind, m)}
      PROVE  LabNumbers'
  <2>1. labCount' = labCount + 1 /\ mount' \in 0 .. labCount' /\ m \in 0 .. labCount'
    BY <1>2 DEF LabCounted
  <2>2. \A c \in labCalls' : c \in labCalls \/ c.mount = m
    BY <1>2 DEF AskLab
  <2> QED BY <2>1, <2>2
<1>3. ASSUME NEW p \in {"list", "player"}, LoadLab(p) PROVE LabNumbers'
  <2>1. CASE labCalls' = {AskLab("list", 0)} /\ mount' = 0
    BY <1>2, <1>3, <2>1 DEF LoadLab
  <2>2. CASE labCalls' = {AskLab("detail", mount')} /\ mount' = labCount'
    BY <1>2, <1>3, <2>2 DEF LoadLab
  <2> QED BY <1>3, <2>1, <2>2 DEF LoadLab, MountPlayer
<1>4. CASE EnterPlayer
  BY <1>2, <1>4 DEF EnterPlayer, MountPlayer
<1>5. CASE EnterList \/ Refilter
  <2>1. LabCounted /\ mount' = mount /\ labCalls' \subseteq labCalls \cup {AskLab("list", 0)}
    BY <1>5 DEF EnterList, Refilter
  <2> QED BY <1>2, <2>1
<1>6. CASE SendFlag
  BY <1>2, <1>6 DEF SendFlag
<1>7. CASE LeaveLab \/ OpenHints \/ TypeFlag
  BY <1>1, <1>7 DEF LeaveLab, OpenHints, TypeFlag
<1>8. ASSUME NEW c \in labCalls, NEW ok \in BOOLEAN,
             ListAnswered(c, ok) \/ DetailAnswered(c, ok) \/ FlagAnswered(c, ok)
      PROVE  LabNumbers'
  BY <1>1, <1>8 DEF ListAnswered, DetailAnswered, FlagAnswered
<1>9. CASE UNCHANGED labVars
  BY <1>1, <1>9 DEF labVars
<1> QED BY <1>3, <1>4, <1>5, <1>6, <1>7, <1>8, <1>9 DEF PracticeNext

LEMMA LoadLabKeeps ==
    ASSUME LabInv, NEW p \in {"list", "player"}, LoadLab(p)
    PROVE  LabInv'
<1>1. FlagsOf(labCalls', mount') = {}
  BY DEF LoadLab, AskLab, FlagsOf
<1>2. SkeletonHasFetch'
  <2>1. CASE p = "list"
    <3> DEFINE c == AskLab("list", 0)
    <3>1. labCalls' = {c} /\ c.kind = "list"
      BY <2>1 DEF LoadLab, AskLab
    <3>2. c \in {d \in labCalls' : d.kind = "list"}
      BY <3>1
    <3> QED BY <3>2 DEF SkeletonHasFetch, Fetches
  <2>2. CASE p # "list"
    BY <2>2 DEF LoadLab, SkeletonHasFetch
  <2> QED BY <2>1, <2>2
<1>3. submitting' \in BOOLEAN /\ labBusy' \in BOOLEAN /\ typed' \in BOOLEAN
  BY DEF LabInv, LoadLab, MountPlayer
<1>4. labPage' = "player" => ~submitting'
  BY DEF LoadLab, MountPlayer
<1> QED BY <1>1, <1>2, <1>3, <1>4 DEF LabInv

(* The steps that ask for a list, or for nothing, and keep the form.       *)
LEMMA FormRests ==
    ASSUME LabInv, UNCHANGED <<submitting, mount>>, typed' \in BOOLEAN, labBusy' \in BOOLEAN,
           SkeletonHasFetch', FlagsOf(labCalls', mount) = FlagsOf(labCalls, mount),
           Alive' /\ labPage' = "player" => Alive /\ labPage = "player"
    PROVE  LabInv'
BY DEF LabInv

LEMMA AsksList ==
    ASSUME NEW c, c.kind = "list"
    PROVE  /\ \A m : FlagsOf(labCalls \cup {c}, m) = FlagsOf(labCalls, m)
           /\ {d \in labCalls \cup {c} : d.kind = "list"} # {}
<1>1. c \in {d \in labCalls \cup {c} : d.kind = "list"}
  OBVIOUS
<1>2. \A m : FlagsOf(labCalls \cup {c}, m) = FlagsOf(labCalls, m)
  BY DEF FlagsOf
<1> QED BY <1>1, <1>2

LEMMA AnswerOfOther ==
    ASSUME NEW c, c.kind # "flag"
    PROVE  \A m : FlagsOf(labCalls \ {c}, m) = FlagsOf(labCalls, m)
BY DEF FlagsOf

LEMMA EnterPlayerKeeps ==
    ASSUME LabInv, LabNumbers, EnterPlayer
    PROVE  LabInv'
<1> DEFINE c == AskLab("detail", mount')
<1>1. /\ mount' = labCount + 1 /\ labCalls' = labCalls \cup {c} /\ c.kind = "detail"
      /\ submitting' = FALSE /\ typed' = FALSE /\ labBusy' = labBusy
  BY DEF EnterPlayer, MountPlayer, LabCounted, AskLab
<1> HIDE DEF c
<1>2. FlagsOf(labCalls', mount') = {}
  BY <1>1 DEF FlagsOf, LabNumbers
<1>3. SkeletonHasFetch'
  BY <1>1 DEF LabInv, SkeletonHasFetch, Fetches
<1> QED BY <1>1, <1>2, <1>3 DEF LabInv

LEMMA LabNextInv == LabInv /\ LabNumbers /\ [PracticeNext]_labVars => LabInv'
<1> SUFFICES ASSUME LabInv, LabNumbers, [PracticeNext]_labVars PROVE LabInv'
  OBVIOUS
<1>1. CASE EnterList
  <2>1. CASE ListView = "throws"
    BY <1>1, <2>1, FormRests DEF EnterList, LabInv, SkeletonHasFetch, Fetches, Alive
  <2>2. CASE ListView # "throws"
    <3>1. /\ labBusy' = TRUE /\ labCalls' = labCalls \cup {AskLab("list", 0)}
          /\ labPage' = "list" /\ UNCHANGED <<submitting, mount, typed>>
      BY <1>1, <2>2 DEF EnterList
    <3>2. FlagsOf(labCalls', mount) = FlagsOf(labCalls, mount) /\ SkeletonHasFetch'
      BY <3>1, AsksList DEF AskLab, SkeletonHasFetch, Fetches
    <3> QED BY <3>1, <3>2, FormRests DEF LabInv
  <2> QED BY <2>1, <2>2
<1>2. CASE LeaveLab
  BY <1>2, FormRests DEF LeaveLab, LabInv, SkeletonHasFetch, Fetches
<1>3. CASE Refilter
  <2>1. /\ labBusy' = TRUE /\ labCalls' = labCalls \cup {AskLab("list", 0)}
        /\ labPage' = labPage /\ labPage = "list" /\ UNCHANGED <<submitting, mount, typed>>
    BY <1>3 DEF Refilter
  <2>2. FlagsOf(labCalls', mount) = FlagsOf(labCalls, mount) /\ SkeletonHasFetch'
    BY <2>1, AsksList DEF AskLab, SkeletonHasFetch, Fetches
  <2> QED BY <2>1, <2>2, FormRests DEF LabInv
<1>4. CASE OpenHints
  BY <1>4, FormRests DEF OpenHints, LabInv, SkeletonHasFetch, Fetches, Alive
<1>5. CASE TypeFlag
  BY <1>5, FormRests DEF TypeFlag, LabInv, SkeletonHasFetch, Fetches, Alive
<1>6. CASE SendFlag
  <2> DEFINE c == AskLab("flag", mount)
  <2>1. /\ labCalls' = labCalls \cup {c} /\ submitting' = TRUE
        /\ UNCHANGED <<labBusy, typed, mount, labPage, crashedOn>>
    BY <1>6 DEF SendFlag
  <2>2. FlagsOf(labCalls, mount) = {}
    BY <1>6 DEF SendFlag, OnPlayer, MaySubmit, LabInv
  <2>3. FlagsOf(labCalls', mount') = {c}
    BY <2>1, <2>2 DEF FlagsOf, AskLab
  <2>4. SkeletonHasFetch'
    BY <2>1 DEF LabInv, SkeletonHasFetch, Fetches
  <2> QED BY <2>1, <2>3, <2>4 DEF LabInv
<1>7. ASSUME NEW c \in labCalls, NEW ok \in BOOLEAN, ListAnswered(c, ok) PROVE LabInv'
  <2>1. /\ c.kind = "list" /\ labCalls' = labCalls \ {c} /\ labBusy' = FALSE
        /\ UNCHANGED <<labPage, typed, submitting, mount>>
        /\ crashedOn' \in {"list", crashedOn}
    BY <1>7 DEF ListAnswered, Fetches, Lowered
  <2>2. SkeletonHasFetch' /\ FlagsOf(labCalls', mount) = FlagsOf(labCalls, mount)
    BY <2>1, AnswerOfOther DEF SkeletonHasFetch
  <2> QED BY <2>1, <2>2, FormRests DEF LabInv, Alive
<1>8. ASSUME NEW c \in labCalls, NEW ok \in BOOLEAN, DetailAnswered(c, ok) PROVE LabInv'
  <2>1. /\ c.kind = "detail" /\ labCalls' = labCalls \ {c}
        /\ UNCHANGED <<labPage, crashedOn, labBusy, typed, submitting, mount>>
    BY <1>8 DEF DetailAnswered
  <2>2. SkeletonHasFetch'
    BY <2>1 DEF LabInv, SkeletonHasFetch, Fetches
  <2>3. FlagsOf(labCalls', mount) = FlagsOf(labCalls, mount)
    BY <2>1, AnswerOfOther
  <2> QED BY <2>1, <2>2, <2>3, FormRests DEF LabInv, Alive
<1>9. ASSUME NEW c \in labCalls, NEW ok \in BOOLEAN, FlagAnswered(c, ok) PROVE LabInv'
  <2>1. /\ c.kind = "flag" /\ labCalls' = labCalls \ {c}
        /\ submitting' = (submitting /\ ~Mounted(c))
        /\ typed' \in BOOLEAN /\ submitting' \in BOOLEAN
        /\ UNCHANGED <<labPage, crashedOn, labBusy, mount>>
    BY <1>9 DEF FlagAnswered, LabInv
  <2>2. SkeletonHasFetch'
    BY <2>1 DEF LabInv, SkeletonHasFetch, Fetches
  <2>3. FlagsOf(labCalls', mount') = FlagsOf(labCalls, mount) \ {c}
    BY <2>1 DEF FlagsOf
  <2>4. CASE c \in FlagsOf(labCalls, mount)
    <3>1. FlagsOf(labCalls', mount') = {}
      BY <2>3, <2>4 DEF LabInv
    <3>2. Alive' /\ labPage' = "player" => ~submitting'
      BY <2>1, <2>4 DEF Mounted, FlagsOf, Alive
    <3> QED BY <2>1, <2>2, <3>1, <3>2 DEF LabInv
  <2>5. CASE c \notin FlagsOf(labCalls, mount)
    <3>1. FlagsOf(labCalls', mount') = FlagsOf(labCalls, mount)
      BY <2>3, <2>5
    <3>2. submitting' = submitting
      BY <2>1, <2>5 DEF Mounted, FlagsOf, LabInv
    <3>3. FlagsOf(labCalls', mount) = FlagsOf(labCalls, mount)
      BY <2>1, <3>1
    <3> QED BY <2>1, <2>2, <3>2, <3>3, FormRests DEF LabInv, Alive
  <2> QED BY <2>4, <2>5
<1>10. CASE UNCHANGED labVars
  BY <1>10, FormRests DEF labVars, LabInv, SkeletonHasFetch, Fetches, Alive
<1> QED
  BY <1>1, <1>2, <1>3, <1>4, <1>5, <1>6, <1>7, <1>8, <1>9, <1>10, LoadLabKeeps,
     EnterPlayerKeeps DEF PracticeNext

LEMMA LabInitInv == PracticeInit => LabInv /\ LabNumbers
<1> SUFFICES ASSUME PracticeInit PROVE LabInv /\ LabNumbers
  OBVIOUS
<1>1. LabNumbers
  BY DEF PracticeInit, LabNumbers
<1>2. LabInv
  BY DEF PracticeInit, LabInv, SkeletonHasFetch, FlagsOf
<1> QED BY <1>1, <1>2

(* The skeleton stands for a fetch that is on its way, and a form has one  *)
(* flag on its way at most and is disabled exactly while it has, for any   *)
(* number of visits, mounts, filters and answers in any order, the answers *)
(* to forms that were left included (app/practice).                        *)
THEOREM LabHolds == PracticeSpec => []LabSound
<1>1. LabInv => LabSound
  <2> SUFFICES ASSUME LabInv PROVE OneFlagPerForm
    BY DEF LabInv, LabSound
  <2>1. Cardinality(FlagsOf(labCalls, mount)) <= 1
    <3>1. CASE FlagsOf(labCalls, mount) = {}
      BY <3>1, FS_EmptySet
    <3>2. CASE FlagsOf(labCalls, mount) # {}
      <4>1. PICK c : FlagsOf(labCalls, mount) = {c}
        BY <3>2 DEF LabInv
      <4> QED BY <4>1, FS_Singleton
    <3> QED BY <3>1, <3>2
  <2> QED BY <2>1 DEF LabInv, OneFlagPerForm, FlagsOf
<1> QED BY LabInitInv, LabNextInv, LabNumbersNext, <1>1, PTL DEF PracticeSpec
-----------------------------------------------------------------------------
(***************************************************************************)
(* The session.                                                            *)
(*                                                                         *)
(* AdminSettled is about a layout whose effect has nothing to do; what     *)
(* keeps it true while calls are answered is that a layout that asked who  *)
(* the user is waits for a /auth/me call of its own tab, and any answer of *)
(* it names a user or forgets the token.                                   *)
(***************************************************************************)
CallsIn(calls, t) == {c \in calls : c.tab = t}

SessionTyped ==
    /\ at \in [Tabs -> Pages \cup {"closed"}]
    /\ shownUser \in [Tabs -> Anyone] /\ token \in [Tabs -> Anyone] /\ stored \in Anyone
    /\ busy \in [Tabs -> BOOLEAN]
    /\ guarded \in [Tabs -> {NotRun} \cup (Anyone \X Anyone)]
    /\ \A c \in flight : c.tab \in Tabs /\ c.who \in Accounts

TabSound(page, user, tok, isBusy, guard, calls, isCrossed) ==
    /\ isBusy => calls # {}
    /\ ~isCrossed => user \in {Nobody, tok}
    /\ page = "admin" /\ tok # Nobody /\ user = Nobody /\ guard = <<user, tok>> =>
           \E c \in calls : c.kind = "me"

SessionInv ==
    /\ SessionTyped
    /\ \A t \in Tabs : TabSound(at[t], shownUser[t], token[t], busy[t], guarded[t],
                                CallsIn(flight, t), t \in crossed)

(* A step of one tab: the other tabs keep their fields and their calls.    *)
TabMoves(t, page, user, tok, isBusy, guard) ==
    /\ page \in Pages \cup {"closed"} /\ user \in Anyone /\ tok \in Anyone
    /\ isBusy \in BOOLEAN /\ guard \in {NotRun} \cup (Anyone \X Anyone)
    /\ at' = [at EXCEPT ![t] = page]
    /\ shownUser' = [shownUser EXCEPT ![t] = user]
    /\ token' = [token EXCEPT ![t] = tok]
    /\ busy' = [busy EXCEPT ![t] = isBusy]
    /\ guarded' = [guarded EXCEPT ![t] = guard]
    /\ stored' \in Anyone
    /\ \A c \in flight' : c.tab \in Tabs /\ c.who \in Accounts
    /\ \A u \in Tabs \ {t} : CallsIn(flight', u) = CallsIn(flight, u)
    /\ crossed' \ {t} = crossed \ {t}

LEMMA OneTabMoves ==
    ASSUME SessionInv, NEW t \in Tabs, NEW page, NEW user, NEW tok, NEW isBusy, NEW guard,
           TabMoves(t, page, user, tok, isBusy, guard),
           TabSound(page, user, tok, isBusy, guard, CallsIn(flight', t), t \in crossed')
    PROVE  SessionInv'
<1> USE DEF TabMoves
<1>1. SessionTyped'
  BY DEF SessionInv, SessionTyped
<1>2. ASSUME NEW u \in Tabs
      PROVE  TabSound(at'[u], shownUser'[u], token'[u], busy'[u], guarded'[u],
                      CallsIn(flight', u), u \in crossed')
  <2>1. CASE u = t
    BY <2>1 DEF SessionInv, SessionTyped
  <2>2. CASE u # t
    <3>1. /\ at'[u] = at[u] /\ shownUser'[u] = shownUser[u] /\ token'[u] = token[u]
          /\ busy'[u] = busy[u] /\ guarded'[u] = guarded[u]
          /\ CallsIn(flight', u) = CallsIn(flight, u)
          /\ u \in crossed' <=> u \in crossed
      BY <2>2 DEF SessionInv, SessionTyped
    <3>2. TabSound(at[u], shownUser[u], token[u], busy[u], guarded[u], CallsIn(flight, u),
                   u \in crossed)
      BY DEF SessionInv
    <3> QED BY <3>1, <3>2 DEF TabSound
  <2> QED BY <2>1, <2>2
<1> QED BY <1>1, <1>2 DEF SessionInv

(* The fields of a tab, and that writing one of them back changes nothing. *)
LEMMA TabTyped ==
    ASSUME SessionInv, NEW t \in Tabs
    PROVE  /\ at[t] \in Pages \cup {"closed"} /\ shownUser[t] \in Anyone /\ token[t] \in Anyone
           /\ busy[t] \in BOOLEAN /\ guarded[t] \in {NotRun} \cup (Anyone \X Anyone)
           /\ stored \in Anyone
           /\ at = [at EXCEPT ![t] = at[t]]
           /\ shownUser = [shownUser EXCEPT ![t] = shownUser[t]]
           /\ token = [token EXCEPT ![t] = token[t]] /\ busy = [busy EXCEPT ![t] = busy[t]]
           /\ guarded = [guarded EXCEPT ![t] = guarded[t]]
           /\ TabSound(at[t], shownUser[t], token[t], busy[t], guarded[t],
                       CallsIn(flight, t), t \in crossed)
           /\ \A c \in flight : c.tab \in Tabs /\ c.who \in Accounts
BY DEF SessionInv, SessionTyped

LEMMA NotRunIsNone == \A a, b : NotRun # <<a, b>>
BY DEF NotRun

LEMMA OpenPageKeeps ==
    ASSUME SessionInv, NEW t \in Tabs, NEW p \in Pages, OpenPage(t, p)
    PROVE  SessionInv'
<1>1. stored \in Anyone /\ NotRun \in {NotRun} \cup (Anyone \X Anyone) /\ Nobody \in Anyone
      /\ MustCheck(stored) \in BOOLEAN
  BY TabTyped DEF Anyone, MustCheck
<1>2. \A c \in CheckCall(t, stored) : c.tab = t /\ c.who \in Accounts /\ c.kind = "me"
  BY <1>1 DEF CheckCall, Anyone
<1>3. flight' = (flight \ CallsOf(t)) \cup CheckCall(t, stored)
  BY DEF OpenPage
<1>4. \A c \in flight' : c.tab \in Tabs /\ c.who \in Accounts
  BY <1>2, <1>3, TabTyped
<1>5. \A u \in Tabs \ {t} : CallsIn(flight', u) = CallsIn(flight, u)
  <2>1. \A c \in CallsOf(t) : c.tab = t
    BY DEF CallsOf
  <2> QED BY <1>2, <1>3, <2>1 DEF CallsIn
<1>6. MustCheck(stored) => CallsIn(flight', t) # {}
  <2> SUFFICES ASSUME stored # Nobody PROVE CallsIn(flight', t) # {}
    BY DEF MustCheck
  <2> DEFINE c == [tab |-> t, kind |-> "me", who |-> stored, n |-> sessionCount']
  <2>1. c \in flight' /\ c.tab = t
    BY <1>3 DEF CheckCall
  <2> HIDE DEF c
  <2> QED BY <2>1 DEF CallsIn
<1>7. TabSound(p, Nobody, stored, MustCheck(stored), NotRun, CallsIn(flight', t), t \in crossed')
  BY <1>6, NotRunIsNone DEF TabSound
<1>8. /\ at' = [at EXCEPT ![t] = p] /\ shownUser' = [shownUser EXCEPT ![t] = Nobody]
      /\ token' = [token EXCEPT ![t] = stored] /\ busy' = [busy EXCEPT ![t] = MustCheck(stored)]
      /\ guarded' = [guarded EXCEPT ![t] = NotRun] /\ stored' = stored
      /\ crossed' = crossed \ {t}
  BY DEF OpenPage, GoToPage
<1>9. TabMoves(t, p, Nobody, stored, MustCheck(stored), NotRun)
  BY <1>1, <1>4, <1>5, <1>8 DEF TabMoves
<1> QED BY <1>7, <1>9, OneTabMoves

LEMMA FollowLinkKeeps ==
    ASSUME SessionInv, NEW t \in Tabs, NEW p \in Pages, FollowLink(t, p)
    PROVE  SessionInv'
<1>1. /\ at' = [at EXCEPT ![t] = p] /\ guarded' = [guarded EXCEPT ![t] = NotRun]
      /\ UNCHANGED <<shownUser, token, busy, stored, flight, crossed>>
  BY DEF FollowLink, GoToPage
<1>2. TabSound(p, shownUser[t], token[t], busy[t], NotRun, CallsIn(flight', t), t \in crossed')
  BY <1>1, TabTyped, NotRunIsNone DEF TabSound
<1>3. TabMoves(t, p, shownUser[t], token[t], busy[t], NotRun)
  BY <1>1, TabTyped DEF TabMoves
<1> QED BY <1>2, <1>3, OneTabMoves

LEMMA SignInKeeps ==
    ASSUME SessionInv, NEW t \in Tabs, NEW u \in Accounts, SignIn(t, u)
    PROVE  SessionInv'
<1> DEFINE c == [tab |-> t, kind |-> at[t], who |-> u, n |-> sessionCount']
<1>1. c.tab = t /\ c.who \in Accounts
  OBVIOUS
<1>2. /\ shownUser' = [shownUser EXCEPT ![t] = shownUser[t]]
      /\ token' = [token EXCEPT ![t] = token[t]] /\ busy' = [busy EXCEPT ![t] = TRUE]
      /\ stored' = token[t] /\ flight' = flight \cup {c} /\ UNCHANGED <<at, guarded, crossed>>
      /\ at[t] # "admin"
  BY DEF SignIn, Keep, AuthPages
<1> HIDE DEF c
<1>3. \A s \in Tabs \ {t} : CallsIn(flight', s) = CallsIn(flight, s)
  BY <1>1, <1>2 DEF CallsIn
<1>4. c \in CallsIn(flight', t)
  BY <1>1, <1>2 DEF CallsIn
<1>5. TabSound(at[t], shownUser[t], token[t], TRUE, guarded[t], CallsIn(flight', t), t \in crossed')
  BY <1>2, <1>4, TabTyped DEF TabSound
<1>6. TabMoves(t, at[t], shownUser[t], token[t], TRUE, guarded[t])
  BY <1>1, <1>2, <1>3, TabTyped DEF TabMoves
<1> QED BY <1>5, <1>6, OneTabMoves

LEMMA RefuseFormKeeps ==
    ASSUME SessionInv, NEW t \in Tabs, RefuseForm(t)
    PROVE  SessionInv'
<1>1. /\ shownUser' = [shownUser EXCEPT ![t] = shownUser[t]]
      /\ token' = [token EXCEPT ![t] = token[t]] /\ busy' = [busy EXCEPT ![t] = FALSE]
      /\ stored' = token[t] /\ UNCHANGED <<at, guarded, crossed, flight>>
  BY DEF RefuseForm, Keep
<1>2. TabSound(at[t], shownUser[t], token[t], FALSE, guarded[t], CallsIn(flight', t), t \in crossed')
  BY <1>1, TabTyped DEF TabSound
<1>3. TabMoves(t, at[t], shownUser[t], token[t], FALSE, guarded[t])
  BY <1>1, TabTyped DEF TabMoves
<1> QED BY <1>2, <1>3, OneTabMoves

LEMMA LogoutKeeps ==
    ASSUME SessionInv, NEW t \in Tabs, Logout(t)
    PROVE  SessionInv'
<1>1. /\ shownUser' = [shownUser EXCEPT ![t] = Nobody]
      /\ token' = [token EXCEPT ![t] = Nobody] /\ busy' = [busy EXCEPT ![t] = busy[t]]
      /\ stored' = Nobody /\ UNCHANGED <<at, guarded, flight>> /\ crossed' = crossed \ {t}
      /\ Nobody \in Anyone
  BY DEF Logout, Keep, Anyone
<1>2. TabSound(at[t], Nobody, Nobody, busy[t], guarded[t], CallsIn(flight', t), t \in crossed')
  BY <1>1, TabTyped DEF TabSound
<1>3. TabMoves(t, at[t], Nobody, Nobody, busy[t], guarded[t])
  BY <1>1, TabTyped DEF TabMoves
<1> QED BY <1>2, <1>3, OneTabMoves

LEMMA GuardKeeps ==
    ASSUME SessionInv, NEW t \in Tabs, GuardRuns(t)
    PROVE  SessionInv'
<1>1. CASE GuardBounces(t)
  <2>1. PICK p \in Pages : p # "admin" /\ GoToPage(t, p)
    BY <1>1 DEF GuardBounces, Pages, AuthPages
  <2>2. /\ at' = [at EXCEPT ![t] = p] /\ guarded' = [guarded EXCEPT ![t] = NotRun]
        /\ UNCHANGED <<shownUser, token, busy, stored, flight, crossed>>
    BY <1>1, <2>1 DEF GuardBounces, GoToPage
  <2>3. TabSound(p, shownUser[t], token[t], busy[t], NotRun, CallsIn(flight', t), t \in crossed')
    BY <2>1, <2>2, TabTyped DEF TabSound
  <2>4. TabMoves(t, p, shownUser[t], token[t], busy[t], NotRun)
    BY <2>2, TabTyped DEF TabMoves
  <2> QED BY <2>3, <2>4, OneTabMoves
<1>2. CASE GuardAsks(t)
  <2> DEFINE c == [tab |-> t, kind |-> "me", who |-> token[t], n |-> sessionCount']
  <2>1. token[t] # Nobody /\ token[t] \in Accounts
    BY <1>2, TabTyped DEF GuardAsks, Anyone
  <2>2. c.tab = t /\ c.who \in Accounts /\ c.kind = "me"
    BY <2>1
  <2>3. /\ shownUser' = [shownUser EXCEPT ![t] = shownUser[t]]
        /\ token' = [token EXCEPT ![t] = token[t]] /\ busy' = [busy EXCEPT ![t] = TRUE]
        /\ stored' = token[t] /\ UNCHANGED <<at, crossed>>
        /\ guarded' = [guarded EXCEPT ![t] = Seen(t)]
    BY <1>2, <2>1 DEF GuardAsks, StartCheck, Keep, MustCheck
  <2>4. flight' = flight \cup {c}
    BY <1>2, <2>1 DEF GuardAsks, StartCheck, CheckCall
  <2> HIDE DEF c
  <2>5. \A u \in Tabs \ {t} : CallsIn(flight', u) = CallsIn(flight, u)
    BY <2>2, <2>4 DEF CallsIn
  <2>6. c \in CallsIn(flight', t)
    BY <2>2, <2>4 DEF CallsIn
  <2>7. TabSound(at[t], shownUser[t], token[t], TRUE, Seen(t), CallsIn(flight', t), t \in crossed')
    BY <2>2, <2>3, <2>6, TabTyped DEF TabSound
  <2>8. Seen(t) \in {NotRun} \cup (Anyone \X Anyone)
    BY TabTyped DEF Seen
  <2>9. TabMoves(t, at[t], shownUser[t], token[t], TRUE, Seen(t))
    BY <2>2, <2>3, <2>4, <2>5, <2>8, TabTyped DEF TabMoves
  <2> QED BY <2>7, <2>9, OneTabMoves
<1>3. CASE GuardAdmits(t)
  <2>1. /\ guarded' = [guarded EXCEPT ![t] = Seen(t)]
        /\ UNCHANGED <<at, shownUser, token, busy, stored, flight, crossed>>
        /\ shownUser[t] # Nobody
    BY <1>3, SessionAssumption DEF GuardAdmits
  <2>2. TabSound(at[t], shownUser[t], token[t], busy[t], Seen(t), CallsIn(flight', t), t \in crossed')
    BY <2>1, TabTyped DEF TabSound
  <2>3. Seen(t) \in {NotRun} \cup (Anyone \X Anyone)
    BY TabTyped DEF Seen
  <2>4. TabMoves(t, at[t], shownUser[t], token[t], busy[t], Seen(t))
    BY <2>1, <2>3, TabTyped DEF TabMoves
  <2> QED BY <2>2, <2>4, OneTabMoves
<1> QED BY <1>1, <1>2, <1>3 DEF GuardRuns

LEMMA AnsweredKeeps ==
    ASSUME SessionInv, NEW c \in flight,
           SignedIn(c) \/ SignInFails(c) \/ Recognised(c) \/ NotRecognised(c)
    PROVE  SessionInv'
<1> DEFINE t == c.tab
<1>1. t \in Tabs /\ c.who \in Accounts /\ c.who # Nobody /\ c.who \in Anyone /\ Nobody \in Anyone
  BY SessionAssumption DEF SessionInv, SessionTyped, Anyone
<1>2. flight' = flight \ {c}
  BY DEF SignedIn, SignInFails, Recognised, NotRecognised
<1>3. /\ \A u \in Tabs \ {t} : CallsIn(flight', u) = CallsIn(flight, u)
      /\ \A d \in flight' : d.tab \in Tabs /\ d.who \in Accounts
  BY <1>2 DEF CallsIn, SessionInv, SessionTyped
<1> HIDE DEF t
<1>4. CASE SignedIn(c)
  <2> DEFINE g == Granted(c)
  <2>1. g \in Anyone
    BY <1>1 DEF Granted
  <2>2. /\ shownUser' = [shownUser EXCEPT ![t] = g] /\ token' = [token EXCEPT ![t] = g]
        /\ busy' = [busy EXCEPT ![t] = FALSE] /\ stored' = g
        /\ at' = [at EXCEPT ![t] = "practice"] /\ guarded' = [guarded EXCEPT ![t] = NotRun]
        /\ crossed' = crossed \ {t}
    BY <1>4 DEF SignedIn, Keep, GoToPage, t
  <2> HIDE DEF g
  <2>3. TabSound("practice", g, g, FALSE, NotRun, CallsIn(flight', t), t \in crossed')
    BY DEF TabSound
  <2>4. "practice" \in Pages \cup {"closed"} /\ NotRun \in {NotRun} \cup (Anyone \X Anyone)
    BY DEF Pages
  <2>5. TabMoves(t, "practice", g, g, FALSE, NotRun)
    BY <1>3, <2>1, <2>2, <2>4 DEF TabMoves
  <2> QED BY <1>1, <2>3, <2>5, OneTabMoves
<1>5. CASE SignInFails(c)
  <2>1. /\ shownUser' = [shownUser EXCEPT ![t] = shownUser[t]]
        /\ token' = [token EXCEPT ![t] = token[t]] /\ busy' = [busy EXCEPT ![t] = FALSE]
        /\ stored' = token[t] /\ UNCHANGED <<at, guarded, crossed>> /\ c.kind # "me"
    BY <1>5 DEF SignInFails, Keep, AuthPages, t
  <2>2. \A d \in CallsIn(flight, t) : d.kind = "me" => d \in CallsIn(flight', t)
    BY <1>2, <2>1 DEF CallsIn
  <2>3. TabSound(at[t], shownUser[t], token[t], FALSE, guarded[t], CallsIn(flight', t), t \in crossed')
    BY <1>1, <2>1, <2>2, TabTyped DEF TabSound
  <2>4. TabMoves(t, at[t], shownUser[t], token[t], FALSE, guarded[t])
    BY <1>1, <1>3, <2>1, TabTyped DEF TabMoves
  <2> QED BY <1>1, <2>3, <2>4, OneTabMoves
<1>6. CASE Recognised(c)
  <2>1. /\ shownUser' = [shownUser EXCEPT ![t] = c.who]
        /\ token' = [token EXCEPT ![t] = token[t]] /\ busy' = [busy EXCEPT ![t] = FALSE]
        /\ stored' = token[t] /\ UNCHANGED <<at, guarded>>
        /\ crossed' = IF token[t] = c.who THEN crossed \ {t} ELSE crossed \cup {t}
    BY <1>6 DEF Recognised, Keep, t
  <2>2. TabSound(at[t], c.who, token[t], FALSE, guarded[t], CallsIn(flight', t), t \in crossed')
    BY <1>1, <2>1 DEF TabSound
  <2>3. TabMoves(t, at[t], c.who, token[t], FALSE, guarded[t])
    BY <1>1, <1>3, <2>1, TabTyped DEF TabMoves
  <2> QED BY <1>1, <2>2, <2>3, OneTabMoves
<1>7. CASE NotRecognised(c)
  <2>1. /\ shownUser' = [shownUser EXCEPT ![t] = Nobody]
        /\ token' = [token EXCEPT ![t] = Nobody] /\ busy' = [busy EXCEPT ![t] = FALSE]
        /\ stored' = Nobody /\ UNCHANGED <<at, guarded>> /\ crossed' = crossed \ {t}
    BY <1>7 DEF NotRecognised, Keep, t
  <2>2. TabSound(at[t], Nobody, Nobody, FALSE, guarded[t], CallsIn(flight', t), t \in crossed')
    BY DEF TabSound
  <2>3. TabMoves(t, at[t], Nobody, Nobody, FALSE, guarded[t])
    BY <1>1, <1>3, <2>1, TabTyped DEF TabMoves
  <2> QED BY <1>1, <2>2, <2>3, OneTabMoves
<1> QED BY <1>4, <1>5, <1>6, <1>7

LEMMA SessionNextInv == SessionInv /\ [SessionNext]_sessionVars => SessionInv'
<1> SUFFICES ASSUME SessionInv, [SessionNext]_sessionVars PROVE SessionInv'
  OBVIOUS
<1>1. ASSUME NEW t \in Tabs, NEW p \in Pages, OpenPage(t, p) \/ FollowLink(t, p) PROVE SessionInv'
  BY <1>1, OpenPageKeeps, FollowLinkKeeps
<1>2. ASSUME NEW t \in Tabs, NEW u \in Accounts, SignIn(t, u) PROVE SessionInv'
  BY <1>2, SignInKeeps
<1>3. ASSUME NEW t \in Tabs, RefuseForm(t) \/ Logout(t) \/ GuardRuns(t) PROVE SessionInv'
  BY <1>3, RefuseFormKeeps, LogoutKeeps, GuardKeeps
<1>4. CASE Answered
  BY <1>4, AnsweredKeeps DEF Answered
<1>5. CASE UNCHANGED sessionVars
  BY <1>5 DEF sessionVars, SessionInv, SessionTyped
<1> QED BY <1>1, <1>2, <1>3, <1>4, <1>5 DEF SessionNext

LEMMA SessionInitInv == SessionInit => SessionInv
<1> SUFFICES ASSUME SessionInit PROVE SessionInv
  OBVIOUS
<1>1. SessionTyped
  BY DEF SessionInit, SessionTyped, Anyone
<1>2. \A t \in Tabs : TabSound(at[t], shownUser[t], token[t], busy[t], guarded[t],
                               CallsIn(flight, t), t \in crossed)
  BY DEF SessionInit, TabSound
<1> QED BY <1>1, <1>2 DEF SessionInv

(* A spinner waits for a call, a tab shows the user of its token, and a    *)
(* settled admin area is shown to admins, for any number of tabs, users    *)
(* and calls answered in any order (store/auth.ts, app/admin/layout.tsx).  *)
THEOREM SessionHolds == SessionSpec => []SessionSound
<1>1. SessionInv => SessionSound
  <2> SUFFICES ASSUME SessionInv PROVE SessionSound
    OBVIOUS
  <2>1. \A t \in Tabs : CallsIn(flight, t) = CallsOf(t)
    BY DEF CallsIn, CallsOf
  <2>2. BusyHasCall /\ UserOwnsToken
    BY <2>1, TabTyped DEF BusyHasCall, UserOwnsToken, TabSound
  <2>3. AdminSettled
    BY <2>1, TabTyped DEF AdminSettled, AdminShown, Due, Seen, TabSound
  <2> QED BY <2>2, <2>3 DEF SessionSound
<1> QED BY SessionInitInv, SessionNextInv, <1>1, PTL DEF SessionSpec
-----------------------------------------------------------------------------
(***************************************************************************)
(* The pages of the CTF area.                                              *)
(*                                                                         *)
(* TeamShownIsOurs says nothing while a write is answered and its answer   *)
(* not taken.  The invariant says what holds meanwhile: a team that is     *)
(* shown, or is in an answer that will still count, is one of the user's,  *)
(* or a later write has changed that and its answer is still to come.      *)
(***************************************************************************)
WritesAnswered(u, k) ==
    {c \in asked : c.by = u /\ c.kind \in Writes /\ c.at > k /\ c.got # "refused"}

\* The teams an answer to u of moment k may show.
Excused(u, k) == {t \in CTFTeams \cup {NoTeam} :
    t = NoTeam \/ t \in TeamsOf(u) \/ WritesAnswered(u, k) # {}}

CTFCalls == [kind : Writes \cup {"event", "team"}, by : Anybody, team : CTFTeams \cup {NoTeam}, n : Nat,
             at : Nat, got : CTFTeams \cup {NoTeam, "refused", "nothing"}]

CallSound(c) ==
    /\ c \in CTFCalls /\ c.at \in 0 .. serial
    /\ c.kind \in {"create", "join"} => c.team \in CTFTeams
    /\ c.at > 0 => c.kind # "event" /\ c.got \in CTFTeams \cup {NoTeam, "refused"}
    /\ c.at > taken /\ c.got # "refused" => c.got \in Excused(c.by, c.at)

CallsSound == \A c \in asked : CallSound(c)

ShownExcused == ~doubt => team \in Excused(who, 0)

FlagHasCall == ctfBusy => \E c \in asked : c.kind \in {"event", "create", "join"}

TimerCurrent == ctfPage = "ctf" => timer = TimerAt(event, now)

CTFInv == CTFTypeOK /\ CallsSound /\ ShownExcused /\ FlagHasCall /\ TimerCurrent

LEMMA CTFInitInv == CTFInit => CTFInv
<1> SUFFICES ASSUME CTFInit PROVE CTFInv
  OBVIOUS
<1>1. CTFTypeOK
  <2>2. joined \subseteq CTFUsers \X CTFTeams \X TeamRoles
    BY DEF CTFInit
  <2>3. now \in 1 .. MaxNow /\ clicks \in 0 .. MaxClicks /\ taken \in 0 .. serial
    BY CTFPagesAssumption DEF CTFInit
  <2> QED BY <2>2, <2>3 DEF CTFInit, CTFTypeOK, CTFRoutes, Lists, Anybody
<1>2. CallsSound /\ ShownExcused /\ FlagHasCall /\ TimerCurrent
  BY DEF CTFInit, CallsSound, ShownExcused, Excused, FlagHasCall, TimerCurrent
<1> QED BY <1>1, <1>2 DEF CTFInv

(* The clicks of a page: what they add has not been answered.              *)
LEMMA AskingKeeps ==
    ASSUME CTFInv, NEW new, asked' = asked \cup new,
           \A c \in new : /\ c \in CTFCalls /\ c.at = 0
                          /\ c.kind \in {"create", "join"} => c.team \in CTFTeams,
           UNCHANGED <<who, serial, taken, doubt, team, joined>>
    PROVE  CallsSound' /\ ShownExcused'
<1>1. \A u \in Anybody, k \in Nat : Excused(u, k) \subseteq Excused(u, k)'
  BY DEF Excused, WritesAnswered, TeamsOf
<1>2. taken \in Nat /\ serial \in Nat
  BY DEF CTFInv, CTFTypeOK
<1>3. ShownExcused'
  BY <1>1 DEF CTFInv, CTFTypeOK, ShownExcused
<1>4. ASSUME NEW c \in asked PROVE CallSound(c)'
  <2>1. CallSound(c) /\ c.at \in Nat /\ c.by \in Anybody
    BY <1>2, <1>4 DEF CTFInv, CallsSound, CallSound, CTFCalls
  <2>2. Excused(c.by, c.at) \subseteq Excused(c.by, c.at)'
    BY <1>1, <2>1
  <2> QED BY <2>1, <2>2 DEF CallSound
<1>5. ASSUME NEW c \in new PROVE CallSound(c)'
  <2>1. c.at = 0 /\ serial' = serial /\ taken' = taken
    BY <1>5
  <2>2. ~(c.at > 0) /\ ~(c.at > taken') /\ c.at \in 0 .. serial'
    BY <1>2, <2>1
  <2> QED BY <1>5, <2>2 DEF CallSound
<1> QED BY <1>3, <1>4, <1>5 DEF CallsSound
(* The backend handles a call: whatever was excused still is, by the new   *)
(* answer if it changed the memberships.                                   *)
LEMMA AnswerKeeps ==
    ASSUME CTFInv, NEW c \in asked, NEW got \in CTFTeams \cup {NoTeam, "refused"}, Answer(c, got),
           c.at = 0, c.kind # "event", joined' \subseteq CTFUsers \X CTFTeams \X TeamRoles,
           \A u \in Anybody : \/ TeamsOf(u)' = TeamsOf(u)
                              \/ u = c.by /\ c.kind \in Writes /\ got # "refused",
           got \in TeamsOf(c.by)' \cup {NoTeam, "refused"}
    PROVE  CTFInv'
<1>1. /\ c \in CTFCalls /\ serial \in Nat /\ taken \in 0 .. serial
      /\ \A e \in asked : CallSound(e) /\ e.at \in 0 .. serial
  BY DEF CTFInv, CTFTypeOK, CallsSound, CallSound
<1>2. PICK d \in CTFCalls :
        /\ d.kind = c.kind /\ d.by = c.by /\ d.team = c.team /\ d.at = serial + 1 /\ d.got = got
        /\ asked' = (asked \ {c}) \cup {d}
  <2> DEFINE e == [c EXCEPT !.at = serial', !.got = got]
  <2>1. asked' = (asked \ {c}) \cup {e} /\ serial' = serial + 1 /\ serial' \in Nat
    BY <1>1 DEF Answer
  <2>2. e \in CTFCalls /\ e.kind = c.kind /\ e.by = c.by /\ e.team = c.team /\ e.at = serial' /\ e.got = got
    BY <1>1, <2>1 DEF CTFCalls
  <2> HIDE DEF e
  <2> QED BY <2>1, <2>2
<1>3. /\ serial' = serial + 1
      /\ UNCHANGED <<ctfPage, who, event, team, roster, filled, ctfBusy, timer, now, lists, taken,
                     doubt, clicks>>
  BY DEF Answer
<1>4. ASSUME NEW u \in Anybody, NEW k \in 0 .. serial PROVE Excused(u, k) \subseteq Excused(u, k)'
  <2>1. CASE TeamsOf(u)' = TeamsOf(u)
    <3>1. \A e \in WritesAnswered(u, k) : e \in WritesAnswered(u, k)'
      BY <1>1, <1>2, <1>4 DEF WritesAnswered
    <3> QED BY <2>1, <3>1 DEF Excused
  <2>2. CASE u = c.by /\ c.kind \in Writes /\ got # "refused"
    <3>1. d \in WritesAnswered(u, k)'
      BY <1>1, <1>2, <1>4, <2>2 DEF WritesAnswered
    <3> QED BY <3>1 DEF Excused
  <2> QED BY <2>1, <2>2
<1>5. CallSound(d)'
  <2>1. got # "refused" => got \in Excused(d.by, d.at)'
    BY <1>2, CTFPagesAssumption DEF Excused
  <2> QED BY <1>1, <1>2, <1>3, <2>1 DEF CTFInv, CallsSound, CallSound
<1>6. ASSUME NEW e \in asked PROVE CallSound(e)'
  <2>1. Excused(e.by, e.at) \subseteq Excused(e.by, e.at)' /\ e.at \in 0 .. serial'
    BY <1>1, <1>3, <1>4 DEF CallSound, CTFCalls
  <2> QED BY <1>1, <1>3, <2>1 DEF CallSound
<1>7. CallsSound'
  BY <1>2, <1>5, <1>6 DEF CallsSound
<1>8. ShownExcused'
  BY <1>1, <1>3, <1>4 DEF CTFInv, CTFTypeOK, ShownExcused
<1>9. CTFTypeOK'
  <2>1. serial' \in Nat /\ taken' \in 0 .. serial'
    BY <1>1, <1>3
  <2>2. \A e \in asked' : e.kind \in Writes \cup {"event", "team"} /\ e.at \in 0 .. serial'
    BY <1>7 DEF CallsSound, CallSound, CTFCalls
  <2> QED BY <1>3, <2>1, <2>2 DEF CTFInv, CTFTypeOK
<1>10. FlagHasCall' /\ TimerCurrent'
  BY <1>2, <1>3 DEF CTFInv, FlagHasCall, TimerCurrent, TimerAt
<1> QED BY <1>7, <1>8, <1>9, <1>10 DEF CTFInv

\* A row of u more or less: what it says of u, and that it says nothing of another.
LEMMA RowOf ==
    ASSUME NEW u \in CTFUsers, NEW t \in CTFTeams, NEW role \in TeamRoles,
           joined \subseteq CTFUsers \X CTFTeams \X TeamRoles,
           joined' = joined \cup {<<u, t, role>>} \/ joined' = joined \ {<<u, t, role>>}
    PROVE  /\ joined' \subseteq CTFUsers \X CTFTeams \X TeamRoles
           /\ \A x : x # u => TeamsOf(x)' = TeamsOf(x)
           /\ <<u, t, role>> \in joined' => t \in TeamsOf(u)'
<1>1. joined' \subseteq CTFUsers \X CTFTeams \X TeamRoles
  OBVIOUS
<1>2. ASSUME NEW x, x # u PROVE TeamsOf(x)' = TeamsOf(x)
  <2>1. \A s \in CTFTeams, r \in TeamRoles : <<x, s, r>> \in joined' <=> <<x, s, r>> \in joined
    BY <1>2
  <2> QED BY <2>1 DEF TeamsOf
<1>3. <<u, t, role>> \in joined' => t \in TeamsOf(u)'
  BY DEF TeamsOf
<1> QED BY <1>1, <1>2, <1>3

LEMMA ServeKeeps ==
    ASSUME CTFInv, NEW c, Serve(c)
    PROVE  CTFInv'
<1>1. /\ c \in asked /\ c.at = 0 /\ c.kind # "event" /\ CallSound(c) /\ c.by \in Anybody
      /\ joined \subseteq CTFUsers \X CTFTeams \X TeamRoles
  BY DEF Serve, CTFInv, CTFTypeOK, CallsSound, CallSound, CTFCalls
<1>2. CASE ServeRead(c)
  <2>1. joined' = joined /\ \A u : TeamsOf(u)' = TeamsOf(u)
    BY <1>2 DEF ServeRead, TeamsOf
  <2>2. PICK got \in TeamsOf(c.by) \cup {NoTeam} : Answer(c, got)
    BY <1>2 DEF ServeRead
  <2>3. got \in CTFTeams \cup {NoTeam, "refused"}
    BY DEF TeamsOf
  <2> QED BY <1>1, <2>1, <2>2, <2>3, AnswerKeeps
<1>3. CASE c.by # NoUser /\ ServeWrite(c)
  <2>0. c.by \in CTFUsers
    BY <1>1, <1>3 DEF Anybody
  <2>1. CASE c.kind \in {"create", "join"}
    <3>1. PICK role \in TeamRoles : joined' = joined \cup {<<c.by, c.team, role>>}
      BY <1>3, <2>1 DEF ServeWrite, TeamRoles
    <3>2. Answer(c, c.team) /\ c.team \in CTFTeams
      BY <1>1, <1>3, <2>1 DEF ServeWrite, CallSound
    <3>3. <<c.by, c.team, role>> \in joined'
      BY <3>1
    <3>4. /\ joined' \subseteq CTFUsers \X CTFTeams \X TeamRoles /\ c.team \in TeamsOf(c.by)'
          /\ \A u : u # c.by => TeamsOf(u)' = TeamsOf(u)
      BY <1>1, <2>0, <3>1, <3>2, <3>3, RowOf
    <3>5. c.team # "refused"
      BY <3>2, CTFPagesAssumption
    <3> QED BY <1>1, <2>1, <3>2, <3>4, <3>5, AnswerKeeps DEF Writes
  <2>2. CASE c.kind = "leave"
    <3>1. PICK row \in joined : row[1] = c.by /\ joined' = joined \ {row}
      BY <1>3, <2>2 DEF ServeWrite
    <3>2. PICK t \in CTFTeams, role \in TeamRoles : row = <<c.by, t, role>>
      BY <1>1, <3>1
    <3>3. /\ joined' \subseteq CTFUsers \X CTFTeams \X TeamRoles
          /\ \A u : u # c.by => TeamsOf(u)' = TeamsOf(u)
      BY <1>1, <2>0, <3>1, <3>2, RowOf
    <3>4. Answer(c, NoTeam) /\ NoTeam # "refused"
      BY <1>3, <2>2, CTFPagesAssumption DEF ServeWrite
    <3> QED BY <1>1, <2>2, <3>3, <3>4, AnswerKeeps DEF Writes
  <2> QED BY <1>3, <2>1, <2>2 DEF ServeWrite
<1>4. CASE Refuse(c)
  <2>1. joined' = joined /\ \A u : TeamsOf(u)' = TeamsOf(u)
    BY <1>4 DEF Refuse, TeamsOf
  <2> QED BY <1>1, <1>4, <2>1, AnswerKeeps DEF Refuse
<1> QED BY <1>2, <1>3, <1>4 DEF Serve
(* An answer is taken or lost: the answers that still count are younger,   *)
(* and what excuses them is younger still.                                 *)
LEMMA GoneKeeps ==
    ASSUME CTFInv, NEW c \in asked, asked' = asked \ {c}, UNCHANGED <<who, joined, serial>>,
           taken' \in 0 .. serial, taken <= taken', c.at <= taken'
    PROVE  CallsSound'
<1>1. /\ serial \in Nat /\ taken \in 0 .. serial
      /\ \A e \in asked : CallSound(e) /\ e.at \in 0 .. serial
  BY DEF CTFInv, CTFTypeOK, CallsSound, CallSound
<1>2. SUFFICES ASSUME NEW e \in asked' PROVE CallSound(e)'
  BY DEF CallsSound
<1>3. ASSUME e.at > taken', e.got # "refused" PROVE e.got \in Excused(e.by, e.at)'
  <2>1. e.at > taken /\ e.at > c.at /\ e.got \in Excused(e.by, e.at)
    BY <1>1, <1>3 DEF CallSound
  <2>2. WritesAnswered(e.by, e.at) \subseteq WritesAnswered(e.by, e.at)'
    BY <1>1, <2>1 DEF WritesAnswered
  <2> QED BY <2>1, <2>2 DEF Excused, TeamsOf
<1> QED BY <1>1, <1>3 DEF CallSound

LEMMA FlagKeeps ==
    ASSUME CTFInv, NEW c, asked' = asked \ {c}, NEW ok \in BOOLEAN, ctfBusy' = BusyAfter(c, ok)
    PROVE  FlagHasCall' /\ ctfBusy' \in BOOLEAN
BY DEF CTFInv, CTFTypeOK, FlagHasCall, BusyAfter

LEMMA LaterBounds ==
    ASSUME CTFInv, NEW c \in asked
    PROVE  Later(c) \in 0 .. serial /\ taken <= Later(c) /\ c.at <= Later(c)
BY DEF CTFInv, CTFTypeOK, Later, InOrder

LEMMA TakeKeeps ==
    ASSUME CTFInv, NEW c, Take(c)
    PROVE  CTFInv'
<1>1. /\ c \in asked /\ c.at > 0 /\ c.got # "refused" /\ asked' = asked \ {c}
      /\ team' = c.got /\ taken' = Later(c) /\ roster' \in BOOLEAN
      /\ doubt' = IF InOrder(c) THEN doubt /\ c.kind # "team" ELSE TRUE
      /\ ctfBusy' = BusyAfter(c, TRUE)
      /\ UNCHANGED <<ctfPage, who, event, filled, timer, now, joined, lists, serial, clicks>>
  BY DEF Take, ShownAfter
<1>2. CallSound(c) /\ c.at \in Nat /\ taken \in Nat
  BY <1>1 DEF CTFInv, CTFTypeOK, CallsSound, CallSound
<1>3. CallsSound'
  BY <1>1, LaterBounds, GoneKeeps
<1>4. FlagHasCall' /\ ctfBusy' \in BOOLEAN
  BY <1>1, FlagKeeps
<1>5. TimerCurrent'
  BY <1>1 DEF CTFInv, TimerCurrent, TimerAt
<1>6. ShownExcused'
  <2>1. SUFFICES ASSUME InOrder(c) PROVE c.got \in Excused(who, 0)'
    BY <1>1 DEF ShownExcused
  <2>2. c.got \in Excused(c.by, c.at)
    BY <1>1, <1>2, <2>1 DEF CallSound, InOrder
  <2>3. c.by = who /\ who' = who /\ \A e \in asked : e.at \in Nat
    BY <1>1, <2>1 DEF InOrder, CTFInv, CallsSound, CallSound, CTFCalls
  <2>4. WritesAnswered(c.by, c.at) \subseteq WritesAnswered(who, 0)'
    BY <1>1, <1>2, <2>3 DEF WritesAnswered
  <2> QED BY <1>1, <2>2, <2>3, <2>4 DEF Excused, TeamsOf
<1>7. CTFTypeOK'
  <2>1. team' \in CTFTeams \cup {NoTeam}
    BY <1>1, <1>2 DEF CallSound
  <2>2. taken' \in 0 .. serial
    BY <1>1, LaterBounds
  <2>3. doubt' \in BOOLEAN
    BY <1>1 DEF CTFInv, CTFTypeOK
  <2> QED BY <1>1, <1>4, <2>1, <2>2, <2>3 DEF CTFInv, CTFTypeOK
<1> QED BY <1>3, <1>4, <1>5, <1>6, <1>7 DEF CTFInv

LEMMA MissKeeps ==
    ASSUME CTFInv, NEW c, Miss(c)
    PROVE  CTFInv'
<1>1. /\ c \in asked /\ asked' = asked \ {c} /\ ctfBusy' = BusyAfter(c, FALSE)
      /\ taken' = IF c.at > 0 THEN Later(c) ELSE taken
      /\ doubt' = (doubt \/ (c.kind \in Writes /\ c.at > 0 /\ c.got # "refused"))
      /\ UNCHANGED <<ctfPage, who, event, team, roster, filled, timer, now, joined, lists, serial, clicks>>
  BY DEF Miss
<1>2. taken' \in 0 .. serial /\ taken <= taken' /\ c.at <= taken' /\ c.at \in Nat
  <2>1. /\ c.at \in 0 .. serial /\ taken \in 0 .. serial /\ serial \in Nat
    BY <1>1 DEF CTFInv, CTFTypeOK
  <2> QED BY <1>1, <2>1, LaterBounds
<1>3. CallsSound'
  BY <1>1, <1>2, GoneKeeps
<1>4. FlagHasCall' /\ ctfBusy' \in BOOLEAN
  BY <1>1, FlagKeeps
<1>5. TimerCurrent'
  BY <1>1 DEF CTFInv, TimerCurrent, TimerAt
<1>6. ShownExcused'
  <2>1. SUFFICES ASSUME ~doubt, c \notin WritesAnswered(who, 0) PROVE team \in Excused(who, 0)'
    BY <1>1 DEF ShownExcused, WritesAnswered
  <2>2. WritesAnswered(who, 0) \subseteq WritesAnswered(who, 0)'
    BY <1>1, <2>1 DEF WritesAnswered
  <2> QED BY <1>1, <2>1, <2>2 DEF CTFInv, ShownExcused, Excused, TeamsOf
<1>7. CTFTypeOK'
  <2>1. doubt' \in BOOLEAN
    BY <1>1 DEF CTFInv, CTFTypeOK
  <2> QED BY <1>1, <1>2, <1>4, <2>1 DEF CTFInv, CTFTypeOK
<1> QED BY <1>3, <1>4, <1>5, <1>6, <1>7 DEF CTFInv

LEMMA TakeEventKeeps ==
    ASSUME CTFInv, NEW c, TakeEvent(c)
    PROVE  CTFInv'
<1>1. /\ c \in asked /\ c.kind = "event" /\ asked' = asked \ {c}
      /\ ctfBusy' = BusyAfter(c, TRUE)
      /\ event' \in CTFEvents \cup {NoEvent} /\ timer' = TimerAt(event', now)
      /\ UNCHANGED <<ctfPage, who, team, roster, filled, now, joined, lists, serial, taken, doubt, clicks>>
  BY DEF TakeEvent, Retimed
<1>2. c.at <= taken /\ taken \in 0 .. serial
  <2>1. CallSound(c) /\ c.at \in 0 .. serial /\ taken \in 0 .. serial /\ serial \in Nat
    BY <1>1 DEF CTFInv, CTFTypeOK, CallsSound, CallSound
  <2> QED BY <1>1, <2>1 DEF CallSound
<1>3. CallsSound'
  BY <1>1, <1>2, GoneKeeps
<1>4. FlagHasCall' /\ ctfBusy' \in BOOLEAN
  BY <1>1, FlagKeeps
<1>5. TimerCurrent'
  BY <1>1 DEF TimerCurrent, TimerAt
<1>6. ShownExcused'
  <2>1. WritesAnswered(who, 0) \subseteq WritesAnswered(who, 0)'
    BY <1>1 DEF WritesAnswered, Writes
  <2> QED BY <1>1, <2>1 DEF CTFInv, ShownExcused, Excused, TeamsOf
<1>7. CTFTypeOK'
  <2>1. timer' \in {"upcoming", "active", "ended"}
    BY <1>1 DEF TimerAt
  <2> QED BY <1>1, <1>4, <2>1 DEF CTFInv, CTFTypeOK
<1> QED BY <1>3, <1>4, <1>5, <1>6, <1>7 DEF CTFInv
LEMMA VisitKeeps ==
    ASSUME CTFInv, NEW p \in CTFRoutes \cup {"elsewhere"}, VisitCTF(p)
    PROVE  CTFInv'
<1>1. /\ asked' = asked \cup CTFEffect(p) /\ ctfPage' = p /\ clicks' = clicks + 1
      /\ clicks < MaxClicks /\ lists' = lists \cup ListEffect(p)
      /\ ctfBusy' = (ctfBusy \/ p = "ctf") /\ timer' = TimerAt(event, now)
      /\ UNCHANGED <<who, event, team, roster, filled, now, joined, serial, taken, doubt>>
  BY DEF VisitCTF, Clicked, Retimed
<1>2. clicks' \in 0 .. MaxClicks /\ clicks' \in Nat
  BY <1>1, CTFPagesAssumption DEF CTFInv, CTFTypeOK
<1>3. \A c \in CTFEffect(p) : c \in CTFCalls /\ c.at = 0 /\ c.kind \in {"event", "team"}
  BY <1>2 DEF CTFEffect, CTFCall, CTFCalls, CTFInv, CTFTypeOK
<1>4. CallsSound' /\ ShownExcused'
  BY <1>1, <1>3, AskingKeeps
<1>5. FlagHasCall'
  <2>1. CTFCall("event", NoTeam) \in CTFEffect("ctf") /\ CTFCall("event", NoTeam).kind = "event"
    BY DEF CTFEffect, CTFCall
  <2> QED BY <1>1, <2>1 DEF CTFInv, FlagHasCall
<1>6. TimerCurrent'
  BY <1>1 DEF TimerCurrent, TimerAt
<1>7. CTFTypeOK'
  <2>1. timer' \in {"upcoming", "active", "ended"} /\ lists' \subseteq Lists
    BY <1>1 DEF TimerAt, ListEffect, Lists, CTFInv, CTFTypeOK
  <2>2. \A c \in asked' : c.kind \in Writes \cup {"event", "team"} /\ c.at \in 0 .. serial'
    BY <1>4 DEF CallsSound, CallSound, CTFCalls
  <2>3. ctfBusy' \in BOOLEAN
    BY <1>1 DEF CTFInv, CTFTypeOK
  <2> QED BY <1>1, <1>2, <2>1, <2>2, <2>3 DEF CTFInv, CTFTypeOK
<1> QED BY <1>4, <1>5, <1>6, <1>7 DEF CTFInv

LEMMA WriteClicksKeep ==
    ASSUME CTFInv, NEW kind \in Writes, NEW t \in CTFTeams \cup {NoTeam},
           kind # "leave" => t \in CTFTeams, Clicked,
           asked' = asked \cup {CTFCall(kind, t)}, ctfBusy' = (ctfBusy \/ kind # "leave"),
           UNCHANGED <<ctfPage, who, event, team, roster, filled, timer, now, joined, lists,
                       serial, taken, doubt>>
    PROVE  CTFInv'
<1> DEFINE c == CTFCall(kind, t)
<1>1. clicks' \in 0 .. MaxClicks /\ clicks' \in Nat
  BY CTFPagesAssumption DEF Clicked, CTFInv, CTFTypeOK
<1>2. c \in CTFCalls /\ c.at = 0 /\ c.kind = kind /\ c.team = t
  BY <1>1 DEF CTFCall, CTFCalls, CTFInv, CTFTypeOK
<1>3. CallsSound' /\ ShownExcused'
  <2> DEFINE new == {c}
  <2>1. asked' = asked \cup new
    OBVIOUS
  <2>2. \A d \in new : /\ d \in CTFCalls /\ d.at = 0
                       /\ d.kind \in {"create", "join"} => d.team \in CTFTeams
    BY <1>2
  <2> HIDE DEF new
  <2> QED BY <2>1, <2>2, AskingKeeps
<1>4. FlagHasCall'
  BY <1>2 DEF CTFInv, FlagHasCall, Writes
<1>5. TimerCurrent'
  BY DEF CTFInv, TimerCurrent, TimerAt
<1>6. CTFTypeOK'
  <2>1. \A d \in asked' : d.kind \in Writes \cup {"event", "team"} /\ d.at \in 0 .. serial'
    BY <1>3 DEF CallsSound, CallSound, CTFCalls
  <2>2. ctfBusy' \in BOOLEAN
    BY DEF CTFInv, CTFTypeOK
  <2> QED BY <1>1, <2>1, <2>2 DEF CTFInv, CTFTypeOK
<1> QED BY <1>3, <1>4, <1>5, <1>6 DEF CTFInv

\* Steps of the lists and the clock touch no call.
LEMMA OtherStepsKeep ==
    ASSUME CTFInv,
           UNCHANGED <<ctfPage, who, event, team, roster, ctfBusy, joined, asked, lists, serial, taken,
                       doubt, clicks>>,
           filled' \subseteq Lists, now' \in 1 .. MaxNow, timer' \in {"upcoming", "active", "ended"},
           TimerCurrent'
    PROVE  CTFInv'
<1>1. CallsSound' /\ ShownExcused'
  BY DEF CTFInv, CallsSound, CallSound, ShownExcused, Excused, WritesAnswered, TeamsOf
<1>2. FlagHasCall' /\ CTFTypeOK'
  BY DEF CTFInv, FlagHasCall, CTFTypeOK
<1> QED BY <1>1, <1>2 DEF CTFInv

(* Another user: what was answered to each is sound as it was.             *)
LEMMA ChangeUserKeeps ==
    ASSUME CTFInv, NEW u \in Anybody, ChangeUser(u)
    PROVE  CTFInv'
<1>1. /\ clicks < MaxClicks /\ clicks' = clicks + 1 /\ who' = u /\ doubt' = TRUE
      /\ ctfPage' \in {ctfPage, "elsewhere"}
      /\ UNCHANGED <<event, team, roster, filled, ctfBusy, timer, now, joined, asked, lists,
                     serial, taken>>
  BY DEF ChangeUser, Clicked
<1>2. CallsSound'
  BY <1>1 DEF CTFInv, CallsSound, CallSound, Excused, WritesAnswered, TeamsOf
<1>3. ShownExcused' /\ FlagHasCall' /\ TimerCurrent'
  BY <1>1 DEF CTFInv, ShownExcused, FlagHasCall, TimerCurrent, TimerAt
<1>4. clicks' \in 0 .. MaxClicks
  BY <1>1, CTFPagesAssumption DEF CTFInv, CTFTypeOK
<1>5. CTFTypeOK'
  BY <1>1, <1>4 DEF CTFInv, CTFTypeOK
<1> QED BY <1>2, <1>3, <1>5 DEF CTFInv

LEMMA CTFNextInv == CTFInv /\ [CTFNext]_ctfVars => CTFInv'
<1> SUFFICES ASSUME CTFInv, [CTFNext]_ctfVars PROVE CTFInv'
  OBVIOUS
<1>1. ASSUME NEW kind \in {"create", "join"}, NEW t \in CTFTeams, Enrol(kind, t) PROVE CTFInv'
  BY <1>1, WriteClicksKeep DEF Enrol, Writes, CTFInv, CTFTypeOK
<1>2. CASE ClickLeave
  <2>1. ctfBusy' = (ctfBusy \/ "leave" # "leave")
    BY <1>2 DEF ClickLeave, CTFInv, CTFTypeOK
  <2> QED BY <1>2, <2>1, WriteClicksKeep DEF ClickLeave, Writes
<1>3. CASE TickTimer
  <2>1. now' \in 1 .. MaxNow
    BY <1>3, CTFPagesAssumption DEF TickTimer, CTFInv, CTFTypeOK
  <2>2. timer' \in {"upcoming", "active", "ended"} /\ filled' \subseteq Lists
    BY <1>3 DEF TickTimer, TimerAt, CTFInv, CTFTypeOK
  <2>3. TimerCurrent'
    BY <1>3 DEF TickTimer, TimerCurrent, TimerAt
  <2> QED BY <1>3, <2>1, <2>2, <2>3, OtherStepsKeep DEF TickTimer
<1>4. ASSUME NEW kind \in Lists, TakeList(kind) PROVE CTFInv'
  <2>1. filled' \subseteq Lists /\ now' \in 1 .. MaxNow /\ timer' \in {"upcoming", "active", "ended"}
    BY <1>4 DEF TakeList, CTFInv, CTFTypeOK
  <2>2. TimerCurrent'
    BY <1>4 DEF TakeList, TimerCurrent, TimerAt, CTFInv
  <2> QED BY <1>4, <2>1, <2>2, OtherStepsKeep DEF TakeList
<1>5. CASE UNCHANGED ctfVars
  <2>1. filled' \subseteq Lists /\ now' \in 1 .. MaxNow /\ timer' \in {"upcoming", "active", "ended"}
    BY <1>5 DEF ctfVars, CTFInv, CTFTypeOK
  <2>2. TimerCurrent'
    BY <1>5 DEF ctfVars, TimerCurrent, TimerAt, CTFInv
  <2> QED BY <1>5, <2>1, <2>2, OtherStepsKeep DEF ctfVars
<1> QED
  BY <1>1, <1>2, <1>3, <1>4, <1>5, VisitKeeps, ChangeUserKeeps, ServeKeeps, TakeKeeps, TakeEventKeeps,
     MissKeeps DEF CTFNext

LEMMA CTFInvImplies == CTFInv => CTFSound
<1> SUFFICES ASSUME CTFInv PROVE CTFSound
  OBVIOUS
<1>1. TeamShownIsOurs
  <2>1. SUFFICES ASSUME ~doubt, \A c \in asked : c.by = who /\ c.kind \in Writes => c.at = 0
                 PROVE  team \in TeamsOf(who) \cup {NoTeam}
    BY DEF TeamShownIsOurs
  <2>2. WritesAnswered(who, 0) = {}
    BY <2>1 DEF WritesAnswered
  <2> QED BY <2>1, <2>2 DEF CTFInv, ShownExcused, Excused
<1>2. SkeletonsEnd
  BY DEF CTFInv, FlagHasCall, SkeletonsEnd, CTFView, ChallengesView, ScoreboardView
<1>3. EndIsAnnounced
  <2>1. SUFFICES ASSUME ctfPage = "ctf", CTFView = "event"
                 PROVE  timer = "ended" <=> now >= StartOf[event] /\ now > EndOf[event]
    BY DEF EndIsAnnounced
  <2>2. timer = TimerAt(event, now) /\ event # NoEvent
    BY <2>1 DEF CTFInv, TimerCurrent, CTFView
  <2>3. now \in Int /\ StartOf[event] \in Int /\ EndOf[event] \in Int
    BY <2>2, CTFPagesAssumption DEF CTFInv, CTFTypeOK
  <2>4. CASE now < StartOf[event]
    BY <2>2, <2>3, <2>4 DEF TimerAt
  <2>5. CASE ~(now < StartOf[event])
    BY <2>2, <2>3, <2>5 DEF TimerAt
  <2> QED BY <2>4, <2>5
<1> QED BY <1>1, <1>2, <1>3 DEF CTFSound

(* The CTF pages show a team the user is in, but for an answer lost or     *)
(* overtaken or a change of user that no fetch followed, load only while   *)
(* an answer is awaited and announce the end of an event when it is over,  *)
(* for any users, teams, events, dates and number of clicks (store/ctf.ts, *)
(* app/ctf).                                                               *)
THEOREM CTFHolds == CTFSpec => []CTFSound
BY CTFInitInv, CTFNextInv, CTFInvImplies, PTL DEF CTFSpec
-----------------------------------------------------------------------------
(***************************************************************************)
(* The type invariants of the socket, the practice lab and the session.    *)
(***************************************************************************)
LEMMA SocketTypesNext == SocketTypeOK /\ [SocketNext]_socketVars => SocketTypeOK'
<1> SUFFICES ASSUME SocketTypeOK, [SocketNext]_socketVars PROVE SocketTypeOK'
  OBVIOUS
<1> USE SocketAssumption DEF SocketTypeOK, States
<1>1. ASSUME NEW tok \in Tokens \cup {NoToken}, ChangeToken(tok) PROVE SocketTypeOK'
  <2>1. changes' \in 0 .. MaxChanges
    BY <1>1 DEF ChangeToken
  <2> QED BY <1>1, <2>1 DEF ChangeToken
<1>2. ASSUME NEW k \in Sockets, RunEffect(k) PROVE SocketTypeOK'
  <2>1. Dropped(ready) \in [Sockets -> States]
    BY DEF Dropped
  <2>2. ready' \in [Sockets -> States] /\ ws' \in Sockets \cup {0} /\ pingTimer' \in Sockets \cup {0}
    BY <1>2, <2>1 DEF RunEffect
  <2> QED BY <1>2, <2>2 DEF RunEffect
<1>3. ASSUME NEW k \in Sockets, Opens(k) \/ Delivers(k) \/ Closes(k) PROVE SocketTypeOK'
  BY <1>3 DEF Opens, Delivers, Closes
<1>4. CASE UNCHANGED socketVars
  BY <1>4 DEF socketVars
<1> QED BY <1>1, <1>2, <1>3, <1>4 DEF SocketNext

LEMMA SocketTypesInit == SocketInit => SocketTypeOK
  BY SocketAssumption DEF SocketInit, SocketTypeOK, States

LEMMA AskLabTyped ==
    ASSUME PracticeTypeOK, LabCounted, NEW kind \in {"list", "detail", "flag"}, NEW m \in 0 .. MaxLab
    PROVE  AskLab(kind, m) \in LabCall /\ labCount' \in 0 .. MaxLab
<1>1. labCount' \in 1 .. MaxLab /\ labCount' \in 0 .. MaxLab
  BY PracticeAssumption DEF PracticeTypeOK, LabCounted
<1> QED BY <1>1 DEF AskLab, LabCall

LEMMA LabTypesNext == PracticeTypeOK /\ [PracticeNext]_labVars => PracticeTypeOK'
<1> SUFFICES ASSUME PracticeTypeOK, [PracticeNext]_labVars PROVE PracticeTypeOK'
  OBVIOUS
<1>0. /\ labBusy \in BOOLEAN /\ typed \in BOOLEAN /\ submitting \in BOOLEAN
      /\ 0 \in 0 .. MaxLab /\ mount \in 0 .. MaxLab
  BY PracticeAssumption DEF PracticeTypeOK
<1>1. ASSUME NEW p \in {"list", "player"}, LoadLab(p) PROVE PracticeTypeOK'
  <2>1. LabCounted /\ labCount' \in 0 .. MaxLab /\ labBusy' \in BOOLEAN
    BY <1>0, <1>1, AskLabTyped DEF LoadLab
  <2>2. labCalls' \subseteq LabCall
    BY <1>0, <1>1, <2>1, AskLabTyped DEF LoadLab, MountPlayer
  <2>3. /\ labPage' \in {"list", "player"} /\ mount' \in 0 .. MaxLab
        /\ detail' \in {"loading", "shown", "error"} /\ typed' \in BOOLEAN /\ submitting' \in BOOLEAN
    BY <1>0, <1>1, <2>1 DEF LoadLab, MountPlayer, PracticeTypeOK
  <2> QED BY <1>1, <2>1, <2>2, <2>3 DEF LoadLab, PracticeTypeOK
<1>2. CASE EnterList
  <2>1. LabCounted /\ labCount' \in 0 .. MaxLab /\ AskLab("list", 0) \in LabCall
    BY <1>0, <1>2, AskLabTyped DEF EnterList
  <2>2. crashedOn' \in {crashedOn, "list"} /\ labBusy' \in BOOLEAN /\ labCalls' \subseteq labCalls \cup {AskLab("list", 0)}
    BY <1>0, <1>2 DEF EnterList
  <2> QED BY <1>2, <2>1, <2>2 DEF EnterList, PracticeTypeOK
<1>3. CASE LeaveLab \/ OpenHints \/ TypeFlag
  BY <1>3 DEF LeaveLab, OpenHints, TypeFlag, PracticeTypeOK
<1>8. CASE EnterPlayer
  <2>1. LabCounted /\ labCount' \in 0 .. MaxLab /\ mount' = labCount'
    BY <1>0, <1>8, AskLabTyped DEF EnterPlayer, MountPlayer
  <2>2. AskLab("detail", mount') \in LabCall
    BY <2>1, AskLabTyped
  <2> QED BY <1>8, <2>1, <2>2 DEF EnterPlayer, MountPlayer, PracticeTypeOK
<1>4. CASE Refilter
  <2>1. LabCounted /\ labCount' \in 0 .. MaxLab /\ AskLab("list", 0) \in LabCall
    BY <1>0, <1>4, AskLabTyped DEF Refilter
  <2> QED BY <1>4, <2>1 DEF Refilter, PracticeTypeOK
<1>5. CASE SendFlag
  <2>1. LabCounted /\ labCount' \in 0 .. MaxLab /\ AskLab("flag", mount) \in LabCall
    BY <1>0, <1>5, AskLabTyped DEF SendFlag
  <2> QED BY <1>5, <2>1 DEF SendFlag, PracticeTypeOK
<1>6. ASSUME NEW c \in labCalls, NEW ok \in BOOLEAN,
             ListAnswered(c, ok) \/ DetailAnswered(c, ok) \/ FlagAnswered(c, ok)
      PROVE  PracticeTypeOK'
  <2>1. CASE ListAnswered(c, ok)
    BY <2>1 DEF ListAnswered, Lowered, PracticeTypeOK
  <2>2. CASE DetailAnswered(c, ok)
    BY <2>2 DEF DetailAnswered, PracticeTypeOK
  <2>3. CASE FlagAnswered(c, ok)
    <3>1. typed' \in BOOLEAN /\ submitting' \in BOOLEAN
      BY <1>0, <2>3 DEF FlagAnswered
    <3> QED BY <2>3, <3>1 DEF FlagAnswered, PracticeTypeOK
  <2> QED BY <1>6, <2>1, <2>2, <2>3
<1>7. CASE UNCHANGED labVars
  BY <1>7 DEF labVars, PracticeTypeOK
<1> QED BY <1>1, <1>2, <1>3, <1>4, <1>5, <1>6, <1>7, <1>8 DEF PracticeNext

LEMMA LabTypesInit == PracticeInit => PracticeTypeOK
<1> SUFFICES ASSUME PracticeInit PROVE PracticeTypeOK
  OBVIOUS
<1>1. labBusy \in BOOLEAN /\ typed \in BOOLEAN /\ submitting \in BOOLEAN
  BY DEF PracticeInit
<1>2. mount \in 0 .. MaxLab /\ labCount \in 0 .. MaxLab
  BY PracticeAssumption DEF PracticeInit
<1> QED BY <1>1, <1>2 DEF PracticeInit, PracticeTypeOK

SessionTypes == SessionTypeOK /\ guarded \in [Tabs -> {NotRun} \cup (Anyone \X Anyone)]

LEMMA SessionTypesInit == SessionInit => SessionTypes
<1> SUFFICES ASSUME SessionInit PROVE SessionTypes
  OBVIOUS
<1>1. /\ at \in [Tabs -> Pages \cup {"closed"}] /\ shownUser \in [Tabs -> Anyone]
      /\ token \in [Tabs -> Anyone] /\ guarded \in [Tabs -> {NotRun} \cup (Anyone \X Anyone)]
  BY DEF SessionInit, Anyone
<1>2. busy \in [Tabs -> BOOLEAN] /\ failed \in [Tabs -> BOOLEAN] /\ invalid \in [Tabs -> BOOLEAN]
  BY DEF SessionInit
<1>3. sessionCount \in 0 .. MaxSession
  BY SessionAssumption DEF SessionInit
<1> QED BY <1>1, <1>2, <1>3 DEF SessionInit, SessionTypes, SessionTypeOK

\* Going to a page forgets what the layout's effect last ran on.
LEMMA GoToPageTyped ==
    ASSUME SessionTypes, NEW t \in Tabs, NEW p \in Pages, GoToPage(t, p)
    PROVE  /\ at' \in [Tabs -> Pages \cup {"closed"}] /\ invalid' \in [Tabs -> BOOLEAN]
           /\ guarded' \in [Tabs -> {NotRun} \cup (Anyone \X Anyone)]
           /\ \A u \in Tabs : guarded'[u] # NotRun => at'[u] = "admin"
<1>1. /\ at' = [at EXCEPT ![t] = p] /\ guarded' = [guarded EXCEPT ![t] = NotRun]
      /\ invalid' = [invalid EXCEPT ![t] = FALSE]
  BY DEF GoToPage
<1>2. invalid' \in [Tabs -> BOOLEAN]
  BY <1>1 DEF SessionTypes, SessionTypeOK
<1> QED BY <1>1, <1>2 DEF SessionTypes, SessionTypeOK

LEMMA KeepTyped ==
    ASSUME SessionTypes, NEW t \in Tabs, NEW user \in Anyone, NEW tok \in Anyone,
           NEW isBusy \in BOOLEAN, NEW hasFailed \in BOOLEAN, Keep(t, user, tok, isBusy, hasFailed)
    PROVE  /\ shownUser' \in [Tabs -> Anyone] /\ token' \in [Tabs -> Anyone] /\ stored' \in Anyone
           /\ busy' \in [Tabs -> BOOLEAN] /\ failed' \in [Tabs -> BOOLEAN]
<1>1. shownUser' \in [Tabs -> Anyone] /\ token' \in [Tabs -> Anyone] /\ stored' \in Anyone
  BY DEF Keep, SessionTypes, SessionTypeOK
<1>2. busy' \in [Tabs -> BOOLEAN] /\ failed' \in [Tabs -> BOOLEAN]
  BY DEF Keep, SessionTypes, SessionTypeOK
<1> QED BY <1>1, <1>2

LEMMA CheckCallTyped ==
    ASSUME SessionTypes, Counted, NEW t \in Tabs, NEW tok \in Anyone
    PROVE  CheckCall(t, tok) \subseteq Call /\ sessionCount' \in 0 .. MaxSession
<1>1. sessionCount' \in 1 .. MaxSession /\ sessionCount' \in 0 .. MaxSession
  BY SessionAssumption DEF SessionTypes, SessionTypeOK, Counted
<1>2. tok # Nobody => [tab |-> t, kind |-> "me", who |-> tok, n |-> sessionCount'] \in Call
  BY <1>1 DEF Call, Anyone
<1> QED BY <1>1, <1>2 DEF CheckCall

LEMMA SessionTypesNext == SessionTypes /\ [SessionNext]_sessionVars => SessionTypes'
<1> SUFFICES ASSUME SessionTypes, [SessionNext]_sessionVars PROVE SessionTypes'
  OBVIOUS
<1>0. /\ \A t \in Tabs : shownUser[t] \in Anyone /\ token[t] \in Anyone
      /\ \A t \in Tabs : busy[t] \in BOOLEAN /\ failed[t] \in BOOLEAN
      /\ Nobody \in Anyone
      /\ \A c \in flight : c \in Call /\ c.tab \in Tabs /\ c.who \in Anyone
      /\ \A tok \in Anyone : MustCheck(tok) \in BOOLEAN
  <2>1. \A t \in Tabs : busy[t] \in BOOLEAN /\ failed[t] \in BOOLEAN
    BY DEF SessionTypes, SessionTypeOK
  <2>2. \A c \in flight : c \in Call /\ c.tab \in Tabs /\ c.who \in Anyone
    BY DEF SessionTypes, SessionTypeOK, Call, Anyone
  <2> QED BY <2>1, <2>2 DEF SessionTypes, SessionTypeOK, Anyone, MustCheck
<1>1. ASSUME NEW t \in Tabs, NEW p \in Pages, OpenPage(t, p) PROVE SessionTypes'
  <2>1. /\ shownUser' \in [Tabs -> Anyone] /\ token' \in [Tabs -> Anyone] /\ stored' \in Anyone
    BY <1>0, <1>1 DEF OpenPage, SessionTypes, SessionTypeOK
  <2>2. busy' \in [Tabs -> BOOLEAN] /\ failed' \in [Tabs -> BOOLEAN]
    BY <1>0, <1>1 DEF OpenPage, SessionTypes, SessionTypeOK
  <2>3. flight' \subseteq Call /\ sessionCount' \in 0 .. MaxSession
    BY <1>1, CheckCallTyped DEF OpenPage, SessionTypes, SessionTypeOK
  <2>4. crossed' \subseteq Tabs
    BY <1>1 DEF OpenPage, SessionTypes, SessionTypeOK
  <2> QED BY <1>1, <2>1, <2>2, <2>3, <2>4, GoToPageTyped DEF OpenPage, SessionTypes, SessionTypeOK
<1>2. ASSUME NEW t \in Tabs, NEW p \in Pages, FollowLink(t, p) PROVE SessionTypes'
  BY <1>2, GoToPageTyped DEF FollowLink, SessionTypes, SessionTypeOK
<1>3. ASSUME NEW t \in Tabs, NEW u \in Accounts, SignIn(t, u) PROVE SessionTypes'
  <2>1. sessionCount' \in 1 .. MaxSession /\ sessionCount' \in 0 .. MaxSession
    BY <1>3, SessionAssumption DEF SessionTypes, SessionTypeOK, SignIn, Counted
  <2>2. flight' \subseteq Call
    BY <1>3, <2>1 DEF SessionTypes, SessionTypeOK, SignIn, Call
  <2>3. invalid' \in [Tabs -> BOOLEAN] /\ TRUE \in BOOLEAN /\ FALSE \in BOOLEAN
    BY <1>3 DEF SessionTypes, SessionTypeOK, SignIn
  <2>4. /\ shownUser' \in [Tabs -> Anyone] /\ token' \in [Tabs -> Anyone] /\ stored' \in Anyone
        /\ busy' \in [Tabs -> BOOLEAN] /\ failed' \in [Tabs -> BOOLEAN]
    BY <1>0, <1>3, <2>3, KeepTyped DEF SignIn
  <2> QED BY <1>3, <2>1, <2>2, <2>3, <2>4 DEF SignIn, SessionTypes, SessionTypeOK
<1>4. ASSUME NEW t \in Tabs, RefuseForm(t) PROVE SessionTypes'
  <2>1. invalid' \in [Tabs -> BOOLEAN] /\ FALSE \in BOOLEAN
    BY <1>4 DEF SessionTypes, SessionTypeOK, RefuseForm
  <2>2. /\ shownUser' \in [Tabs -> Anyone] /\ token' \in [Tabs -> Anyone] /\ stored' \in Anyone
        /\ busy' \in [Tabs -> BOOLEAN] /\ failed' \in [Tabs -> BOOLEAN]
    BY <1>0, <1>4, <2>1, KeepTyped DEF RefuseForm
  <2> QED BY <1>4, <2>1, <2>2 DEF RefuseForm, SessionTypes, SessionTypeOK
<1>5. ASSUME NEW t \in Tabs, Logout(t) PROVE SessionTypes'
  <2>1. sessionCount' \in 0 .. MaxSession /\ crossed' \subseteq Tabs
    BY <1>5, SessionAssumption DEF SessionTypes, SessionTypeOK, Logout, Counted
  <2>2. /\ shownUser' \in [Tabs -> Anyone] /\ token' \in [Tabs -> Anyone] /\ stored' \in Anyone
        /\ busy' \in [Tabs -> BOOLEAN] /\ failed' \in [Tabs -> BOOLEAN]
    BY <1>0, <1>5, KeepTyped DEF Logout
  <2> QED BY <1>5, <2>1, <2>2 DEF Logout, SessionTypes, SessionTypeOK
<1>6. ASSUME NEW t \in Tabs, GuardBounces(t) PROVE SessionTypes'
  <2>1. PICK p \in Pages : GoToPage(t, p)
    BY <1>6 DEF GuardBounces, Pages, AuthPages
  <2> QED BY <1>6, <2>1, GoToPageTyped DEF GuardBounces, SessionTypes, SessionTypeOK
<1>7. ASSUME NEW t \in Tabs, GuardAsks(t) PROVE SessionTypes'
  <2>1. flight' \subseteq Call /\ sessionCount' \in 0 .. MaxSession
    BY <1>0, <1>7, CheckCallTyped DEF GuardAsks, StartCheck, SessionTypes, SessionTypeOK
  <2>2. /\ shownUser' \in [Tabs -> Anyone] /\ token' \in [Tabs -> Anyone] /\ stored' \in Anyone
        /\ busy' \in [Tabs -> BOOLEAN] /\ failed' \in [Tabs -> BOOLEAN]
    BY <1>0, <1>7, KeepTyped DEF GuardAsks, StartCheck
  <2>3. /\ guarded' \in [Tabs -> {NotRun} \cup (Anyone \X Anyone)]
        /\ \A u \in Tabs : guarded'[u] # NotRun => at[u] = "admin"
    BY <1>0, <1>7 DEF GuardAsks, Due, Seen, SessionTypes, SessionTypeOK
  <2> QED BY <1>7, <2>1, <2>2, <2>3 DEF GuardAsks, SessionTypes, SessionTypeOK
<1>8. ASSUME NEW t \in Tabs, GuardAdmits(t) PROVE SessionTypes'
  <2>1. /\ guarded' \in [Tabs -> {NotRun} \cup (Anyone \X Anyone)]
        /\ \A u \in Tabs : guarded'[u] # NotRun => at[u] = "admin"
    BY <1>0, <1>8 DEF GuardAdmits, Due, Seen, SessionTypes, SessionTypeOK
  <2> QED BY <1>8, <2>1 DEF GuardAdmits, SessionTypes, SessionTypeOK
<1>9. ASSUME NEW c \in flight, SignedIn(c) PROVE SessionTypes'
  <2>1. Granted(c) \in Anyone /\ c.tab \in Tabs /\ "practice" \in Pages
    BY <1>0 DEF Granted, Pages
  <2>2. /\ shownUser' \in [Tabs -> Anyone] /\ token' \in [Tabs -> Anyone] /\ stored' \in Anyone
        /\ busy' \in [Tabs -> BOOLEAN] /\ failed' \in [Tabs -> BOOLEAN]
    <3>1. Keep(c.tab, Granted(c), Granted(c), FALSE, failed[c.tab])
      BY <1>9 DEF SignedIn
    <3>2. failed[c.tab] \in BOOLEAN /\ FALSE \in BOOLEAN
      BY <1>0, <2>1
    <3> QED BY <2>1, <3>1, <3>2, KeepTyped
  <2> QED BY <1>9, <2>1, <2>2, GoToPageTyped DEF SignedIn, SessionTypes, SessionTypeOK
<1>10. ASSUME NEW c \in flight, SignInFails(c) \/ Recognised(c) \/ NotRecognised(c) PROVE SessionTypes'
  <2>1. c.tab \in Tabs
    BY <1>0
  <2>2. /\ shownUser' \in [Tabs -> Anyone] /\ token' \in [Tabs -> Anyone] /\ stored' \in Anyone
        /\ busy' \in [Tabs -> BOOLEAN] /\ failed' \in [Tabs -> BOOLEAN]
    <3>1. PICK user \in Anyone, tok \in Anyone, hasFailed \in BOOLEAN : Keep(c.tab, user, tok, FALSE, hasFailed)
      <4>1. /\ shownUser[c.tab] \in Anyone /\ token[c.tab] \in Anyone /\ c.who \in Anyone
            /\ Nobody \in Anyone /\ TRUE \in BOOLEAN /\ failed[c.tab] \in BOOLEAN
        BY <1>0, <2>1
      <4>2. \/ Keep(c.tab, shownUser[c.tab], token[c.tab], FALSE, TRUE)
            \/ Keep(c.tab, c.who, token[c.tab], FALSE, failed[c.tab])
            \/ Keep(c.tab, Nobody, Nobody, FALSE, failed[c.tab])
        BY <1>10 DEF SignInFails, Recognised, NotRecognised
      <4> QED BY <4>1, <4>2
    <3>2. FALSE \in BOOLEAN
      OBVIOUS
    <3> QED BY <2>1, <3>1, <3>2, KeepTyped
  <2>3. crossed' \subseteq Tabs /\ flight' \subseteq flight /\ UNCHANGED <<at, guarded, invalid, sessionCount>>
    BY <1>10, <2>1 DEF SignInFails, Recognised, NotRecognised, SessionTypes, SessionTypeOK
  <2> QED BY <2>2, <2>3 DEF SessionTypes, SessionTypeOK
<1>11. CASE UNCHANGED sessionVars
  BY <1>11 DEF sessionVars, SessionTypes, SessionTypeOK
<1> QED
  BY <1>1, <1>2, <1>3, <1>4, <1>5, <1>6, <1>7, <1>8, <1>9, <1>10, <1>11
  DEF SessionNext, GuardRuns, Answered
=============================================================================
