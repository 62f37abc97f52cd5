----------------------------- MODULE TrailProofs -----------------------------
(***************************************************************************)
(* Proofs about the session of the wrapper of a remote server: what its    *)
(* lines say of its end, of the answers and of the login, for any messages *)
(* and any order of the callbacks.                                         *)
(***************************************************************************)
EXTENDS MCTrail, SequenceTheorems, FiniteSetTheorems, TLAPS

-----------------------------------------------------------------------------
(* Sequences that grow.                                                    *)

\* Where a sequence has an element of L.
With(s, L) == {i \in DOMAIN s : s[i] \in L}

LEMMA WithGrown ==
    ASSUME NEW S, NEW s \in Seq(S), NEW n \in Seq(S), NEW L
    PROVE  /\ s \o n \in Seq(S)
           /\ With(s \o n, L) = With(s, L) \cup {Len(s) + j : j \in With(n, L)}
<1>1. /\ s \o n \in Seq(S) /\ Len(s \o n) = Len(s) + Len(n)
      /\ \A i \in 1 .. Len(s) + Len(n) : (s \o n)[i] = IF i <= Len(s) THEN s[i] ELSE n[i - Len(s)]
  BY ConcatProperties
<1>2. DOMAIN s = 1 .. Len(s) /\ DOMAIN n = 1 .. Len(n) /\ DOMAIN (s \o n) = 1 .. Len(s) + Len(n)
  BY <1>1, LenProperties
<1>3. Len(s) \in Nat /\ Len(n) \in Nat
  BY LenProperties
<1>4. ASSUME NEW i \in With(s \o n, L) PROVE i \in With(s, L) \cup {Len(s) + j : j \in With(n, L)}
  <2>1. i \in 1 .. Len(s) + Len(n) /\ (s \o n)[i] \in L
    BY <1>2, <1>4 DEF With
  <2>2. CASE i <= Len(s)
    BY <2>1, <2>2, <1>1, <1>2, <1>3 DEF With
  <2>3. CASE ~ i <= Len(s)
    <3>1. i - Len(s) \in 1 .. Len(n) /\ n[i - Len(s)] \in L /\ i = Len(s) + (i - Len(s))
      BY <2>1, <2>3, <1>1, <1>3
    <3> QED  BY <3>1, <1>2 DEF With
  <2> QED  BY <2>2, <2>3
<1>5. ASSUME NEW i \in With(s, L) PROVE i \in With(s \o n, L)
  BY <1>1, <1>2, <1>3, <1>5 DEF With
<1>6. ASSUME NEW j \in With(n, L) PROVE Len(s) + j \in With(s \o n, L)
  <2>1. j \in 1 .. Len(n) /\ n[j] \in L
    BY <1>2, <1>6 DEF With
  <2>2. Len(s) + j \in 1 .. Len(s) + Len(n) /\ ~ Len(s) + j <= Len(s) /\ (Len(s) + j) - Len(s) = j
    BY <2>1, <1>3
  <2> QED  BY <2>1, <2>2, <1>1, <1>2 DEF With
<1> QED  BY <1>1, <1>4, <1>5, <1>6

\* The positions come in order: the old ones before the new ones.
LEMMA WithBounds ==
    ASSUME NEW S, NEW s \in Seq(S), NEW L
    PROVE  With(s, L) \subseteq 1 .. Len(s) /\ Len(s) \in Nat
BY LenProperties DEF With

-----------------------------------------------------------------------------
(* The inductive invariant.                                                *)

Reasons == {"parent_closed_stdin", "remote_closed", "signal_received", "auth_failed"}

Abouts == {"none", "client", "remote", "oauth_failed", "http_connect_failed", "http_status_error", "unexpected"}
          \cup Reasons \cup Http!Message

Types == {"proxy.http_started", "proxy.http_closed", "proxy.shutdown", "proxy.error", "mcp.request",
          "mcp.notification", "mcp.response", "mcp.response error"}

SessionLine == [type : Types, about : Abouts]

TypeInv ==
    /\ phase \in {"starting", "open", "closing", "exited", "killed"}
    /\ sent \in [Http!Message -> {"unasked", "unsent", "sending", "accepted", "answered", "refused"}]
    /\ told \in Seq(Request)
    /\ session \in Seq(SessionLine)
    /\ first \in {"none", "start"} \cup Reasons
    /\ signIn \in {"fine", "refused", "alive", "covered"}
    /\ phase \in {"starting", "open"} => first = "none"

Ends == [type : {"proxy.shutdown"}, about : Abouts]

Closes == [type : {"proxy.http_closed"}, about : Abouts]

Successes == [type : {"mcp.response"}, about : Abouts]

AnswersTo(r) == [type : {"mcp.response", "mcp.response error"}, about : {r}]

Wants == {Http!Line("proxy.error", "oauth_failed")}

PeerOf(reason) == IF reason = "parent_closed_stdin" THEN "client" ELSE "remote"

\* One line of the end, true, after that of the peer that left.
EndInv ==
    IF first \in {"none", "start"}
    THEN With(session, Ends) = {} /\ With(session, Closes) = {}
    ELSE \E i \in DOMAIN session :
            /\ With(session, Ends) = {i} /\ session[i].about = first
            /\ IF first \in {"parent_closed_stdin", "remote_closed"}
               THEN \E c \in DOMAIN session :
                       With(session, Closes) = {c} /\ session[c].about = PeerOf(first) /\ c < i
               ELSE With(session, Closes) = {}

Final(state) == state \in {"answered", "refused"}

\* A set that has one element, or none.
OneIf(holds, set) == IF holds THEN \E i : set = {i} ELSE set = {}

\* Told and recorded go together.
AnswerInv ==
    \A r \in Request :
        OneIf(Final(sent[r]), With(told, {r})) /\ OneIf(Final(sent[r]), With(session, AnswersTo(r)))

\* The request whose refusal began the end was answered before it.
CauseInv ==
    first = "auth_failed" =>
        \E m \in Http!Message :
            /\ sent[m] = "refused"
            /\ m \in Request => \A i \in With(session, AnswersTo(m)), j \in With(session, Ends) : i < j

\* The want of a login stands exactly until a successful response follows it,
\* of the server or of the client.
AlertInv ==
    signIn = "refused" <=>
        \E i \in With(session, Wants) : \A j \in With(session, Successes) : j < i

IInv == TypeInv /\ EndInv /\ AnswerInv /\ CauseInv /\ AlertInv

-----------------------------------------------------------------------------
(* What each part asks of the lines a step adds.                           *)

\* The lines of a kind are those there were and those the step adds.
LEMMA Added ==
    ASSUME TypeInv, NEW n \in Seq(SessionLine), session' = session \o n, NEW L
    PROVE  With(session', L) = With(session, L) \cup {Len(session) + k : k \in With(n, L)}
BY WithGrown DEF TypeInv

\* Lines of other kinds: what stands, stands.
LEMMA Unmoved ==
    ASSUME TypeInv, NEW n \in Seq(SessionLine), session' = session \o n, NEW L, With(n, L) = {}
    PROVE  With(session', L) = With(session, L)
<1>1. With(session', L) = With(session, L) \cup {Len(session) + k : k \in With(n, L)}
  BY Added
<1>2. {Len(session) + k : k \in {}} = {}
  OBVIOUS
<1> QED  BY <1>1, <1>2

\* A line, once there, stays as it is.
LEMMA OldLines ==
    ASSUME TypeInv, NEW n \in Seq(SessionLine), session' = session \o n
    PROVE  /\ session' \in Seq(SessionLine)
           /\ \A i \in DOMAIN session : i \in DOMAIN session' /\ session'[i] = session[i]
           /\ \A j \in DOMAIN n : Len(session) + j \in DOMAIN session' /\ session'[Len(session) + j] = n[j]
           /\ DOMAIN session = 1 .. Len(session) /\ Len(session) \in Nat
<1>1. /\ session' \in Seq(SessionLine) /\ Len(session') = Len(session) + Len(n)
      /\ \A i \in 1 .. Len(session) + Len(n) :
            session'[i] = IF i <= Len(session) THEN session[i] ELSE n[i - Len(session)]
  BY ConcatProperties DEF TypeInv
<1>2. /\ DOMAIN session = 1 .. Len(session) /\ DOMAIN n = 1 .. Len(n)
      /\ DOMAIN session' = 1 .. Len(session) + Len(n) /\ Len(session) \in Nat /\ Len(n) \in Nat
  BY <1>1, LenProperties DEF TypeInv
<1>3. \A i \in 1 .. Len(session) : i \in 1 .. Len(session) + Len(n) /\ session'[i] = session[i]
  BY <1>1, <1>2
<1>4. ASSUME NEW j \in 1 .. Len(n)
      PROVE  Len(session) + j \in 1 .. Len(session) + Len(n) /\ session'[Len(session) + j] = n[j]
  <2>1. /\ Len(session) + j \in 1 .. Len(session) + Len(n)
        /\ ~ Len(session) + j <= Len(session) /\ (Len(session) + j) - Len(session) = j
    BY <1>2
  <2> QED  BY <1>1, <2>1
<1> QED  BY <1>1, <1>2, <1>3, <1>4

\* The end stays as it was told, or there was none and the session failed to open.
LEMMA EndKept ==
    ASSUME TypeInv, EndInv, NEW n \in Seq(SessionLine), session' = session \o n,
           With(n, Ends) = {}, With(n, Closes) = {},
           first' = first \/ (first = "none" /\ first' = "start")
    PROVE  EndInv'
<1>1. With(session', Ends) = With(session, Ends) /\ With(session', Closes) = With(session, Closes)
  BY Unmoved
<1>2. \A i \in DOMAIN session : i \in DOMAIN session' /\ session'[i] = session[i]
  BY OldLines
<1>3. CASE first \in {"none", "start"}
  BY <1>1, <1>3 DEF EndInv, Ends, Closes, Abouts, Reasons
<1>4. CASE first \notin {"none", "start"}
  <2>1. first' = first
    BY <1>4
  <2>2. PICK i \in DOMAIN session :
           /\ With(session, Ends) = {i} /\ session[i].about = first
           /\ IF first \in {"parent_closed_stdin", "remote_closed"}
              THEN \E c \in DOMAIN session :
                      With(session, Closes) = {c} /\ session[c].about = PeerOf(first) /\ c < i
              ELSE With(session, Closes) = {}
    BY <1>4 DEF EndInv
  <2>3. i \in DOMAIN session' /\ With(session', Ends) = {i} /\ session'[i].about = first'
    BY <1>1, <1>2, <2>1, <2>2
  <2>4. IF first' \in {"parent_closed_stdin", "remote_closed"}
        THEN \E c \in DOMAIN session' :
                With(session', Closes) = {c} /\ session'[c].about = PeerOf(first') /\ c < i
        ELSE With(session', Closes) = {}
    BY <1>1, <1>2, <2>1, <2>2
  <2> QED  BY <1>4, <2>1, <2>3, <2>4 DEF EndInv, Ends, Closes
<1> QED  BY <1>3, <1>4

\* An end that no peer began.
LEMMA EndAlone ==
    ASSUME TypeInv, EndInv, first = "none", NEW n \in Seq(SessionLine), session' = session \o n,
           NEW j \in DOMAIN n, With(n, Ends) = {j}, n[j].about = first', With(n, Closes) = {},
           first' \in {"signal_received", "auth_failed"}
    PROVE  EndInv'
<1>1. With(session, Ends) = {} /\ With(session, Closes) = {}
  BY DEF EndInv
<1>2. With(session', Ends) = {Len(session) + j} /\ With(session', Closes) = {}
  <2>1. With(session', Ends) = With(session, Ends) \cup {Len(session) + k : k \in With(n, Ends)}
    BY Added
  <2>2. With(session', Closes) = With(session, Closes)
    BY Unmoved
  <2> QED  BY <1>1, <2>1, <2>2
<1>3. Len(session) + j \in DOMAIN session' /\ session'[Len(session) + j].about = first'
  BY OldLines
<1> QED  BY <1>2, <1>3 DEF EndInv, Ends, Closes

\* An end that a peer began by leaving.
LEMMA EndByPeer ==
    ASSUME TypeInv, EndInv, first = "none", NEW n \in Seq(SessionLine), session' = session \o n,
           DOMAIN n = 1 .. 2, With(n, Closes) = {1}, With(n, Ends) = {2},
           n[1].about = PeerOf(first'), n[2].about = first',
           first' \in {"parent_closed_stdin", "remote_closed"}
    PROVE  EndInv'
<1>1. With(session, Ends) = {} /\ With(session, Closes) = {}
  BY DEF EndInv
<1>2. With(session', Ends) = {Len(session) + 2} /\ With(session', Closes) = {Len(session) + 1}
  <2>1. With(session', Ends) = With(session, Ends) \cup {Len(session) + k : k \in With(n, Ends)}
    BY Added
  <2>2. With(session', Closes) = With(session, Closes) \cup {Len(session) + k : k \in With(n, Closes)}
    BY Added
  <2> QED  BY <1>1, <2>1, <2>2
<1>3. /\ Len(session) + 1 \in DOMAIN session' /\ session'[Len(session) + 1].about = PeerOf(first')
      /\ Len(session) + 2 \in DOMAIN session' /\ session'[Len(session) + 2].about = first'
      /\ Len(session) + 1 < Len(session) + 2
  <2>1. 1 \in DOMAIN n /\ 2 \in DOMAIN n /\ Len(session) \in Nat
    BY OldLines
  <2>2. Len(session) + 1 \in DOMAIN session' /\ session'[Len(session) + 1] = n[1]
    BY <2>1, OldLines
  <2>3. Len(session) + 2 \in DOMAIN session' /\ session'[Len(session) + 2] = n[2]
    BY <2>1, OldLines
  <2>4. Len(session) + 1 < Len(session) + 2
    BY <2>1
  <2> QED  BY <2>2, <2>3, <2>4
<1> QED  BY <1>2, <1>3 DEF EndInv, Ends, Closes

-----------------------------------------------------------------------------
(* Answers.                                                                *)

\* Nobody was answered.
LEMMA AnswerKept ==
    ASSUME TypeInv, AnswerInv, NEW n \in Seq(SessionLine), session' = session \o n, told' = told,
           \A r \in Request : With(n, AnswersTo(r)) = {},
           \A r \in Request : Final(sent'[r]) <=> Final(sent[r])
    PROVE  AnswerInv'
<1> SUFFICES ASSUME NEW r \in Request
             PROVE  OneIf(Final(sent'[r]), With(told', {r})) /\ OneIf(Final(sent'[r]), With(session', AnswersTo(r)))
  BY DEF AnswerInv, AnswersTo
<1>1. With(session', AnswersTo(r)) = With(session, AnswersTo(r))
  BY Unmoved
<1> QED  BY <1>1 DEF AnswerInv, OneIf

\* One request was answered, which had not been.
LEMMA AnswerMore ==
    ASSUME TypeInv, AnswerInv, NEW n \in Seq(SessionLine), session' = session \o n,
           NEW m \in Request, NEW j, ~ Final(sent[m]), Final(sent'[m]), told' = Append(told, m),
           With(n, AnswersTo(m)) = {j},
           \A r \in Request \ {m} : With(n, AnswersTo(r)) = {} /\ sent'[r] = sent[r]
    PROVE  AnswerInv'
<1> SUFFICES ASSUME NEW r \in Request
             PROVE  OneIf(Final(sent'[r]), With(told', {r})) /\ OneIf(Final(sent'[r]), With(session', AnswersTo(r)))
  BY DEF AnswerInv, AnswersTo
<1>1. OneIf(Final(sent[r]), With(told, {r})) /\ OneIf(Final(sent[r]), With(session, AnswersTo(r)))
  BY DEF AnswerInv
<1>2. <<m>> \in Seq(Request) /\ told' = told \o <<m>>
  BY AppendIsConcat DEF TypeInv
<1>3. With(told', {r}) = With(told, {r}) \cup {Len(told) + k : k \in With(<<m>>, {r})}
  <2> DEFINE one == <<m>>
  <2>1. told \in Seq(Request) /\ one \in Seq(Request) /\ told' = told \o one
    BY <1>2 DEF TypeInv
  <2> DEFINE it == {r}
  <2> HIDE DEF one, it
  <2>2. With(told \o one, it) = With(told, it) \cup {Len(told) + k : k \in With(one, it)}
    BY <2>1, WithGrown
  <2> QED  BY <2>1, <2>2 DEF one, it
<1>4. CASE r = m
  <2>1. With(<<m>>, {r}) = {1}
    BY <1>4 DEF With
  <2>2. With(session', AnswersTo(r)) = With(session, AnswersTo(r)) \cup {Len(session) + k : k \in With(n, AnswersTo(r))}
    BY Added
  <2>3. With(told, {r}) = {} /\ With(session, AnswersTo(r)) = {} /\ Final(sent'[r])
    BY <1>1, <1>4 DEF OneIf
  <2>4. With(told', {r}) = {Len(told) + 1}
    BY <1>3, <2>1, <2>3
  <2>5. With(session', AnswersTo(r)) = {Len(session) + j}
    BY <1>4, <2>2, <2>3
  <2> QED  BY <2>3, <2>4, <2>5 DEF OneIf
<1>5. CASE r # m
  <2>1. With(<<m>>, {r}) = {}
    BY <1>5 DEF With
  <2>2. With(session', AnswersTo(r)) = With(session, AnswersTo(r))
    BY <1>5, Unmoved
  <2>3. With(told', {r}) = With(told, {r})
    BY <1>3, <2>1
  <2> QED  BY <1>1, <1>5, <2>2, <2>3 DEF OneIf
<1> QED  BY <1>4, <1>5

\* What began the end stays what it was.
LEMMA CauseKept ==
    ASSUME TypeInv, CauseInv, NEW n \in Seq(SessionLine), session' = session \o n,
           first' = first, With(n, Ends) = {},
           \A m \in Http!Message : sent[m] = "refused" => sent'[m] = "refused",
           \A m \in Request : sent[m] = "refused" => With(n, AnswersTo(m)) = {}
    PROVE  CauseInv'
<1> SUFFICES ASSUME first = "auth_failed" PROVE CauseInv'
  BY DEF CauseInv
<1>1. PICK m \in Http!Message :
         /\ sent[m] = "refused"
         /\ m \in Request => \A i \in With(session, AnswersTo(m)), j \in With(session, Ends) : i < j
  BY DEF CauseInv
<1>2. With(session', Ends) = With(session, Ends)
  BY Unmoved
<1>3. m \in Request => With(session', AnswersTo(m)) = With(session, AnswersTo(m))
  BY <1>1, Unmoved
<1> QED  BY <1>1, <1>2, <1>3 DEF CauseInv, Ends, AnswersTo, Http!Message

\* Nothing about the login.
LEMMA AlertKept ==
    ASSUME TypeInv, AlertInv, NEW n \in Seq(SessionLine), session' = session \o n,
           With(n, Wants) = {}, With(n, Successes) = {}, signIn' = signIn
    PROVE  AlertInv'
<1>1. With(session', Wants) = With(session, Wants) /\ With(session', Successes) = With(session, Successes)
  BY Unmoved
<1> QED  BY <1>1 DEF AlertInv, Wants, Successes, Http!Line

\* A want of login, with no success after it.
LEMMA AlertRaised ==
    ASSUME TypeInv, NEW n \in Seq(SessionLine), session' = session \o n,
           NEW j \in With(n, Wants), With(n, Successes) = {}, signIn' = "refused"
    PROVE  AlertInv'
<1>1. With(session', Wants) = With(session, Wants) \cup {Len(session) + k : k \in With(n, Wants)}
  BY WithGrown DEF TypeInv
<1>2. Len(session) + j \in With(session', Wants)
  BY <1>1
<1>3. With(session', Successes) = With(session, Successes)
  BY Unmoved
<1>4. With(session, Successes) \subseteq 1 .. Len(session) /\ Len(session) \in Nat
  BY WithBounds DEF TypeInv
<1>5. j \in Nat /\ j > 0
  BY WithBounds
<1>6. \A i \in With(session', Successes) : i < Len(session) + j
  BY <1>3, <1>4, <1>5
<1> QED  BY <1>2, <1>6 DEF AlertInv, Wants, Successes, Http!Line

\* A success: the want is met.
LEMMA AlertMet ==
    ASSUME TypeInv, NEW n \in Seq(SessionLine), session' = session \o n,
           With(n, Wants) = {}, NEW j \in With(n, Successes), signIn' # "refused"
    PROVE  AlertInv'
<1>1. With(session', Successes) = With(session, Successes) \cup {Len(session) + k : k \in With(n, Successes)}
  BY WithGrown DEF TypeInv
<1>2. Len(session) + j \in With(session', Successes)
  BY <1>1
<1>3. With(session', Wants) = With(session, Wants)
  BY Unmoved
<1>4. With(session, Wants) \subseteq 1 .. Len(session) /\ Len(session) \in Nat
  BY WithBounds DEF TypeInv
<1>5. j \in Nat /\ j > 0
  BY WithBounds
<1>6. \A i \in With(session', Wants) : ~ Len(session) + j < i
  BY <1>3, <1>4, <1>5
<1> QED  BY <1>2, <1>6 DEF AlertInv, Wants, Successes, Http!Line

-----------------------------------------------------------------------------
(* The lines a step adds.                                                  *)

\* A sequence in three parts.
LEMMA ThreeParts ==
    ASSUME NEW S, NEW e \in Seq(S), NEW a \in Seq(S), NEW t \in Seq(S)
    PROVE  /\ (e \o a) \o t \in Seq(S)
           /\ Len((e \o a) \o t) = Len(e) + Len(a) + Len(t)
           /\ \A j \in 1 .. Len(t) : ((e \o a) \o t)[Len(e) + Len(a) + j] = t[j]
<1>1. e \o a \in Seq(S) /\ Len(e \o a) = Len(e) + Len(a)
  BY ConcatProperties
<1>2. /\ (e \o a) \o t \in Seq(S) /\ Len((e \o a) \o t) = Len(e \o a) + Len(t)
      /\ \A i \in 1 .. Len(e \o a) + Len(t) :
            ((e \o a) \o t)[i] = IF i <= Len(e \o a) THEN (e \o a)[i] ELSE t[i - Len(e \o a)]
  BY <1>1, ConcatProperties
<1>3. Len(e) \in Nat /\ Len(a) \in Nat /\ Len(t) \in Nat
  BY LenProperties
<1>4. ASSUME NEW j \in 1 .. Len(t) PROVE ((e \o a) \o t)[Len(e) + Len(a) + j] = t[j]
  <2>1. /\ Len(e) + Len(a) + j \in 1 .. Len(e \o a) + Len(t) /\ ~ Len(e) + Len(a) + j <= Len(e \o a)
        /\ (Len(e) + Len(a) + j) - Len(e \o a) = j
    BY <1>1, <1>3
  <2> QED  BY <1>2, <2>1
<1> QED  BY <1>1, <1>2, <1>4

LEMMA WithThreeParts ==
    ASSUME NEW S, NEW e \in Seq(S), NEW a \in Seq(S), NEW t \in Seq(S), NEW L
    PROVE  With((e \o a) \o t, L) = With(e, L) \cup {Len(e) + j : j \in With(a, L)}
                                        \cup {Len(e) + Len(a) + j : j \in With(t, L)}
<1> DEFINE b == e \o a
<1>1. b \in Seq(S) /\ Len(b) = Len(e) + Len(a)
  BY ConcatProperties
<1>2. With(b, L) = With(e, L) \cup {Len(e) + j : j \in With(a, L)}
  BY WithGrown
<1> HIDE DEF b
<1>3. With(b \o t, L) = With(b, L) \cup {Len(b) + j : j \in With(t, L)}
  <2>1. b \in Seq(S)
    BY <1>1
  <2> QED  BY <2>1, WithGrown
<1>4. With(b \o t, L) = With(e, L) \cup {Len(e) + j : j \in With(a, L)}
                            \cup {Len(e) + Len(a) + j : j \in With(t, L)}
  BY <1>1, <1>2, <1>3
<1> QED  BY <1>4 DEF b

LEMMA FewLines ==
    ASSUME NEW L
    PROVE  /\ With(<<>>, L) = {}
           /\ \A a : With(<<a>>, L) = IF a \in L THEN {1} ELSE {}
           /\ \A a, b : With(<<a, b>>, L) = (IF a \in L THEN {1} ELSE {}) \cup (IF b \in L THEN {2} ELSE {})
<1>1. With(<<>>, L) = {}
  BY DEF With
<1>2. ASSUME NEW a PROVE With(<<a>>, L) = IF a \in L THEN {1} ELSE {}
  BY DEF With
<1>3. ASSUME NEW a, NEW b
      PROVE  With(<<a, b>>, L) = (IF a \in L THEN {1} ELSE {}) \cup (IF b \in L THEN {2} ELSE {})
  <2>1. DOMAIN <<a, b>> = {1, 2} /\ <<a, b>>[1] = a /\ <<a, b>>[2] = b
    OBVIOUS
  <2> QED  BY <2>1 DEF With
<1> QED  BY <1>1, <1>2, <1>3

\* A line is of the kind its type says.
LEMMA Kinds ==
    ASSUME NEW type \in Types, NEW about \in Abouts
    PROVE  /\ Http!Line(type, about) \in SessionLine
           /\ Http!Line(type, about).about = about
           /\ Http!Line(type, about) \in Ends <=> type = "proxy.shutdown"
           /\ Http!Line(type, about) \in Closes <=> type = "proxy.http_closed"
           /\ Http!Line(type, about) \in Successes <=> type = "mcp.response"
           /\ Http!Line(type, about) \in Wants <=> type = "proxy.error" /\ about = "oauth_failed"
           /\ \A r \in Request :
                 Http!Line(type, about) \in AnswersTo(r) <=>
                     type \in {"mcp.response", "mcp.response error"} /\ about = r
BY DEF Http!Line, SessionLine, Ends, Closes, Successes, Wants, AnswersTo

\* The line of the answer, and of the end.
LEMMA AnswerLine ==
    ASSUME NEW m \in Http!Message
    PROVE  /\ Http!AnswerForwardFailure(m) \in Seq(SessionLine)
           /\ Len(Http!AnswerForwardFailure(m)) = IF m \in Request THEN 1 ELSE 0
           /\ \A L \in {Ends, Closes, Successes, Wants} : With(Http!AnswerForwardFailure(m), L) = {}
           /\ \A r \in Request : With(Http!AnswerForwardFailure(m), AnswersTo(r)) = IF r = m THEN {1} ELSE {}
<1>1. CASE m \in Request
  <2> DEFINE line == Http!Line("mcp.response error", m)
  <2>1. Http!AnswerForwardFailure(m) = <<line>>
    BY <1>1 DEF Http!AnswerForwardFailure
  <2>2. m \in Abouts
    BY DEF Abouts
  <2>3. /\ line \in SessionLine /\ line \notin Ends /\ line \notin Closes /\ line \notin Successes /\ line \notin Wants
        /\ \A r \in Request : line \in AnswersTo(r) <=> m = r
    <3>1. "mcp.response error" \in Types
      BY DEF Types
    <3> QED  BY <2>2, <3>1, Kinds
  <2> HIDE DEF line
  <2>4. <<line>> \in Seq(SessionLine) /\ Len(<<line>>) = 1
    BY <2>3
  <2>5. ASSUME NEW L, line \notin L PROVE With(<<line>>, L) = {}
    BY <2>5, FewLines
  <2>6. ASSUME NEW L, line \in L PROVE With(<<line>>, L) = {1}
    BY <2>6, FewLines
  <2>7. \A r \in Request : With(<<line>>, AnswersTo(r)) = IF r = m THEN {1} ELSE {}
    BY <2>3, <2>5, <2>6
  <2>8. \A L \in {Ends, Closes, Successes, Wants} : With(<<line>>, L) = {}
    BY <2>3, <2>5
  <2> QED  BY <1>1, <2>1, <2>4, <2>7, <2>8
<1>2. CASE m \notin Request
  <2>1. Http!AnswerForwardFailure(m) = <<>>
    BY <1>2 DEF Http!AnswerForwardFailure
  <2>2. \A r \in Request : r # m
    BY <1>2
  <2>3. \A L : With(<<>>, L) = {}
    BY FewLines
  <2>4. <<>> \in Seq(SessionLine) /\ Len(<<>>) = 0
    OBVIOUS
  <2> QED  BY <1>2, <2>1, <2>2, <2>3, <2>4
<1> QED  BY <1>1, <1>2

LEMMA ErrorLine ==
    ASSUME NEW kind \in {"oauth_failed", "http_status_error", "http_connect_failed", "unexpected"},
           NEW line, line = Http!Line("proxy.error", kind)
    PROVE  /\ line \in SessionLine /\ line \notin Ends /\ line \notin Closes /\ line \notin Successes
           /\ \A r \in Request : line \notin AnswersTo(r)
           /\ line \in Wants <=> kind = "oauth_failed"
<1>1. kind \in Abouts /\ "proxy.error" \in Types
  BY DEF Abouts, Types
<1> QED  BY <1>1, Kinds

LEMMA OneError ==
    ASSUME NEW kind \in {"oauth_failed", "http_status_error", "http_connect_failed", "unexpected"},
           NEW n, n = <<Http!Line("proxy.error", kind)>>
    PROVE  /\ n \in Seq(SessionLine) /\ Len(n) = 1
           /\ With(n, Ends) = {} /\ With(n, Closes) = {} /\ With(n, Successes) = {}
           /\ \A r \in Request : With(n, AnswersTo(r)) = {}
           /\ With(n, Wants) = IF kind = "oauth_failed" THEN {1} ELSE {}
<1> DEFINE line == Http!Line("proxy.error", kind)
<1>1. /\ line \in SessionLine /\ line \notin Ends /\ line \notin Closes /\ line \notin Successes
      /\ \A r \in Request : line \notin AnswersTo(r)
      /\ line \in Wants <=> kind = "oauth_failed"
  BY ErrorLine
<1> HIDE DEF line
<1>2. ASSUME NEW L, line \notin L PROVE With(<<line>>, L) = {}
  BY <1>2, FewLines
<1>3. ASSUME NEW L, line \in L PROVE With(<<line>>, L) = {1}
  BY <1>3, FewLines
<1>4. <<line>> \in Seq(SessionLine) /\ Len(<<line>>) = 1 /\ n = <<line>>
  BY <1>1 DEF line
<1>5. /\ With(<<line>>, Ends) = {} /\ With(<<line>>, Closes) = {} /\ With(<<line>>, Successes) = {}
      /\ \A r \in Request : With(<<line>>, AnswersTo(r)) = {}
  BY <1>1, <1>2
<1>6. With(<<line>>, Wants) = IF kind = "oauth_failed" THEN {1} ELSE {}
  BY <1>1, <1>2, <1>3
<1> QED  BY <1>4, <1>5, <1>6

\* A refused request and a want of login, as the transport reports them.
LEMMA TwoErrors ==
    ASSUME NEW kind \in {"http_status_error", "http_connect_failed"},
           NEW n, n = <<Http!Line("proxy.error", kind), Http!Line("proxy.error", "oauth_failed")>>
    PROVE  /\ n \in Seq(SessionLine) /\ Len(n) = 2
           /\ With(n, Ends) = {} /\ With(n, Closes) = {} /\ With(n, Successes) = {}
           /\ \A r \in Request : With(n, AnswersTo(r)) = {}
           /\ With(n, Wants) = {2}
<1> DEFINE a == Http!Line("proxy.error", kind)
           b == Http!Line("proxy.error", "oauth_failed")
<1>1. /\ a \in SessionLine /\ a \notin Ends /\ a \notin Closes /\ a \notin Successes
      /\ \A r \in Request : a \notin AnswersTo(r)
      /\ a \notin Wants
  BY ErrorLine
<1>2. /\ b \in SessionLine /\ b \notin Ends /\ b \notin Closes /\ b \notin Successes
      /\ \A r \in Request : b \notin AnswersTo(r)
      /\ b \in Wants
  BY ErrorLine
<1> HIDE DEF a, b
<1>3. ASSUME NEW L, a \notin L, b \notin L PROVE With(<<a, b>>, L) = {}
  BY <1>3, FewLines
<1>4. ASSUME NEW L, a \notin L, b \in L PROVE With(<<a, b>>, L) = {2}
  BY <1>4, FewLines
<1>5. <<a, b>> \in Seq(SessionLine) /\ Len(<<a, b>>) = 2 /\ n = <<a, b>>
  BY <1>1, <1>2 DEF a, b
<1>6. /\ With(<<a, b>>, Ends) = {} /\ With(<<a, b>>, Closes) = {} /\ With(<<a, b>>, Successes) = {}
      /\ \A r \in Request : With(<<a, b>>, AnswersTo(r)) = {}
  BY <1>1, <1>2, <1>3
<1>7. With(<<a, b>>, Wants) = {2}
  BY <1>1, <1>2, <1>4
<1> QED  BY <1>5, <1>6, <1>7

\* The line of an end that no peer began.
LEMMA EndLine ==
    ASSUME NEW reason \in Reasons, NEW n, n = <<Http!Line("proxy.shutdown", reason)>>
    PROVE  /\ n \in Seq(SessionLine) /\ Len(n) = 1 /\ n[1].about = reason
           /\ With(n, Ends) = {1} /\ With(n, Closes) = {} /\ With(n, Successes) = {} /\ With(n, Wants) = {}
           /\ \A r \in Request : With(n, AnswersTo(r)) = {}
<1> DEFINE line == Http!Line("proxy.shutdown", reason)
<1>1. reason \in Abouts /\ "proxy.shutdown" \in Types
  BY DEF Abouts, Types
<1>2. /\ line \in SessionLine /\ line.about = reason /\ line \in Ends
      /\ line \notin Closes /\ line \notin Successes /\ line \notin Wants
      /\ \A r \in Request : line \notin AnswersTo(r)
  BY <1>1, Kinds
<1> HIDE DEF line
<1>3. ASSUME NEW L, line \notin L PROVE With(<<line>>, L) = {}
  BY <1>3, FewLines
<1>4. With(<<line>>, Ends) = {1}
  BY <1>2, FewLines
<1>5. <<line>> \in Seq(SessionLine) /\ Len(<<line>>) = 1 /\ n = <<line>> /\ <<line>>[1] = line
  BY <1>2 DEF line
<1>6. /\ With(<<line>>, Closes) = {} /\ With(<<line>>, Successes) = {} /\ With(<<line>>, Wants) = {}
      /\ \A r \in Request : With(<<line>>, AnswersTo(r)) = {}
  BY <1>2, <1>3
<1> QED  BY <1>2, <1>4, <1>5, <1>6

\* The lines of a refusal: its errors, the answer where one is owed, the end
\* it may begin.
Refusal(m, e, t) == (e \o Http!AnswerForwardFailure(m)) \o t

LEMMA RefusalLines ==
    ASSUME NEW m \in Http!Message, NEW e \in Seq(SessionLine), NEW t \in Seq(SessionLine),
           With(e, Ends) = {}, With(e, Closes) = {}, With(e, Successes) = {},
           \A r \in Request : With(e, AnswersTo(r)) = {},
           With(t, Closes) = {}, With(t, Successes) = {}, With(t, Wants) = {},
           \A r \in Request : With(t, AnswersTo(r)) = {}
    PROVE  LET n == Refusal(m, e, t) IN
           /\ n \in Seq(SessionLine)
           /\ With(n, Closes) = {} /\ With(n, Successes) = {} /\ With(n, Wants) = With(e, Wants)
           /\ \A r \in Request : With(n, AnswersTo(r)) = IF r = m THEN {Len(e) + 1} ELSE {}
           /\ With(t, Ends) = {} => With(n, Ends) = {}
           /\ With(t, Ends) = {1} /\ Len(t) = 1 =>
                 /\ Len(n) \in DOMAIN n /\ With(n, Ends) = {Len(n)} /\ n[Len(n)] = t[1]
                 /\ m \in Request => Len(e) + 1 < Len(n)
<1> DEFINE a == Http!AnswerForwardFailure(m)
           n == Refusal(m, e, t)
<1>1. /\ a \in Seq(SessionLine) /\ Len(a) = IF m \in Request THEN 1 ELSE 0
      /\ With(a, Ends) = {} /\ With(a, Closes) = {} /\ With(a, Successes) = {} /\ With(a, Wants) = {}
      /\ \A r \in Request : With(a, AnswersTo(r)) = IF r = m THEN {1} ELSE {}
  BY AnswerLine
<1>2. a \in Seq(SessionLine) /\ n = (e \o a) \o t
  BY <1>1 DEF Refusal
<1> HIDE DEF a, n
<1>3. /\ n \in Seq(SessionLine)
      /\ Len(n) = Len(e) + Len(a) + Len(t)
      /\ \A j \in 1 .. Len(t) : n[Len(e) + Len(a) + j] = t[j]
      /\ \A L : With(n, L) = With(e, L) \cup {Len(e) + j : j \in With(a, L)}
                                    \cup {Len(e) + Len(a) + j : j \in With(t, L)}
  <2>1. a \in Seq(SessionLine)
    BY <1>2
  <2>2. /\ (e \o a) \o t \in Seq(SessionLine)
        /\ Len((e \o a) \o t) = Len(e) + Len(a) + Len(t)
        /\ \A j \in 1 .. Len(t) : ((e \o a) \o t)[Len(e) + Len(a) + j] = t[j]
    BY <2>1, ThreeParts
  <2>3. ASSUME NEW L
        PROVE  With((e \o a) \o t, L) = With(e, L) \cup {Len(e) + j : j \in With(a, L)}
                                            \cup {Len(e) + Len(a) + j : j \in With(t, L)}
    BY <2>1, WithThreeParts
  <2> QED  BY <1>2, <2>2, <2>3
<1>4. ASSUME NEW L, With(a, L) = {}, With(t, L) = {} PROVE With(n, L) = With(e, L)
  <2>1. {Len(e) + j : j \in {}} = {} /\ {Len(e) + Len(a) + j : j \in {}} = {}
    OBVIOUS
  <2> QED  BY <1>3, <1>4, <2>1
<1>5. With(n, Closes) = {} /\ With(n, Successes) = {} /\ With(n, Wants) = With(e, Wants)
  BY <1>1, <1>4
<1>6. ASSUME NEW r \in Request PROVE With(n, AnswersTo(r)) = IF r = m THEN {Len(e) + 1} ELSE {}
  <2>1. CASE r # m
    BY <1>1, <1>4, <2>1
  <2>2. CASE r = m
    <3>1. /\ With(e, AnswersTo(r)) = {} /\ With(t, AnswersTo(r)) = {} /\ With(a, AnswersTo(r)) = {1}
      BY <1>1, <2>2
    <3>2. {Len(e) + j : j \in {1}} = {Len(e) + 1} /\ {Len(e) + Len(a) + j : j \in {}} = {}
      OBVIOUS
    <3> QED  BY <1>3, <2>2, <3>1, <3>2
  <2> QED  BY <2>1, <2>2
<1>7. With(t, Ends) = {} => With(n, Ends) = {}
  BY <1>1, <1>4
<1>8. ASSUME With(t, Ends) = {1}, Len(t) = 1
      PROVE  /\ Len(n) \in DOMAIN n /\ With(n, Ends) = {Len(n)} /\ n[Len(n)] = t[1]
             /\ m \in Request => Len(e) + 1 < Len(n)
  <2>1. Len(e) \in Nat /\ Len(a) \in Nat /\ DOMAIN n = 1 .. Len(n)
    BY <1>2, <1>3, LenProperties
  <2>2. Len(n) = Len(e) + Len(a) + 1
    BY <1>3, <1>8
  <2>3. n[Len(n)] = t[1]
    <3>1. 1 \in 1 .. Len(t)
      BY <1>8
    <3> QED  BY <1>3, <2>2, <3>1
  <2>4. With(n, Ends) = {Len(n)}
    <3>1. {Len(e) + j : j \in {}} = {} /\ {Len(e) + Len(a) + j : j \in {1}} = {Len(e) + Len(a) + 1}
      OBVIOUS
    <3>2. With(n, Ends) = With(e, Ends) \cup {Len(e) + j : j \in With(a, Ends)}
                                        \cup {Len(e) + Len(a) + j : j \in With(t, Ends)}
      BY <1>3
    <3> QED  BY <1>1, <1>8, <2>2, <3>1, <3>2
  <2>5. Len(n) \in 1 .. Len(n) /\ (m \in Request => Len(e) + 1 < Len(n))
    BY <1>1, <2>1, <2>2
  <2> QED  BY <2>1, <2>3, <2>4, <2>5
<1> QED  BY <1>3, <1>5, <1>6, <1>7, <1>8 DEF n

-----------------------------------------------------------------------------
(* The steps.                                                              *)

States == {"unasked", "unsent", "sending", "accepted", "answered", "refused"}

\* Steps that write no line and answer nothing.
LEMMA QuietStep ==
    ASSUME IInv, UNCHANGED <<told, session, first, signIn>>, TypeInv',
           \A m \in Http!Message : sent'[m] = sent[m] \/ ~ (Final(sent[m]) \/ Final(sent'[m]))
    PROVE  IInv'
<1>1. \A m \in Http!Message : Final(sent'[m]) <=> Final(sent[m])
  OBVIOUS
<1>2. \A m \in Http!Message : sent[m] = "refused" => sent'[m] = "refused"
  BY DEF Final
<1>3. EndInv'
  BY DEF IInv, EndInv, Ends, Closes, Abouts, Http!Message
<1>4. AnswerInv'
  <2> SUFFICES ASSUME NEW r \in Request
               PROVE  OneIf(Final(sent'[r]), With(told', {r})) /\ OneIf(Final(sent'[r]), With(session', AnswersTo(r)))
    BY DEF AnswerInv, AnswersTo
  <2>1. Final(sent'[r]) <=> Final(sent[r])
    BY <1>1 DEF Http!Message
  <2>2. OneIf(Final(sent[r]), With(told, {r})) /\ OneIf(Final(sent[r]), With(session, AnswersTo(r)))
    BY DEF IInv, AnswerInv
  <2> QED  BY <2>1, <2>2 DEF OneIf
<1>5. CauseInv'
  BY <1>2 DEF IInv, CauseInv, AnswersTo, Ends, Http!Message
<1>6. AlertInv'
  BY DEF IInv, AlertInv, Wants, Successes, Http!Line
<1> QED  BY <1>3, <1>4, <1>5, <1>6 DEF IInv

\* Steps that write one error, which is no want of login.
LEMMA ErrorStep ==
    ASSUME IInv, NEW kind \in {"http_connect_failed", "unexpected", "oauth_failed"},
           session' = Append(session, Http!Line("proxy.error", kind)),
           UNCHANGED <<sent, told>>, first' = first \/ (first = "none" /\ first' = "start"),
           signIn' = IF kind = "oauth_failed" THEN "refused" ELSE signIn,
           phase' \in {"starting", "open", "closing", "exited", "killed"},
           phase' \in {"starting", "open"} => first' = "none"
    PROVE  IInv'
<1> DEFINE n == <<Http!Line("proxy.error", kind)>>
<1>1. /\ n \in Seq(SessionLine)
      /\ With(n, Ends) = {} /\ With(n, Closes) = {} /\ With(n, Successes) = {}
      /\ \A r \in Request : With(n, AnswersTo(r)) = {}
      /\ With(n, Wants) = IF kind = "oauth_failed" THEN {1} ELSE {}
  BY OneError
<1>2. Http!Line("proxy.error", kind) \in SessionLine
  BY ErrorLine
<1>3. session' = session \o n
  BY <1>2, AppendIsConcat DEF IInv, TypeInv
<1> HIDE DEF n
<1>4. TypeInv /\ EndInv /\ AnswerInv /\ CauseInv /\ AlertInv
  BY DEF IInv
<1>5. TypeInv'
  <2>1. session' \in Seq(SessionLine)
    BY <1>1, <1>3, <1>4, OldLines
  <2> QED  BY <1>4, <2>1 DEF TypeInv, SessionLine, Abouts, Http!Message
<1>6. EndInv'
  BY <1>1, <1>3, <1>4, EndKept
<1>7. AnswerInv'
  BY <1>1, <1>3, <1>4, AnswerKept
<1>8. CauseInv'
  <2>1. CASE first' = first
    <3>1. \A m \in Http!Message : sent[m] = "refused" => sent'[m] = "refused"
      OBVIOUS
    <3> QED  BY <1>1, <1>3, <1>4, <2>1, <3>1, CauseKept
  <2>2. CASE first' = "start"
    BY <2>2 DEF CauseInv
  <2> QED  BY <2>1, <2>2
<1>9. AlertInv'
  <2>1. CASE kind = "oauth_failed"
    <3>1. 1 \in With(n, Wants) /\ signIn' = "refused"
      BY <1>1, <2>1
    <3> QED  BY <1>1, <1>3, <1>4, <3>1, AlertRaised
  <2>2. CASE kind # "oauth_failed"
    BY <1>1, <1>3, <1>4, <2>2, AlertKept
  <2> QED  BY <2>1, <2>2
<1> QED  BY <1>5, <1>6, <1>7, <1>8, <1>9 DEF IInv

LEMMA StartFailsStep == IInv /\ Http!StartFails => IInv'
<1> SUFFICES ASSUME IInv, Http!StartFails PROVE IInv'
  OBVIOUS
<1>1. PICK kind \in {"oauth_failed", "http_connect_failed", "unexpected"} :
         /\ session' = Append(session, Http!Line("proxy.error", kind))
         /\ signIn' = IF kind = "oauth_failed" THEN "refused" ELSE signIn
  BY DEF Http!StartFails
<1>2. /\ UNCHANGED <<sent, told>> /\ phase' = "closing" /\ first = "none" /\ first' = "start"
  BY DEF Http!StartFails, IInv, TypeInv
<1> QED  BY <1>1, <1>2, ErrorStep

LEMMA ReportsStep ==
    ASSUME IInv, NEW kind \in {"http_connect_failed", "unexpected"}, Http!Reports(kind)
    PROVE  IInv'
<1>1. /\ session' = Append(session, Http!Line("proxy.error", kind))
      /\ UNCHANGED <<sent, told, phase, first, signIn>>
  BY DEF Http!Reports
<1>2. /\ phase \in {"starting", "open", "closing", "exited", "killed"}
      /\ phase \in {"starting", "open"} => first = "none"
  BY DEF IInv, TypeInv
<1>3. /\ kind \in {"http_connect_failed", "unexpected", "oauth_failed"}
      /\ first' = first \/ (first = "none" /\ first' = "start")
      /\ signIn' = IF kind = "oauth_failed" THEN "refused" ELSE signIn
      /\ UNCHANGED <<sent, told>>
      /\ phase' \in {"starting", "open", "closing", "exited", "killed"}
      /\ phase' \in {"starting", "open"} => first' = "none"
  BY <1>1, <1>2
<1> QED  BY <1>1, <1>3, ErrorStep

\* A peer leaves: its line, then that of the end.
LEMMA PeerLeavesStep ==
    ASSUME IInv, NEW reason \in {"parent_closed_stdin", "remote_closed"}, Http!PeerLeaves(PeerOf(reason), reason)
    PROVE  IInv'
<1> DEFINE a == Http!Line("proxy.http_closed", PeerOf(reason))
           b == Http!Line("proxy.shutdown", reason)
<1>1. TypeInv /\ EndInv /\ AnswerInv /\ CauseInv /\ AlertInv
  BY DEF IInv
<1>2. /\ phase = "open" /\ phase' = "closing" /\ first = "none" /\ first' = reason
      /\ session' = (session \o <<a>>) \o <<b>>
      /\ UNCHANGED <<sent, told, signIn>>
  BY <1>1 DEF Http!PeerLeaves, Http!RunHttpShutdown, TypeInv
<1>3. /\ a \in SessionLine /\ a.about = PeerOf(reason) /\ a \in Closes
      /\ a \notin Ends /\ a \notin Successes /\ a \notin Wants
      /\ \A r \in Request : a \notin AnswersTo(r)
  <2>1. PeerOf(reason) \in Abouts /\ "proxy.http_closed" \in Types
    BY DEF PeerOf, Abouts, Types
  <2> QED  BY <2>1, Kinds, ZenonT(60)
<1>4. /\ b \in SessionLine /\ b.about = reason /\ b \in Ends
      /\ b \notin Closes /\ b \notin Successes /\ b \notin Wants
      /\ \A r \in Request : b \notin AnswersTo(r)
  <2>1. reason \in Abouts /\ "proxy.shutdown" \in Types
    BY DEF Abouts, Reasons, Types
  <2> QED  BY <2>1, Kinds
<1> HIDE DEF a, b
<1> DEFINE n == <<a, b>>
<1>5. n \in Seq(SessionLine) /\ DOMAIN n = 1 .. 2 /\ n[1] = a /\ n[2] = b
  BY <1>3, <1>4
<1>6. session' = session \o n
  <2>1. <<a>> \in Seq(SessionLine) /\ <<b>> \in Seq(SessionLine)
    BY <1>3, <1>4
  <2>2. <<a>> \o <<b>> = <<a, b>>
    <3>1. /\ <<a>> \o <<b>> \in Seq(SessionLine) /\ Len(<<a>> \o <<b>>) = 1 + 1
          /\ \A i \in 1 .. 1 + 1 : (<<a>> \o <<b>>)[i] = IF i <= 1 THEN a ELSE <<b>>[i - 1]
      BY <2>1, ConcatProperties
    <3>2. <<a, b>> \in Seq(SessionLine) /\ Len(<<a, b>>) = 2 /\ <<a, b>>[1] = a /\ <<a, b>>[2] = b
      BY <1>3, <1>4
    <3>3. \A i \in 1 .. 2 : (<<a>> \o <<b>>)[i] = <<a, b>>[i]
      BY <3>1, <3>2
    <3> DEFINE p == <<a>> \o <<b>>
               q == <<a, b>>
    <3>4. /\ p \in Seq(SessionLine) /\ q \in Seq(SessionLine) /\ Len(p) = Len(q)
          /\ \A i \in 1 .. Len(p) : p[i] = q[i]
      BY <3>1, <3>2, <3>3
    <3> HIDE DEF p, q
    <3>5. p = q
      BY <3>4, SeqEqual
    <3> QED  BY <3>5 DEF p, q
  <2>3. session \in Seq(SessionLine)
    BY <1>1 DEF TypeInv
  <2>4. (session \o <<a>>) \o <<b>> = session \o (<<a>> \o <<b>>)
    BY <2>1, <2>3, ConcatAssociative
  <2> QED  BY <1>2, <2>2, <2>4
<1>7. ASSUME NEW L PROVE With(n, L) = (IF a \in L THEN {1} ELSE {}) \cup (IF b \in L THEN {2} ELSE {})
  BY FewLines
<1>8. With(n, Closes) = {1} /\ With(n, Ends) = {2} /\ With(n, Successes) = {} /\ With(n, Wants) = {}
  BY <1>3, <1>4, <1>7
<1>9. \A r \in Request : With(n, AnswersTo(r)) = {}
  BY <1>3, <1>4, <1>7
<1> HIDE DEF n
<1>10. TypeInv'
  <2>1. session' \in Seq(SessionLine)
    BY <1>1, <1>5, <1>6, OldLines
  <2> QED  BY <1>1, <1>2, <2>1 DEF TypeInv, SessionLine, Abouts, Http!Message, Reasons
<1>11. EndInv'
  BY <1>1, <1>2, <1>3, <1>4, <1>5, <1>6, <1>8, EndByPeer
<1>12. AnswerInv'
  BY <1>1, <1>2, <1>5, <1>6, <1>9, AnswerKept
<1>13. CauseInv'
  BY <1>2 DEF CauseInv
<1>14. AlertInv'
  BY <1>1, <1>2, <1>5, <1>6, <1>8, AlertKept
<1> QED  BY <1>10, <1>11, <1>12, <1>13, <1>14 DEF IInv

LEMMA SignalStep == IInv /\ Http!Signal => IInv'
<1> SUFFICES ASSUME IInv, Http!Signal PROVE IInv'
  OBVIOUS
<1>1. TypeInv /\ EndInv /\ AnswerInv /\ CauseInv /\ AlertInv
  BY DEF IInv
<1>2. CASE phase # "open"
  <2>1. UNCHANGED <<told, session, first, signIn, sent, phase>>
    BY <1>1, <1>2, ConcatEmptySeq DEF Http!Signal, Http!RunHttpShutdown, TypeInv
  <2>2. TypeInv'
    BY <1>1, <2>1 DEF TypeInv, SessionLine, Abouts, Http!Message
  <2>3. \A m \in Http!Message : sent'[m] = sent[m]
    BY <2>1
  <2>4. UNCHANGED <<told, session, first, signIn>>
    BY <2>1
  <2> QED  BY <2>2, <2>3, <2>4, QuietStep
<1>3. CASE phase = "open"
  <2> DEFINE n == <<Http!Line("proxy.shutdown", "signal_received")>>
  <2>1. /\ phase' = "closing" /\ first = "none" /\ first' = "signal_received"
        /\ session' = (session \o <<>>) \o n
        /\ UNCHANGED <<sent, told, signIn>>
    BY <1>1, <1>3 DEF Http!Signal, Http!RunHttpShutdown, TypeInv
  <2>2. /\ n \in Seq(SessionLine) /\ Len(n) = 1 /\ n[1].about = "signal_received"
        /\ With(n, Ends) = {1} /\ With(n, Closes) = {} /\ With(n, Successes) = {} /\ With(n, Wants) = {}
        /\ \A r \in Request : With(n, AnswersTo(r)) = {}
    BY EndLine DEF Reasons
  <2> HIDE DEF n
  <2>3. session' = session \o n
    BY <1>1, <2>1, ConcatEmptySeq DEF TypeInv
  <2>4. TypeInv'
    <3>1. session' \in Seq(SessionLine)
      BY <1>1, <2>2, <2>3, OldLines
    <3> QED  BY <1>1, <2>1, <3>1 DEF TypeInv, SessionLine, Abouts, Http!Message, Reasons
  <2>5. EndInv'
    <3>1. 1 \in DOMAIN n
      BY <2>2, LenProperties
    <3> QED  BY <1>1, <2>1, <2>2, <2>3, <3>1, EndAlone
  <2>6. AnswerInv'
    BY <1>1, <2>1, <2>2, <2>3, AnswerKept
  <2>7. CauseInv'
    BY <2>1 DEF CauseInv
  <2>8. AlertInv'
    BY <1>1, <2>1, <2>2, <2>3, AlertKept
  <2> QED  BY <2>4, <2>5, <2>6, <2>7, <2>8 DEF IInv
<1> QED  BY <1>2, <1>3

LEMMA StartStep == IInv /\ (Http!Start \/ Http!TearDownTail \/ Http!Dies) => IInv'
<1> SUFFICES ASSUME IInv, Http!Start \/ Http!TearDownTail \/ Http!Dies PROVE IInv'
  OBVIOUS
<1>1. /\ UNCHANGED <<told, session, first, signIn>> /\ sent' = sent
      /\ phase' \in {"open", "exited", "killed"} /\ (phase' = "open" => phase = "starting")
  BY DEF Http!Start, Http!TearDownTail, Http!Dies
<1>2. TypeInv'
  BY <1>1 DEF IInv, TypeInv, SessionLine, Abouts, Http!Message
<1>3. \A m \in Http!Message : sent'[m] = sent[m]
  BY <1>1
<1> QED  BY <1>1, <1>2, <1>3, QuietStep

LEMMA AcceptedStep == ASSUME IInv, NEW m \in Http!Message, Http!Accepted(m) PROVE IInv'
<1>1. /\ UNCHANGED <<told, session, first, signIn>> /\ phase' = phase
      /\ sent[m] = "sending" /\ sent' = [sent EXCEPT ![m] = "accepted"]
  BY DEF Http!Accepted
<1>2. TypeInv'
  BY <1>1 DEF IInv, TypeInv, SessionLine, Abouts, Http!Message
<1>3. \A k \in Http!Message : sent'[k] = sent[k] \/ ~ (Final(sent[k]) \/ Final(sent'[k]))
  BY <1>1 DEF IInv, TypeInv, Final
<1> QED  BY <1>1, <1>2, <1>3, QuietStep

LEMMA LineAlone == ASSUME NEW x \in SessionLine PROVE <<x>> \in Seq(SessionLine)
OBVIOUS

\* A message is recorded as it passes: no line of the end, no answer to a
\* request of the client; a successful response of the client meets the want
\* of a login.
LEMMA RecordedStep ==
    ASSUME IInv, NEW m \in Http!Message,
           NEW type \in {"mcp.request", "mcp.notification", "mcp.response", "mcp.response error"},
           type \in {"mcp.response", "mcp.response error"} => m \notin Request,
           UNCHANGED <<phase, told, first>>, session' = Append(session, Http!Line(type, m)),
           NEW from \in {"unasked", "unsent"}, NEW to \in {"unsent", "sending"},
           sent[m] = from, sent' = [sent EXCEPT ![m] = to],
           signIn' = IF type = "mcp.response" /\ signIn = "refused" THEN "covered" ELSE signIn
    PROVE  IInv'
<1> DEFINE line == Http!Line(type, m)
<1>1. TypeInv /\ EndInv /\ AnswerInv /\ CauseInv /\ AlertInv
  BY DEF IInv
<1>2. UNCHANGED <<told, first>> /\ phase' = phase /\ session' = Append(session, line)
  OBVIOUS
<1>3. /\ line \in SessionLine /\ line \notin Ends /\ line \notin Closes /\ line \notin Wants
      /\ line \in Successes <=> type = "mcp.response"
      /\ \A r \in Request : line \notin AnswersTo(r)
  <2>1. m \in Abouts /\ type \in Types
    BY DEF Abouts, Types
  <2>2. /\ line \in SessionLine /\ line \notin Ends /\ line \notin Closes /\ line \notin Wants
        /\ line \in Successes <=> type = "mcp.response"
        /\ \A r \in Request :
              line \in AnswersTo(r) <=> type \in {"mcp.response", "mcp.response error"} /\ m = r
    BY <2>1, Kinds
  <2> HIDE DEF line
  <2> QED  BY <2>2
<1> HIDE DEF line
<1> DEFINE n == <<line>>
<1>4. n \in Seq(SessionLine) /\ session' = session \o n
  <2>1. line \in SessionLine /\ session \in Seq(SessionLine)
    BY <1>1, <1>3 DEF TypeInv
  <2>2. <<line>> \in Seq(SessionLine)
    BY <2>1, LineAlone
  <2>3. Append(session, line) = session \o <<line>>
    BY <2>1, AppendIsConcat
  <2> QED  BY <1>2, <2>2, <2>3
<1>5. ASSUME NEW L, line \notin L PROVE With(n, L) = {}
  BY <1>5, FewLines
<1>6. With(n, Ends) = {} /\ With(n, Closes) = {} /\ With(n, Wants) = {}
  BY <1>3, <1>5
<1>7. \A r \in Request : With(n, AnswersTo(r)) = {}
  BY <1>3, <1>5
<1>8. IF type = "mcp.response" THEN With(n, Successes) = {1} ELSE With(n, Successes) = {}
  <2>1. ASSUME line \in Successes PROVE With(n, Successes) = {1}
    BY <2>1, FewLines
  <2> QED  BY <1>3, <1>5, <2>1
<1> HIDE DEF n
<1>9. \A k \in Http!Message : sent'[k] = sent[k] \/ ~ (Final(sent[k]) \/ Final(sent'[k]))
  BY <1>1 DEF TypeInv, Final
<1>10. TypeInv'
  <2>1. session' \in Seq(SessionLine)
    BY <1>1, <1>4, OldLines
  <2>2. sent' \in [Http!Message -> States] /\ signIn' \in {"fine", "refused", "alive", "covered"}
    BY <1>1 DEF TypeInv, States
  <2> QED  BY <1>1, <1>2, <2>1, <2>2 DEF TypeInv, States, SessionLine, Abouts, Http!Message
<1>11. EndInv'
  BY <1>1, <1>2, <1>4, <1>6, EndKept
<1>12. AnswerInv'
  <2>1. \A r \in Request : Final(sent'[r]) <=> Final(sent[r])
    BY <1>9 DEF Http!Message
  <2> QED  BY <1>1, <1>2, <1>4, <1>7, <2>1, AnswerKept
<1>13. CauseInv'
  <2>1. \A k \in Http!Message : sent[k] = "refused" => sent'[k] = "refused"
    BY <1>9 DEF Final
  <2> QED  BY <1>1, <1>2, <1>4, <1>6, <1>7, <2>1, CauseKept
<1>14. AlertInv'
  <2>1. CASE type = "mcp.response"
    <3>1. 1 \in With(n, Successes) /\ signIn' # "refused"
      BY <1>8, <2>1
    <3> QED  BY <1>1, <1>4, <1>6, <3>1, AlertMet
  <2>2. CASE type # "mcp.response"
    <3>1. With(n, Successes) = {} /\ signIn' = signIn
      BY <1>8, <2>2
    <3> QED  BY <1>1, <1>4, <1>6, <3>1, AlertKept
  <2> QED  BY <2>1, <2>2
<1> QED  BY <1>10, <1>11, <1>12, <1>13, <1>14 DEF IInv

LEMMA ClientSendsStep == ASSUME IInv, NEW m \in Http!Message, Http!ClientSends(m) PROVE IInv'
<1>1. /\ UNCHANGED <<phase, told, first>> /\ sent[m] = "unsent"
      /\ sent' = [sent EXCEPT ![m] = "sending"]
  BY DEF Http!ClientSends
<1>2. PICK type \in Http!RecordedAs(m) :
         /\ session' = Append(session, Http!Line(type, m))
         /\ signIn' = IF type = "mcp.response" /\ signIn = "refused" THEN "covered" ELSE signIn
  BY DEF Http!ClientSends
<1>3. /\ type \in {"mcp.request", "mcp.notification", "mcp.response", "mcp.response error"}
      /\ type \in {"mcp.response", "mcp.response error"} => m \notin Request
  BY <1>2 DEF Http!RecordedAs
<1> QED  BY <1>1, <1>2, <1>3, RecordedStep

LEMMA RemoteAsksStep == ASSUME IInv, NEW m \in Http!Message, Http!RemoteAsks(m) PROVE IInv'
<1>1. /\ UNCHANGED <<phase, told, first, signIn>> /\ sent[m] = "unasked"
      /\ sent' = [sent EXCEPT ![m] = "unsent"] /\ session' = Append(session, Http!Line("mcp.request", m))
  BY DEF Http!RemoteAsks
<1> QED  BY <1>1, RecordedStep

\* The server answers: the one answer its request will have.
LEMMA RemoteAnswersStep == ASSUME IInv, NEW m \in Http!Message, Http!RemoteAnswers(m) PROVE IInv'
<1>1. TypeInv /\ EndInv /\ AnswerInv /\ CauseInv /\ AlertInv
  BY DEF IInv
<1>2. /\ m \in Request /\ UNCHANGED <<phase, first>> /\ told' = Append(told, m)
      /\ sent[m] \in {"sending", "accepted"} /\ sent' = [sent EXCEPT ![m] = "answered"]
  BY DEF Http!RemoteAnswers
<1>3. PICK ok \in BOOLEAN :
         /\ session' = Append(session, Http!Line(IF ok THEN "mcp.response" ELSE "mcp.response error", m))
         /\ signIn' = IF ok /\ signIn \in {"refused", "covered"} THEN "alive" ELSE signIn
  BY DEF Http!RemoteAnswers
<1> DEFINE line == Http!Line(IF ok THEN "mcp.response" ELSE "mcp.response error", m)
<1>4. /\ line \in SessionLine /\ line \notin Ends /\ line \notin Closes /\ line \notin Wants
      /\ line \in Successes <=> ok
      /\ \A r \in Request : line \in AnswersTo(r) <=> m = r
  <2>1. m \in Abouts /\ "mcp.response" \in Types /\ "mcp.response error" \in Types
    BY DEF Abouts, Types
  <2> DEFINE type == IF ok THEN "mcp.response" ELSE "mcp.response error"
  <2>2. /\ type \in Types /\ type \in {"mcp.response", "mcp.response error"}
        /\ type = "mcp.response" <=> ok
    BY <2>1
  <2> HIDE DEF type
  <2>3. /\ Http!Line(type, m) \in SessionLine /\ Http!Line(type, m) \notin Ends
        /\ Http!Line(type, m) \notin Closes /\ Http!Line(type, m) \notin Wants
        /\ Http!Line(type, m) \in Successes <=> ok
        /\ \A r \in Request : Http!Line(type, m) \in AnswersTo(r) <=> m = r
    BY <2>1, <2>2, Kinds
  <2> QED  BY <2>3 DEF type
<1>5. session' = Append(session, line)
  BY <1>3
<1> HIDE DEF line
<1> DEFINE n == <<line>>
<1>6. n \in Seq(SessionLine) /\ session' = session \o n
  BY <1>1, <1>4, <1>5, AppendIsConcat DEF TypeInv
<1>7. ASSUME NEW L, line \notin L PROVE With(n, L) = {}
  BY <1>7, FewLines
<1>8. ASSUME NEW L, line \in L PROVE With(n, L) = {1}
  BY <1>8, FewLines
<1>9. With(n, Ends) = {} /\ With(n, Closes) = {} /\ With(n, Wants) = {} /\ With(n, AnswersTo(m)) = {1}
  BY <1>2, <1>4, <1>7, <1>8
<1>10. \A r \in Request \ {m} : With(n, AnswersTo(r)) = {}
  BY <1>4, <1>7
<1>11. IF ok THEN With(n, Successes) = {1} ELSE With(n, Successes) = {}
  BY <1>4, <1>7, <1>8
<1> HIDE DEF n
<1>12. TypeInv'
  <2>1. session' \in Seq(SessionLine)
    BY <1>1, <1>6, OldLines
  <2>2. told' \in Seq(Request)
    BY <1>1, <1>2 DEF TypeInv
  <2> QED  BY <1>1, <1>2, <1>3, <2>1, <2>2 DEF TypeInv, SessionLine, Abouts, Http!Message
<1>13. EndInv'
  BY <1>1, <1>2, <1>6, <1>9, EndKept
<1>14. AnswerInv'
  <2>1. ~ Final(sent[m]) /\ Final(sent'[m]) /\ \A r \in Request \ {m} : sent'[r] = sent[r]
    BY <1>1, <1>2 DEF TypeInv, Final
  <2>2. \A r \in Request \ {m} : With(n, AnswersTo(r)) = {} /\ sent'[r] = sent[r]
    BY <1>10, <2>1
  <2> QED  BY <1>1, <1>2, <1>6, <1>9, <2>1, <2>2, AnswerMore
<1>15. CauseInv'
  <2>1. \A k \in Http!Message : sent[k] = "refused" => sent'[k] = "refused"
    BY <1>1, <1>2 DEF TypeInv
  <2>2. \A k \in Request : sent[k] = "refused" => With(n, AnswersTo(k)) = {}
    BY <1>2, <1>10
  <2> QED  BY <1>1, <1>2, <1>6, <1>9, <2>1, <2>2, CauseKept
<1>16. AlertInv'
  <2>1. CASE ok
    <3>1. 1 \in With(n, Successes) /\ signIn' # "refused"
      BY <1>3, <1>11, <2>1
    <3> QED  BY <1>1, <1>6, <1>9, <3>1, AlertMet
  <2>2. CASE ~ ok
    <3>1. With(n, Successes) = {} /\ signIn' = signIn
      BY <1>3, <1>11, <2>2
    <3> QED  BY <1>1, <1>6, <1>9, <3>1, AlertKept
  <2> QED  BY <2>1, <2>2
<1> QED  BY <1>12, <1>13, <1>14, <1>15, <1>16 DEF IInv

\* What a refused message leaves: its errors e, its answer, and the end t that
\* a want of login begins.
LEMMA RefusedStep ==
    ASSUME IInv, NEW m \in Http!Message, NEW e \in Seq(SessionLine), NEW t \in Seq(SessionLine),
           With(e, Ends) = {}, With(e, Closes) = {}, With(e, Successes) = {},
           \A r \in Request : With(e, AnswersTo(r)) = {},
           (With(e, Wants) = {} /\ signIn' = signIn) \/ (With(e, Wants) = {2} /\ signIn' = "refused"),
           With(t, Closes) = {}, With(t, Successes) = {}, With(t, Wants) = {},
           \A r \in Request : With(t, AnswersTo(r)) = {},
           session' = session \o Refusal(m, e, t),
           sent[m] = "sending", sent' = [sent EXCEPT ![m] = "refused"],
           told' = IF m \in Request THEN Append(told, m) ELSE told,
           \/ With(t, Ends) = {} /\ first' = first /\ phase' = phase
           \/ /\ With(t, Ends) = {1} /\ Len(t) = 1 /\ t[1].about = "auth_failed"
              /\ first = "none" /\ first' = "auth_failed" /\ phase' = "closing"
    PROVE  IInv'
<1> DEFINE n == Refusal(m, e, t)
<1>1. /\ n \in Seq(SessionLine)
      /\ With(n, Closes) = {} /\ With(n, Successes) = {} /\ With(n, Wants) = With(e, Wants)
      /\ \A r \in Request : With(n, AnswersTo(r)) = IF r = m THEN {Len(e) + 1} ELSE {}
      /\ With(t, Ends) = {} => With(n, Ends) = {}
      /\ With(t, Ends) = {1} /\ Len(t) = 1 =>
            /\ Len(n) \in DOMAIN n /\ With(n, Ends) = {Len(n)} /\ n[Len(n)] = t[1]
            /\ m \in Request => Len(e) + 1 < Len(n)
  BY RefusalLines
<1>2. session' = session \o n
  OBVIOUS
<1> HIDE DEF n
<1>3. TypeInv /\ EndInv /\ AnswerInv /\ CauseInv /\ AlertInv
  BY DEF IInv
<1>4. TypeInv'
  <2>1. session' \in Seq(SessionLine)
    BY <1>1, <1>2, <1>3, OldLines
  <2>2. told' \in Seq(Request)
    BY <1>3 DEF TypeInv
  <2>3. /\ sent' \in [Http!Message -> States] /\ signIn' \in {"fine", "refused", "alive", "covered"}
        /\ first' \in {"none", "start"} \cup Reasons
    BY <1>3 DEF TypeInv, States, Reasons
  <2>4. /\ phase' \in {"starting", "open", "closing", "exited", "killed"}
        /\ phase' \in {"starting", "open"} => first' = "none"
    BY <1>3 DEF TypeInv
  <2> QED  BY <2>1, <2>2, <2>3, <2>4 DEF TypeInv, States, SessionLine, Abouts, Http!Message
<1>5. AnswerInv'
  <2>1. \A r \in Http!Message : r # m => sent'[r] = sent[r]
    BY <1>3 DEF TypeInv
  <2>2. ~ Final(sent[m]) /\ Final(sent'[m])
    BY <1>3 DEF TypeInv, Final
  <2>3. CASE m \in Request
    <3>1. \A r \in Request \ {m} : With(n, AnswersTo(r)) = {} /\ sent'[r] = sent[r]
      BY <1>1, <2>1 DEF Http!Message
    <3>2. With(n, AnswersTo(m)) = {Len(e) + 1} /\ told' = Append(told, m)
      BY <1>1, <2>3
    <3> QED  BY <1>1, <1>2, <1>3, <2>2, <2>3, <3>1, <3>2, AnswerMore
  <2>4. CASE m \notin Request
    <3>1. \A r \in Request : With(n, AnswersTo(r)) = {}
      BY <1>1, <2>4
    <3>2. \A r \in Request : Final(sent'[r]) <=> Final(sent[r])
      BY <2>1, <2>4 DEF Http!Message
    <3>3. told' = told
      BY <2>4
    <3> QED  BY <1>1, <1>2, <1>3, <3>1, <3>2, <3>3, AnswerKept
  <2> QED  BY <2>3, <2>4
<1>6. AlertInv'
  <2>1. CASE With(e, Wants) = {} /\ signIn' = signIn
    BY <1>1, <1>2, <1>3, <2>1, AlertKept
  <2>2. CASE With(e, Wants) = {2} /\ signIn' = "refused"
    <3>1. 2 \in With(n, Wants)
      BY <1>1, <2>2
    <3> QED  BY <1>1, <1>2, <1>3, <2>2, <3>1, AlertRaised
  <2> QED  BY <2>1, <2>2
<1>7. CASE With(t, Ends) = {} /\ first' = first
  <2>1. EndInv'
    BY <1>1, <1>2, <1>3, <1>7, EndKept
  <2>2. CauseInv'
    <3>1. \A k \in Http!Message : sent[k] = "refused" => sent'[k] = "refused"
      BY <1>3 DEF TypeInv
    <3>2. \A k \in Request : sent[k] = "refused" => With(n, AnswersTo(k)) = {}
      <4>1. \A k \in Request : sent[k] = "refused" => k # m
        OBVIOUS
      <4> QED  BY <1>1, <4>1
    <3> QED  BY <1>1, <1>2, <1>3, <1>7, <3>1, <3>2, CauseKept
  <2> QED  BY <1>4, <1>5, <1>6, <2>1, <2>2 DEF IInv
<1>8. CASE /\ With(t, Ends) = {1} /\ Len(t) = 1 /\ t[1].about = "auth_failed"
           /\ first = "none" /\ first' = "auth_failed"
  <2>1. /\ Len(n) \in DOMAIN n /\ With(n, Ends) = {Len(n)} /\ n[Len(n)].about = "auth_failed"
        /\ m \in Request => Len(e) + 1 < Len(n)
    BY <1>1, <1>8
  <2>2. EndInv'
    <3> DEFINE j == Len(n)
    <3>1. j \in DOMAIN n /\ With(n, Ends) = {j} /\ n[j].about = first' /\ With(n, Closes) = {}
      BY <1>1, <1>8, <2>1
    <3> HIDE DEF j
    <3> QED  BY <1>1, <1>2, <1>3, <1>8, <3>1, EndAlone
  <2>3. CauseInv'
    <3>1. With(session', Ends) = {Len(session) + Len(n)}
      <4>1. With(session', Ends) = With(session, Ends) \cup {Len(session) + k : k \in With(n, Ends)}
        BY <1>1, <1>2, <1>3, Added
      <4>2. With(session, Ends) = {} /\ {Len(session) + k : k \in {Len(n)}} = {Len(session) + Len(n)}
        BY <1>3, <1>8 DEF EndInv
      <4> QED  BY <2>1, <4>1, <4>2
    <3>2. ASSUME m \in Request, NEW i \in With(session', AnswersTo(m)) PROVE i < Len(session) + Len(n)
      <4>1. With(session', AnswersTo(m)) = With(session, AnswersTo(m)) \cup {Len(session) + k : k \in With(n, AnswersTo(m))}
        BY <1>1, <1>2, <1>3, Added
      <4>2. With(session, AnswersTo(m)) = {}
        BY <1>3, <3>2 DEF AnswerInv, OneIf, Final
      <4>3. With(n, AnswersTo(m)) = {Len(e) + 1}
        BY <1>1, <3>2
      <4>4. {Len(session) + k : k \in {Len(e) + 1}} = {Len(session) + (Len(e) + 1)}
        OBVIOUS
      <4>5. i = Len(session) + (Len(e) + 1)
        BY <3>2, <4>1, <4>2, <4>3, <4>4
      <4>6. Len(session) \in Nat /\ Len(e) \in Nat /\ Len(n) \in Nat
        BY <1>1, <1>3, LenProperties DEF TypeInv
      <4> QED  BY <2>1, <3>2, <4>5, <4>6
    <3>3. sent'[m] = "refused"
      BY <1>3 DEF TypeInv
    <3>4. m \in Request => \A i \in With(session', AnswersTo(m)), j \in With(session', Ends) : i < j
      BY <3>1, <3>2
    <3> QED  BY <3>3, <3>4 DEF CauseInv, Ends, AnswersTo, Http!Message
  <2> QED  BY <1>4, <1>5, <1>6, <2>2, <2>3 DEF IInv
<1> QED  BY <1>7, <1>8

LEMMA SendFailsStep == ASSUME IInv, NEW m \in Http!Message, Http!SendFails(m) PROVE IInv'
<1> DEFINE a == Http!AnswerForwardFailure(m)
           want(kind) == <<Http!Line("proxy.error", kind), Http!Line("proxy.error", "oauth_failed")>>
           end == <<Http!Line("proxy.shutdown", "auth_failed")>>
           none == <<>>
<1>1. /\ sent[m] = "sending" /\ sent' = [sent EXCEPT ![m] = "refused"]
      /\ told' = IF m \in Request THEN Append(told, m) ELSE told
  BY DEF Http!SendFails
<1>2. session \in Seq(SessionLine) /\ a \in Seq(SessionLine)
  BY AnswerLine DEF IInv, TypeInv
<1>3. /\ none \in Seq(SessionLine)
      /\ With(none, Ends) = {} /\ With(none, Closes) = {} /\ With(none, Successes) = {} /\ With(none, Wants) = {}
      /\ \A r \in Request : With(none, AnswersTo(r)) = {}
  BY FewLines
<1>4. ASSUME NEW kind \in {"http_status_error", "http_connect_failed"}
      PROVE  /\ want(kind) \in Seq(SessionLine)
             /\ With(want(kind), Ends) = {} /\ With(want(kind), Closes) = {} /\ With(want(kind), Successes) = {}
             /\ \A r \in Request : With(want(kind), AnswersTo(r)) = {}
             /\ With(want(kind), Wants) = {2}
  BY TwoErrors
<1>5. /\ end \in Seq(SessionLine) /\ Len(end) = 1 /\ end[1].about = "auth_failed"
      /\ With(end, Ends) = {1} /\ With(end, Closes) = {} /\ With(end, Successes) = {} /\ With(end, Wants) = {}
      /\ \A r \in Request : With(end, AnswersTo(r)) = {}
  BY EndLine DEF Reasons
<1>6. \A x \in Seq(SessionLine) : x \o none = x
  BY ConcatEmptySeq
<1>7. CASE \E kind \in {"http_status_error", "http_connect_failed"} :
              /\ session' = Append(session, Http!Line("proxy.error", kind)) \o a
              /\ UNCHANGED <<phase, first, signIn>>
  <2>1. PICK kind \in {"http_status_error", "http_connect_failed"} :
           /\ session' = Append(session, Http!Line("proxy.error", kind)) \o a
           /\ UNCHANGED <<phase, first, signIn>>
    BY <1>7
  <2> DEFINE e == <<Http!Line("proxy.error", kind)>>
  <2>2. /\ e \in Seq(SessionLine)
        /\ With(e, Ends) = {} /\ With(e, Closes) = {} /\ With(e, Successes) = {} /\ With(e, Wants) = {}
        /\ \A r \in Request : With(e, AnswersTo(r)) = {}
    BY OneError
  <2>3. Append(session, Http!Line("proxy.error", kind)) = session \o e
    <3>1. Http!Line("proxy.error", kind) \in SessionLine
      BY ErrorLine
    <3> QED  BY <1>2, <3>1, AppendIsConcat
  <2> HIDE DEF e, a, none
  <2>4. session' = session \o ((e \o a) \o none)
    <3>1. e \o a \in Seq(SessionLine)
      BY <1>2, <2>2, ConcatProperties
    <3>2. (session \o e) \o a = session \o (e \o a)
      BY <1>2, <2>2, ConcatAssociative
    <3> QED  BY <1>6, <2>1, <2>3, <3>1, <3>2
  <2> QED  BY <1>1, <1>3, <2>1, <2>2, <2>4, RefusedStep DEF a, Refusal
<1>8. ASSUME NEW kind \in {"http_status_error", "http_connect_failed"},
             Http!RunHttpShutdown("auth_failed", want(kind) \o a), signIn' = "refused"
      PROVE  IInv'
  <2> DEFINE w == want(kind)
  <2>1. /\ w \in Seq(SessionLine)
        /\ With(w, Ends) = {} /\ With(w, Closes) = {} /\ With(w, Successes) = {}
        /\ \A r \in Request : With(w, AnswersTo(r)) = {}
        /\ With(w, Wants) = {2}
    BY <1>4
  <2>2. CASE phase = "open"
    <3>1. /\ session' = (session \o (w \o a)) \o end
          /\ first = "none" /\ first' = "auth_failed" /\ phase' = "closing"
      BY <1>8, <2>2 DEF Http!RunHttpShutdown, IInv, TypeInv
    <3> HIDE DEF a, w, want, end
    <3>2. session' = session \o ((w \o a) \o end)
      <4>1. w \o a \in Seq(SessionLine)
        BY <1>2, <2>1, ConcatProperties
      <4> DEFINE b == w \o a
      <4>2. b \in Seq(SessionLine)
        BY <4>1
      <4> HIDE DEF b
      <4>3. (session \o b) \o end = session \o (b \o end)
        BY <1>2, <1>5, <4>2, ConcatAssociative, SMTT(30)
      <4> QED  BY <3>1, <4>3 DEF b
    <3> QED  BY <1>1, <1>5, <1>8, <2>1, <3>1, <3>2, RefusedStep DEF a, Refusal
  <2>3. CASE phase # "open"
    <3>1. session' = session \o (w \o a) /\ UNCHANGED <<phase, first>>
      BY <1>8, <2>3 DEF Http!RunHttpShutdown
    <3> HIDE DEF a, w, want, none
    <3>2. session' = session \o ((w \o a) \o none)
      <4>1. w \o a \in Seq(SessionLine)
        BY <1>2, <2>1, ConcatProperties
      <4> QED  BY <1>6, <3>1, <4>1
    <3> QED  BY <1>1, <1>3, <1>8, <2>1, <3>1, <3>2, RefusedStep DEF a, Refusal
  <2> QED  BY <2>2, <2>3
<1> QED  BY <1>7, <1>8 DEF Http!SendFails

-----------------------------------------------------------------------------
(* The invariant, and what it says.                                        *)

LEMMA InitInv == Http!Init => IInv
<1> SUFFICES ASSUME Http!Init PROVE IInv
  OBVIOUS
<1> DEFINE line == Http!Line("proxy.http_started", "none")
<1>1. /\ phase = "starting" /\ first = "none" /\ signIn = "fine" /\ told = <<>> /\ session = <<line>>
      /\ sent = [m \in Http!Message |-> IF m \in Reply THEN "unasked" ELSE "unsent"]
  BY DEF Http!Init
<1>2. /\ line \in SessionLine
      /\ line \notin Ends /\ line \notin Closes /\ line \notin Successes /\ line \notin Wants
      /\ \A r \in Request : line \notin AnswersTo(r)
  <2>1. "none" \in Abouts /\ "proxy.http_started" \in Types
    BY DEF Abouts, Types
  <2> QED  BY <2>1, Kinds
<1> HIDE DEF line
<1>3. ASSUME NEW L, line \notin L PROVE With(session, L) = {}
  BY <1>1, <1>3, FewLines
<1>4. /\ With(session, Ends) = {} /\ With(session, Closes) = {} /\ With(session, Successes) = {}
      /\ With(session, Wants) = {}
  BY <1>2, <1>3
<1>5. \A r \in Request : With(session, AnswersTo(r)) = {}
  BY <1>2, <1>3
<1>6. TypeInv
  <2>1. session \in Seq(SessionLine) /\ told \in Seq(Request)
    BY <1>1, <1>2
  <2> QED  BY <1>1, <2>1 DEF TypeInv
<1>7. EndInv
  BY <1>1, <1>4 DEF EndInv
<1>8. AnswerInv
  <2> SUFFICES ASSUME NEW r \in Request
               PROVE  OneIf(Final(sent[r]), With(told, {r})) /\ OneIf(Final(sent[r]), With(session, AnswersTo(r)))
    BY DEF AnswerInv
  <2>1. sent[r] \in {"unasked", "unsent"}
    BY <1>1 DEF Http!Message
  <2>2. With(told, {r}) = {}
    BY <1>1, FewLines
  <2> QED  BY <1>5, <2>1, <2>2 DEF OneIf, Final
<1>9. CauseInv /\ AlertInv
  BY <1>1, <1>4 DEF CauseInv, AlertInv
<1> QED  BY <1>6, <1>7, <1>8, <1>9 DEF IInv

LEMMA NextInv == IInv /\ [Http!Next]_(Http!httpVars) => IInv'
<1> SUFFICES ASSUME IInv, [Http!Next]_(Http!httpVars) PROVE IInv'
  OBVIOUS
<1>1. CASE UNCHANGED Http!httpVars
  <2>1. UNCHANGED <<told, session, first, signIn>> /\ sent' = sent /\ phase' = phase
    BY <1>1 DEF Http!httpVars
  <2>2. TypeInv'
    BY <2>1 DEF IInv, TypeInv, SessionLine, Abouts, Http!Message
  <2>3. \A m \in Http!Message : sent'[m] = sent[m]
    BY <2>1
  <2> QED  BY <2>1, <2>2, <2>3, QuietStep
<1>2. CASE Http!Start \/ Http!TearDownTail \/ Http!Dies
  BY <1>2, StartStep
<1>3. CASE Http!StartFails
  BY <1>3, StartFailsStep
<1>4. CASE Http!StdinEnds
  <2>1. Http!PeerLeaves(PeerOf("parent_closed_stdin"), "parent_closed_stdin")
    BY <1>4 DEF Http!StdinEnds, PeerOf
  <2> QED  BY <2>1, PeerLeavesStep
<1>5. CASE Http!RemoteCloses
  <2>1. Http!PeerLeaves(PeerOf("remote_closed"), "remote_closed")
    BY <1>5 DEF Http!RemoteCloses, PeerOf
  <2> QED  BY <2>1, PeerLeavesStep
<1>6. CASE Http!Signal
  BY <1>6, SignalStep
<1>7. ASSUME NEW m \in Http!Message,
             \/ Http!ClientSends(m) \/ Http!Accepted(m) \/ Http!RemoteAsks(m)
             \/ Http!RemoteAnswers(m) \/ Http!SendFails(m)
      PROVE  IInv'
  BY <1>7, ClientSendsStep, AcceptedStep, RemoteAsksStep, RemoteAnswersStep, SendFailsStep
<1>8. ASSUME NEW kind \in {"http_connect_failed", "unexpected"}, Http!Reports(kind) PROVE IInv'
  BY <1>8, ReportsStep
<1> QED  BY <1>1, <1>2, <1>3, <1>4, <1>5, <1>6, <1>7, <1>8 DEF Http!Next

LEMMA InvHolds == Http!Spec => []IInv
BY InitInv, NextInv, PTL DEF Http!Spec

\* The module is an instance: its Cardinality is that of FiniteSets.
LEMMA SameCardinality == \A S : Http!Cardinality(S) = Cardinality(S)
BY DEF Http!Cardinality, Cardinality

LEMMA OneIfCounts ==
    ASSUME NEW holds \in BOOLEAN, NEW set, OneIf(holds, set)
    PROVE  Http!Cardinality(set) = IF holds THEN 1 ELSE 0
<1>1. CASE holds
  BY <1>1, SameCardinality, FS_Singleton DEF OneIf
<1>2. CASE ~ holds
  BY <1>2, SameCardinality, FS_EmptySet DEF OneIf
<1> QED  BY <1>1, <1>2

\* Where the model's own formulas look for a line.
LEMMA SamePositions ==
    ASSUME TypeInv
    PROVE  /\ Http!Positions({"proxy.shutdown"}) = With(session, Ends)
           /\ Http!Positions({"proxy.http_closed"}) = With(session, Closes)
           /\ \A r \in Request :
                 {i \in Http!Positions({"mcp.response", "mcp.response error"}) : session[i].about = r}
                     = With(session, AnswersTo(r))
<1>1. ASSUME NEW i \in DOMAIN session
      PROVE  /\ session[i] \in SessionLine
             /\ session[i] \in Ends <=> session[i].type = "proxy.shutdown"
             /\ session[i] \in Closes <=> session[i].type = "proxy.http_closed"
             /\ \A r \in Request :
                   session[i] \in AnswersTo(r) <=>
                       session[i].type \in {"mcp.response", "mcp.response error"} /\ session[i].about = r
  <2>1. session[i] \in SessionLine
    BY ElementOfSeq, LenProperties DEF TypeInv
  <2> QED  BY <2>1 DEF SessionLine, Ends, Closes, AnswersTo
<1> QED  BY <1>1 DEF Http!Positions, With

LEMMA InvOneEnd == TypeInv /\ EndInv => Http!OneEnd
<1> SUFFICES ASSUME TypeInv, EndInv PROVE Http!OneEnd
  OBVIOUS
<1> DEFINE ends == Http!Positions({"proxy.shutdown"})
           closed == Http!Positions({"proxy.http_closed"})
           by == [parent_closed_stdin |-> "client", remote_closed |-> "remote"]
<1>1. ends = With(session, Ends) /\ closed = With(session, Closes)
  BY SamePositions
<1>2. /\ DOMAIN by = {"parent_closed_stdin", "remote_closed"}
      /\ by["parent_closed_stdin"] = "client" /\ by["remote_closed"] = "remote"
  OBVIOUS
<1> HIDE DEF ends, closed, by
<1>3. first \in {"none", "start"} => ends \cup closed = {}
  BY <1>1 DEF EndInv
<1>4. ASSUME first \notin {"none", "start"}
      PROVE  /\ \E i \in ends : ends = {i} /\ session[i].about = first
             /\ IF first \in DOMAIN by
                THEN \E i \in closed : closed = {i} /\ session[i].about = by[first] /\ \A j \in ends : i < j
                ELSE closed = {}
  <2>1. PICK i \in DOMAIN session :
           /\ With(session, Ends) = {i} /\ session[i].about = first
           /\ IF first \in {"parent_closed_stdin", "remote_closed"}
              THEN \E c \in DOMAIN session :
                      With(session, Closes) = {c} /\ session[c].about = PeerOf(first) /\ c < i
              ELSE With(session, Closes) = {}
    BY <1>4 DEF EndInv
  <2>2. \E k \in ends : ends = {k} /\ session[k].about = first
    BY <1>1, <2>1
  <2>3. CASE first \in {"parent_closed_stdin", "remote_closed"}
    <3>1. PICK c \in DOMAIN session :
             With(session, Closes) = {c} /\ session[c].about = PeerOf(first) /\ c < i
      BY <2>1, <2>3
    <3>2. PeerOf(first) = by[first]
      BY <1>2, <2>3 DEF PeerOf
    <3>3. c \in closed /\ closed = {c} /\ \A j \in ends : c < j
      BY <1>1, <2>1, <3>1
    <3> QED  BY <1>2, <2>2, <2>3, <3>1, <3>2, <3>3
  <2>4. CASE first \notin {"parent_closed_stdin", "remote_closed"}
    BY <1>1, <1>2, <2>1, <2>2, <2>4
  <2> QED  BY <2>3, <2>4
<1> QED  BY <1>3, <1>4 DEF Http!OneEnd, ends, closed, by

LEMMA InvAnswered == IInv => Http!Answered
<1> SUFFICES ASSUME IInv PROVE Http!Answered
  OBVIOUS
<1> DEFINE answer == [r \in Request |-> {i \in Http!Positions({"mcp.response", "mcp.response error"}) : session[i].about = r}]
           ends == Http!Positions({"proxy.shutdown"})
<1>1. /\ \A r \in Request : answer[r] = With(session, AnswersTo(r))
      /\ ends = With(session, Ends)
  BY SamePositions DEF IInv
<1> HIDE DEF answer, ends
<1>2. ASSUME NEW r \in Request
      PROVE  LET n == Http!Cardinality({i \in DOMAIN told : told[i] = r})
             IN  n <= 1 /\ Http!Cardinality(answer[r]) = n /\ (sent[r] = "refused" => n = 1)
  <2>1. {i \in DOMAIN told : told[i] = r} = With(told, {r})
    BY DEF With
  <2>2. OneIf(Final(sent[r]), With(told, {r})) /\ OneIf(Final(sent[r]), With(session, AnswersTo(r)))
    BY DEF IInv, AnswerInv
  <2>3. Final(sent[r]) \in BOOLEAN
    BY DEF Final
  <2>4. /\ Http!Cardinality(With(told, {r})) = (IF Final(sent[r]) THEN 1 ELSE 0)
        /\ Http!Cardinality(answer[r]) = (IF Final(sent[r]) THEN 1 ELSE 0)
    BY <1>1, <2>2, <2>3, OneIfCounts
  <2> QED  BY <2>1, <2>4 DEF Final
<1>3. ASSUME first = "auth_failed"
      PROVE  \E m \in Http!Message : sent[m] = "refused" /\ (m \in Request => \A i \in answer[m], j \in ends : i < j)
  BY <1>1, <1>3 DEF IInv, CauseInv
<1> QED  BY <1>2, <1>3 DEF Http!Answered, answer, ends

LEMMA InvAlert == TypeInv /\ AlertInv => (Http!Alert <=> signIn = "refused")
<1> SUFFICES ASSUME TypeInv, AlertInv PROVE Http!Alert <=> signIn = "refused"
  OBVIOUS
<1>1. DOMAIN session = 1 .. Len(session) /\ Len(session) \in Nat
  BY LenProperties DEF TypeInv
<1>2. \A j \in DOMAIN session : session[j] \in Successes <=> session[j].type = "mcp.response"
  <2> SUFFICES ASSUME NEW j \in DOMAIN session PROVE session[j] \in Successes <=> session[j].type = "mcp.response"
    OBVIOUS
  <2>1. session[j] \in SessionLine
    BY <1>1, ElementOfSeq DEF TypeInv
  <2> QED  BY <2>1 DEF SessionLine, Successes
<1>3. ASSUME NEW i \in DOMAIN session, session[i] = Http!Line("proxy.error", "oauth_failed")
      PROVE  (\A j \in i .. Len(session) : session[j].type # "mcp.response")
             <=> \A j \in With(session, Successes) : j < i
  <2>1. ASSUME \A j \in i .. Len(session) : session[j].type # "mcp.response",
               NEW j \in With(session, Successes)
        PROVE  j < i
    <3>1. j \in 1 .. Len(session) /\ session[j].type = "mcp.response"
      BY <1>1, <1>2, <2>1 DEF With
    <3> QED  BY <1>1, <2>1, <3>1
  <2>2. ASSUME \A j \in With(session, Successes) : j < i, NEW j \in i .. Len(session)
        PROVE  session[j].type # "mcp.response"
    <3>1. j \in DOMAIN session /\ ~ j < i
      BY <1>1
    <3> QED  BY <1>2, <2>2, <3>1 DEF With
  <2> QED  BY <2>1, <2>2
<1> QED  BY <1>3 DEF Http!Alert, AlertInv, With, Wants

\* What the session's trail tells of its end, of its answers and of the login.
THEOREM EndToldHolds == Http!Spec => []EndTold
<1>1. IInv => EndTold
  BY InvOneEnd, InvAnswered, InvAlert DEF IInv, EndTold, Http!EndTold
<1> QED  BY <1>1, InvHolds, PTL

THEOREM SessionTypeCorrect == Http!Spec => []TypeInv
<1>1. IInv => TypeInv
  BY DEF IInv
<1> QED  BY <1>1, InvHolds, PTL

=============================================================================
