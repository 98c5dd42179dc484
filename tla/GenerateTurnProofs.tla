-------------------------- MODULE GenerateTurnProofs --------------------------
(***************************************************************************)
(* Theorems about GenerateTurn, for any messages, prefixes and tools, and  *)
(* any sequence of turns, retries, failures, registrations and releases.   *)
(***************************************************************************)
EXTENDS GenerateTurn, SequenceTheorems, TLAPS

-----------------------------------------------------------------------------
(* The inductive invariant.                                                *)

Token == (Layouts \cup STRING) \X {1, 2}

Attempts == {"reuse", "reuse again", "dense", "dense again"}

Jobs ==
    [phase : {"generate", "done"}, how : Attempts \cup Modes, message : Messages,
     prefix : Layouts, tools : Toolsets \cup {NoTools},
     before : Seq(Response), cache : Seq(Seq(Token))]

JobInv ==
    job # Idle =>
        /\ job \in Jobs
        /\ job.how \in IF job.phase = "generate" THEN Attempts ELSE Modes

RegistryInv ==
    /\ {pending, cleared, registered} \subseteq BOOLEAN
    /\ stable \in [Messages -> BOOLEAN]
    /\ branches \in [Messages -> SUBSET Branch]
    /\ \A m \in Messages : \A b, c \in branches[m] :
          b.schema = c.schema /\ b.deliverable = c.deliverable => b = c

\* What the rejected attempts of a turn may leave in the list.
Leftovers == {<<>>} \cup {<<Exported("kv_reuse", text)>> : text \in {"broken", "prose"}}

ListInv ==
    /\ responses \in [Messages -> Seq(Response)]
    /\ job # Idle /\ job.phase = "generate" =>
          \E left \in Leftovers :
              /\ responses[job.message] = job.before \o left
              /\ job.how = "reuse" => left = <<>>
    /\ job # Idle /\ job.phase = "done" =>
          \E left \in Leftovers, text \in Texts :
              responses[job.message] = Append(job.before \o left, Exported(job.how, text))

IInv == JobInv /\ RegistryInv /\ ListInv /\ SpliceBehindOwnPrefix

-----------------------------------------------------------------------------
(* The KV of a prompt.                                                     *)

\* A prompt is the tokens of its prefix and then those of its schema.
LEMMA PromptTokens ==
    ASSUME NEW j \in Jobs
    PROVE  /\ PrefixTokens(j.prefix) \in Seq(Token)
           /\ Len(PrefixTokens(j.prefix)) = 2
           /\ SchemaTokens(j.tools) \in Seq(Token)
           /\ Prompt(j) = PrefixTokens(j.prefix) \o SchemaTokens(j.tools)
           /\ Prompt(j) \in Seq(Token)
           /\ Len(Prompt(j)) = 2 + Len(SchemaTokens(j.tools))
<1>1. PrefixTokens(j.prefix) \in Seq(Token) /\ Len(PrefixTokens(j.prefix)) = 2
  BY DEF Jobs, PrefixTokens, Token
<1>2. SchemaTokens(j.tools) \in Seq(Token)
  <2>1. CASE j.tools = NoTools
    BY <2>1 DEF SchemaTokens
  <2>2. CASE j.tools # NoTools
    <3>1. j.tools.schema \in STRING
      BY <2>2, TurnAssumption DEF Jobs
    <3> QED BY <2>2, <3>1 DEF SchemaTokens, Token
  <2> QED BY <2>1, <2>2
<1> DEFINE p == PrefixTokens(j.prefix)
           t == SchemaTokens(j.tools)
<1>3. Prompt(j) = p \o t
  BY DEF Prompt
<1> HIDE DEF p, t
<1>4. p \o t \in Seq(Token) /\ Len(p \o t) = Len(p) + Len(t)
  BY <1>1, <1>2, ConcatProperties DEF p, t
<1> QED BY <1>1, <1>2, <1>3, <1>4 DEF p, t

\* The KV of a part of a prompt: each token behind all those before it.
LEMMA KvIsBehind ==
    ASSUME NEW prompt \in Seq(Token), NEW a \in 1 .. Len(prompt) + 1,
           NEW b \in a - 1 .. Len(prompt)
    PROVE  /\ Kv(prompt, a, b) \in Seq(Seq(Token))
           /\ Len(Kv(prompt, a, b)) = b - a + 1
           /\ \A k \in 1 .. b - a + 1 : IsPrefix(Kv(prompt, a, b)[k], prompt)
<1>1. b - a + 1 \in Nat /\ Len(prompt) \in Nat
  BY LenProperties
<1>2. ASSUME NEW k \in 1 .. b - a + 1
      PROVE  LET s == SubSeq(prompt, 1, a + k - 1)
             IN  s \in Seq(Token) /\ IsPrefix(s, prompt)
  <2> DEFINE n == a + k - 1
             s == SubSeq(prompt, 1, n)
  <2>1. n \in 1 .. Len(prompt)
    BY <1>1
  <2>2. \A i \in 1 .. n : prompt[i] \in Token
    BY <2>1, ElementOfSeq
  <2>3. s \in Seq(Token) /\ Len(s) = n
    <3> HIDE DEF n
    <3> QED BY <2>1, <2>2, SubSeqProperties
  <2>4. SubSeq(s, 1, Len(s)) = s
    BY <2>3, SubSeqFull
  <2> QED BY <2>1, <2>3, <2>4, <1>1 DEF IsPrefix
<1>3. Kv(prompt, a, b) \in [1 .. b - a + 1 -> Seq(Token)]
  BY <1>2 DEF Kv
<1>4. Kv(prompt, a, b) \in Seq(Seq(Token)) /\ Len(Kv(prompt, a, b)) = b - a + 1
  BY <1>1, <1>3
<1> QED BY <1>2, <1>4 DEF Kv

\* A generation decodes from the KV of tokens of its own prompt: a branch is
\* spliced only if it was made behind the same prefix.
LEMMA CacheIsOwn ==
    ASSUME NEW j \in Jobs, NEW b
    PROVE  /\ CacheOf(j, b) \in Seq(Seq(Token))
           /\ \A k \in DOMAIN CacheOf(j, b) : IsPrefix(CacheOf(j, b)[k], Prompt(j))
<1> DEFINE P == Prompt(j)
           L == Len(SchemaTokens(j.tools))
           short == Kv(P, 1, Len(PrefixTokens(j.prefix)) - 1)
<1>1. P \in Seq(Token) /\ Len(P) = 2 + L /\ L \in Nat /\ Len(PrefixTokens(j.prefix)) = 2
  BY PromptTokens, LenProperties
<1>2. /\ short \in Seq(Seq(Token)) /\ Len(short) = 1
      /\ \A k \in 1 .. 1 : IsPrefix(short[k], P)
  <2>1. 1 \in 1 .. Len(P) + 1 /\ 1 \in 1 - 1 .. Len(P)
    BY <1>1
  <2> HIDE DEF P
  <2>2. short = Kv(P, 1, 1)
    BY <1>1
  <2> HIDE DEF short
  <2>3. 1 - 1 + 1 = 1
    OBVIOUS
  <2>4. /\ Kv(P, 1, 1) \in Seq(Seq(Token)) /\ Len(Kv(P, 1, 1)) = 1
        /\ \A k \in 1 .. 1 : IsPrefix(Kv(P, 1, 1)[k], P)
    BY <1>1, <2>1, <2>3, KvIsBehind
  <2> QED BY <2>2, <2>4 DEF P
<1>3. CASE j.tools = NoTools
  BY <1>2, <1>3, LenProperties DEF CacheOf
<1>4. CASE j.tools # NoTools /\ ~(b # NoTools /\ Fits(b, j))
  <2>1. CacheOf(j, b) = Kv(P, 1, Len(P) - 1)
    BY <1>4 DEF CacheOf, Forwarded
  <2>2. 1 \in 1 .. Len(P) + 1 /\ Len(P) - 1 \in 1 - 1 .. Len(P)
    BY <1>1
  <2> HIDE DEF P
  <2>3. /\ Kv(P, 1, Len(P) - 1) \in Seq(Seq(Token))
        /\ Len(Kv(P, 1, Len(P) - 1)) = Len(P) - 1
        /\ \A k \in 1 .. Len(P) - 1 : IsPrefix(Kv(P, 1, Len(P) - 1)[k], P)
    <3> DEFINE last == Len(P) - 1
    <3>1. last - 1 + 1 = last
      BY <1>1
    <3> QED BY <1>1, <2>2, <3>1, KvIsBehind
  <2>4. DOMAIN Kv(P, 1, Len(P) - 1) = 1 .. Len(P) - 1
    BY <2>3, LenProperties
  <2> QED BY <2>1, <2>3, <2>4 DEF P
<1>5. CASE j.tools # NoTools /\ b # NoTools /\ Fits(b, j)
  <2> DEFINE tail == Kv(P, 3, 2 + L)
  <2>1. b.left \o SchemaTokens(j.tools) = P /\ Len(b.left) = 2
    BY <1>1, <1>5 DEF Fits, Prompt
  <2>2. CacheOf(j, b) = short \o tail
    BY <1>5, <2>1, <1>1 DEF CacheOf, Spliced
  <2>3. 3 \in 1 .. Len(P) + 1 /\ 2 + L \in 3 - 1 .. Len(P) /\ (2 + L) - 3 + 1 = L
    BY <1>1
  <2> HIDE DEF P, L
  <2>4. /\ tail \in Seq(Seq(Token)) /\ Len(tail) = L
        /\ \A k \in 1 .. L : IsPrefix(tail[k], P)
    BY <1>1, <2>3, KvIsBehind
  <2> HIDE DEF short, tail
  <2>5. /\ short \o tail \in Seq(Seq(Token))
        /\ Len(short \o tail) = 1 + L
        /\ \A k \in 1 .. 1 + L :
              (short \o tail)[k] = IF k <= 1 THEN short[k] ELSE tail[k - 1]
    <3>1. short \o tail \in Seq(Seq(Token)) /\ Len(short \o tail) = Len(short) + Len(tail)
      BY <1>2, <2>4, ConcatProperties
    <3>2. \A k \in 1 .. Len(short) + Len(tail) :
             (short \o tail)[k] = IF k <= Len(short) THEN short[k] ELSE tail[k - Len(short)]
      BY <1>2, <2>4, ConcatProperties
    <3> QED BY <3>1, <3>2, <1>2, <2>4
  <2>6. DOMAIN (short \o tail) = 1 .. 1 + L
    BY <2>5, LenProperties
  <2>7. ASSUME NEW k \in 1 .. 1 + L
        PROVE  IsPrefix((short \o tail)[k], P)
    <3>1. CASE k <= 1
      BY <3>1, <2>5, <1>2, <1>1
    <3>2. CASE ~(k <= 1)
      <4>1. k - 1 \in 1 .. L
        BY <3>2, <1>1
      <4> QED BY <4>1, <3>2, <2>5, <2>4
    <3> QED BY <3>1, <3>2
  <2> QED BY <2>2, <2>5, <2>6, <2>7 DEF P
<1> QED BY <1>3, <1>4, <1>5

-----------------------------------------------------------------------------
(* The steps.                                                              *)

\* A turn in progress is not idle, and no record of Jobs is.
LEMMA JobPhase ==
    ASSUME NEW j \in Jobs
    PROVE  j # Idle /\ j.phase \in {"generate", "done"}
BY DEF Jobs, Idle

\* There is one branch per schema and deliverable after a Put as before.
LEMMA PoolKeeps ==
    ASSUME RegistryInv, NEW j \in Jobs, NEW mode, NEW text,
           branches' = Pooled(j, mode, text),
           UNCHANGED <<pending, cleared, registered, stable>>
    PROVE  RegistryInv'
<1>1. CASE j.tools # NoTools
  <2>1. j.message \in Messages /\ BranchOf(j) \in Branch
    BY <1>1, TurnAssumption DEF Jobs, BranchOf, Branch
  <2>2. Put(j) \subseteq Branch
    BY <2>1 DEF Put, RegistryInv
  <2>3. \A b, c \in Put(j) :
           b.schema = c.schema /\ b.deliverable = c.deliverable => b = c
    <3>1. BranchOf(j).schema = j.tools.schema /\ BranchOf(j).deliverable = j.tools.deliverable
      BY DEF BranchOf
    <3> QED BY <2>1, <3>1 DEF Put, ExactBranches, RegistryInv
  <2> QED BY <2>1, <2>2, <2>3 DEF Pooled, RegistryInv
<1>2. CASE j.tools = NoTools
  BY <1>2 DEF Pooled, RegistryInv
<1> QED BY <1>1, <1>2

\* An empty list stays empty, another becomes the response of older turns.
LEMMA KeptIsList ==
    ASSUME NEW m \in Messages, responses \in [Messages -> Seq(Response)]
    PROVE  Kept(m) \in [Messages -> Seq(Response)]
<1>1. <<Older>> \in Seq(Response)
  BY DEF Older, Response, Texts, Modes
<1> QED BY <1>1 DEF Kept

\* Popping what was appended gives the list back.
LEMMA AppendFront ==
    ASSUME NEW list \in Seq(Response), NEW r \in Response
    PROVE  Front(Append(list, r)) = list
<1>1. /\ Append(list, r) \in Seq(Response) /\ Len(Append(list, r)) = Len(list) + 1
      /\ \A i \in 1 .. Len(list) : Append(list, r)[i] = list[i]
  BY AppendProperties
<1>2. Len(list) \in Nat
  BY LenProperties
<1>3. Front(Append(list, r)) = SubSeq(Append(list, r), 1, Len(list))
  BY <1>1, <1>2 DEF Front
<1> DEFINE a == Append(list, r)
<1> HIDE DEF a
<1>4. \A i \in 1 .. Len(list) : a[i] \in Response
  BY <1>1, ElementOfSeq DEF a
<1>5. /\ SubSeq(a, 1, Len(list)) \in Seq(Response)
      /\ Len(SubSeq(a, 1, Len(list))) = Len(list)
      /\ \A i \in 1 .. Len(list) : SubSeq(a, 1, Len(list))[i] = a[i]
  <2> DEFINE n == Len(list)
  <2>1. n \in Nat /\ \A i \in 1 .. n : a[i] \in Response
    BY <1>2, <1>4
  <2> HIDE DEF n
  <2> QED BY <2>1, SubSeqProperties DEF n
<1> QED BY <1>1, <1>3, <1>5, SeqEqual DEF a

\* At most one response is left, of a kv_reuse attempt that was no spam.
LEMMA LeftoverIs ==
    ASSUME NEW left \in Leftovers
    PROVE  /\ left \in Seq(Response)
           /\ Len(left) \in {0, 1}
           /\ Len(left) = 1 => left[1].mode = "kv_reuse" /\ left[1].text \in {"broken", "prose"}
<1>1. CASE left = <<>>
  BY <1>1
<1>2. ASSUME NEW text \in {"broken", "prose"}, left = <<Exported("kv_reuse", text)>>
      PROVE  /\ left \in Seq(Response) /\ Len(left) = 1
             /\ left[1].mode = "kv_reuse" /\ left[1].text \in {"broken", "prose"}
  <2>1. /\ Exported("kv_reuse", text) \in Response
        /\ Exported("kv_reuse", text).mode = "kv_reuse" /\ Exported("kv_reuse", text).text = text
    BY DEF Exported, Response, Texts, Modes
  <2> QED BY <1>2, <2>1
<1> QED BY <1>1, <1>2 DEF Leftovers

LEMMA InitHolds == Init => IInv
<1> SUFFICES ASSUME Init PROVE IInv
  OBVIOUS
<1>1. JobInv /\ SpliceBehindOwnPrefix
  BY DEF Init, JobInv, SpliceBehindOwnPrefix
<1>2. RegistryInv
  BY DEF Init, RegistryInv, Unstable
<1>3. ListInv
  BY DEF Init, ListInv
<1> QED BY <1>1, <1>2, <1>3 DEF IInv

\* A turn begins with the list as it is and nothing to decode from.
LEMMA AskKeeps ==
    ASSUME IInv, NEW req \in Requests, Ask(req)
    PROVE  IInv'
<1>1. /\ req.message \in Messages /\ req.prefix \in Layouts
      /\ req.tools \in Toolsets \cup {NoTools}
  BY DEF Requests
<1>2. /\ job' \in Jobs /\ job'.phase = "generate" /\ job'.how \in {"reuse", "dense"}
      /\ job'.message = req.message /\ job'.before = responses[req.message]
      /\ job'.cache = <<>>
  BY <1>1 DEF Ask, IInv, ListInv, Jobs, Attempts
<1>3. JobInv' /\ SpliceBehindOwnPrefix'
  <2>1. DOMAIN job'.cache = {}
    BY <1>2
  <2>2. JobInv'
    BY <1>2 DEF JobInv, Attempts
  <2> QED BY <2>1, <2>2 DEF SpliceBehindOwnPrefix
<1>4. ListInv'
  <2>1. responses' = responses /\ responses[req.message] \in Seq(Response)
    BY <1>1 DEF Ask, IInv, ListInv
  <2>2. responses[req.message] \o <<>> = responses[req.message]
    BY <2>1, ConcatEmptySeq
  <2> QED BY <1>2, <2>1, <2>2 DEF IInv, ListInv, Leftovers
<1> QED BY <1>3, <1>4 DEF Ask, IInv, RegistryInv

\* One attempt: its response is appended; it stays as the last one, or is
\* popped, or is the one that a first kv_reuse attempt leaves.
LEMMA AttemptKeeps ==
    ASSUME IInv, job # Idle, NEW e \in Events, Attempt(e)
    PROVE  IInv'
<1> DEFINE m == job.message
           mode == IF StaysReuse(job, e) THEN "kv_reuse" ELSE "dense_prefill"
           retry == Retry(job, mode, e.text)
           r == Exported(mode, e.text)
           list == Append(responses[m], r)
<1>1. job \in Jobs /\ job.phase = "generate" /\ job.how \in Attempts /\ m \in Messages
  BY DEF IInv, JobInv, Attempt, Jobs
<1>2. mode \in Modes /\ e.text \in Texts /\ r \in Response
  BY DEF Modes, Events, Exported, Response
<1>3. /\ responses[m] \in Seq(Response) /\ list \in Seq(Response)
      /\ list # <<>> /\ Front(list) = responses[m]
  <2>1. responses[m] \in Seq(Response)
    BY <1>1 DEF IInv, ListInv
  <2> QED BY <2>1, <1>2, AppendProperties, AppendFront
<1>4. PICK cache \in Seq(Seq(Token)) :
         /\ \A k \in DOMAIN cache : IsPrefix(cache[k], Prompt(job))
         /\ job' = IF retry = Done
                   THEN [job EXCEPT !.phase = "done", !.how = mode, !.cache = cache]
                   ELSE [job EXCEPT !.how = retry.how, !.cache = cache]
  <2>1. PICK b : job' =
            LET cache == IF mode = "kv_reuse" THEN CacheOf(job, b) ELSE <<>>
            IN  IF retry = Done
                THEN [job EXCEPT !.phase = "done", !.how = mode, !.cache = cache]
                ELSE [job EXCEPT !.how = retry.how, !.cache = cache]
    BY DEF Attempt
  <2> DEFINE c == IF mode = "kv_reuse" THEN CacheOf(job, b) ELSE <<>>
  <2>2. c \in Seq(Seq(Token)) /\ \A k \in DOMAIN c : IsPrefix(c[k], Prompt(job))
    BY <1>1, CacheIsOwn
  <2> QED BY <2>1, <2>2
<1>5. responses' = [responses EXCEPT ![m] = IF retry.pop THEN responses[m] ELSE list]
  BY <1>3 DEF Attempt, Popped, Appended
<1>6. RegistryInv'
  BY <1>1, PoolKeeps DEF IInv, Attempt
<1>7. PICK left \in Leftovers :
         /\ responses[m] = job.before \o left
         /\ job.how = "reuse" => left = <<>>
  BY <1>1 DEF IInv, ListInv
<1> HIDE DEF m, mode, retry, r, list
<1>8. CASE retry = Done
  <2>1. /\ job' \in Jobs /\ job'.phase = "done" /\ job'.how = mode
        /\ job'.cache = cache /\ job'.message = m /\ job'.before = job.before
        /\ Prompt(job') = Prompt(job)
    <3>1. job' = [job EXCEPT !.phase = "done", !.how = mode, !.cache = cache]
      BY <1>4, <1>8
    <3> QED BY <1>1, <1>2, <3>1 DEF m, Jobs, Prompt
  <2>2. responses' = [responses EXCEPT ![m] = list]
    BY <1>5, <1>8 DEF Done
  <2>3. JobInv' /\ SpliceBehindOwnPrefix'
    BY <1>2, <1>4, <2>1 DEF JobInv, SpliceBehindOwnPrefix
  <2>4. ListInv'
    <3>1. responses' \in [Messages -> Seq(Response)] /\ responses'[m] = list
      BY <1>1, <1>3, <2>2 DEF IInv, ListInv
    <3>2. list = Append(job'.before \o left, Exported(job'.how, e.text))
      BY <1>7, <2>1 DEF list, r
    <3> QED BY <1>2, <1>7, <2>1, <3>1, <3>2 DEF ListInv
  <2> QED BY <1>6, <2>3, <2>4 DEF IInv
<1>9. CASE retry # Done
  <2>1. /\ retry.how \in {"reuse again", "dense again", "dense"}
        /\ \/ retry.pop = TRUE
           \/ /\ retry.pop = FALSE /\ job.how = "reuse" /\ mode = "kv_reuse"
              /\ e.text \in {"broken", "prose"}
    BY <1>1, <1>2, <1>9 DEF retry, Retry, RetryDense, RetryReuse, Done, Unusable, Texts, Attempts
  <2>2. /\ job' \in Jobs /\ job'.phase = "generate" /\ job'.how = retry.how
        /\ job'.cache = cache /\ job'.message = m /\ job'.before = job.before
        /\ Prompt(job') = Prompt(job)
    <3>1. job' = [job EXCEPT !.phase = "generate", !.how = retry.how, !.cache = cache]
      BY <1>1, <1>4, <1>9 DEF Jobs
    <3>2. retry.how \in Attempts \cup Modes
      BY <2>1 DEF Attempts
    <3> QED BY <1>1, <3>1, <3>2 DEF m, Jobs, Prompt
  <2>3. JobInv' /\ SpliceBehindOwnPrefix'
    <3>1. JobInv'
      BY <2>1, <2>2 DEF JobInv, Attempts
    <3>2. SpliceBehindOwnPrefix'
      BY <1>4, <2>2 DEF SpliceBehindOwnPrefix
    <3> QED BY <3>1, <3>2
  <2>4. ListInv'
    <3>1. CASE retry.pop = TRUE
      <4>1. responses' \in [Messages -> Seq(Response)] /\ responses'[m] = responses[m]
        BY <1>1, <1>3, <1>5, <3>1 DEF IInv, ListInv
      <4> QED BY <1>7, <2>1, <2>2, <4>1 DEF ListInv
    <3>2. CASE retry.pop = FALSE
      <4>1. responses' \in [Messages -> Seq(Response)] /\ responses'[m] = list
        BY <1>1, <1>3, <1>5, <3>2 DEF IInv, ListInv
      <4>2. left = <<>> /\ r = Exported("kv_reuse", e.text) /\ e.text \in {"broken", "prose"}
        BY <1>7, <2>1, <3>2 DEF r
      <4>3. job.before \in Seq(Response)
        BY <1>1 DEF Jobs
      <4>4. responses[m] = job.before
        BY <1>7, <4>2, <4>3, ConcatEmptySeq
      <4>5. list = job.before \o <<r>>
        BY <1>2, <1>3, <4>4, AppendIsConcat DEF list
      <4>6. <<r>> \in Leftovers
        BY <4>2 DEF Leftovers
      <4> QED BY <2>1, <2>2, <4>1, <4>5, <4>6 DEF ListInv
    <3> QED BY <2>1, <3>1, <3>2
  <2> QED BY <1>6, <2>3, <2>4 DEF IInv
<1> QED BY <1>8, <1>9

\* Between two turns nothing is claimed of the job.
LEMMA IdleKeeps ==
    ASSUME IInv, job' = Idle, responses' \in [Messages -> Seq(Response)], RegistryInv'
    PROVE  IInv'
BY DEF IInv, JobInv, ListInv, SpliceBehindOwnPrefix

LEMMA NextKeeps == IInv /\ [Next]_vars => IInv'
<1> SUFFICES ASSUME IInv, [Next]_vars PROVE IInv'
  OBVIOUS
<1>0. /\ RegistryInv
      /\ responses \in [Messages -> Seq(Response)]
  BY DEF IInv, ListInv
<1>1. ASSUME NEW req \in Requests, Ask(req) PROVE IInv'
  BY <1>1, AskKeeps
<1>2. ASSUME NEW e \in Events, Attempt(e) PROVE IInv'
  <2>1. job # Idle
    BY <1>2 DEF Attempt, Idle
  <2> QED BY <1>2, <2>1, AttemptKeeps
<1>3. ASSUME NEW calls \in BOOLEAN, Finish(calls) PROVE IInv'
  <2>1. job # Idle
    BY <1>3 DEF Finish, Idle
  <2>2. job \in Jobs /\ job.message \in Messages
    BY <2>1 DEF IInv, JobInv, Jobs
  <2>3. responses' \in [Messages -> Seq(Response)]
    BY <1>0, <1>3, <2>2, KeptIsList DEF Finish
  <2>4. Marks(job, calls) \in BOOLEAN
    BY <1>0 DEF Marks, RegistryInv
  <2>5. RegistryInv'
    <3>1. stable' \in [Messages -> BOOLEAN]
      BY <1>0, <1>3, <2>4 DEF Finish, RegistryInv
    <3>2. pending' \in BOOLEAN
      BY <1>0, <1>3, <2>4 DEF Finish, RegistryInv
    <3> QED BY <1>0, <1>3, <3>1, <3>2 DEF Finish, RegistryInv
  <2> QED BY <1>3, <2>3, <2>5, IdleKeeps DEF Finish
<1>4. CASE Fail
  <2>1. job # Idle
    BY <1>4 DEF Fail, Idle
  <2>2. job \in Jobs /\ job.message \in Messages
    BY <2>1 DEF IInv, JobInv, Jobs
  <2>3. responses' \in [Messages -> Seq(Response)]
    BY <1>0, <1>4, <2>2, KeptIsList DEF Fail
  <2>4. RegistryInv'
    <3>1. CASE branches' = Pooled(job, "dense_prefill", "call")
      BY <1>0, <1>4, <2>2, <3>1, PoolKeeps DEF Fail
    <3>2. CASE branches' = branches
      BY <1>0, <1>4, <3>2 DEF Fail, RegistryInv
    <3> QED BY <1>4, <3>1, <3>2 DEF Fail
  <2> QED BY <1>4, <2>3, <2>4, IdleKeeps DEF Fail
<1>5. ASSUME NEW mode \in Modes, NEW another \in BOOLEAN, Register(mode, another)
      PROVE  IInv'
  <2>1. job' = Idle /\ responses' = responses /\ branches' = branches
    BY <1>5 DEF Register
  <2>2. stable' \in [Messages -> BOOLEAN] /\ {pending', cleared', registered'} \subseteq BOOLEAN
    BY <1>0, <1>5 DEF Register, RegistryInv, Unstable
  <2>3. RegistryInv'
    BY <1>0, <2>1, <2>2 DEF RegistryInv
  <2> QED BY <1>0, <2>1, <2>3, IdleKeeps
<1>6. CASE Release
  <2>1. job' = Idle /\ responses' \in [Messages -> Seq(Response)]
    BY <1>6 DEF Release
  <2>2. RegistryInv'
    BY <1>0, <1>6 DEF Release, RegistryInv, Unstable
  <2> QED BY <2>1, <2>2, IdleKeeps
<1>7. CASE UNCHANGED vars
  BY <1>7 DEF vars, IInv, JobInv, RegistryInv, ListInv, SpliceBehindOwnPrefix, Prompt
<1> QED BY <1>1, <1>2, <1>3, <1>4, <1>5, <1>6, <1>7 DEF Next

THEOREM Invariance == Spec => []IInv
<1>1. Init => IInv
  BY InitHolds
<1>2. IInv /\ [Next]_vars => IInv'
  BY NextKeeps
<1> QED BY <1>1, <1>2, PTL DEF Spec

-----------------------------------------------------------------------------
(* The theorems.                                                           *)

\* The registry never has two branches for one schema and deliverable, and a
\* turn that is done has a response, whatever the turns before did
\* (ToolSchemaBranchRegistry.put, agen_kvcomm).
THEOREM TypeCorrect == Spec => []TypeOK
<1>1. IInv => TypeOK
  <2> SUFFICES ASSUME IInv PROVE TypeOK
    OBVIOUS
  <2>1. \A m \in Messages :
           /\ branches[m] \subseteq Branch
           /\ \A k \in DOMAIN responses[m] : responses[m][k] \in Response
    <3> SUFFICES ASSUME NEW m \in Messages
                 PROVE  /\ branches[m] \subseteq Branch
                        /\ \A k \in DOMAIN responses[m] : responses[m][k] \in Response
      OBVIOUS
    <3>1. branches[m] \subseteq Branch /\ responses[m] \in Seq(Response)
      BY DEF IInv, RegistryInv, ListInv
    <3>2. \A k \in DOMAIN responses[m] : responses[m][k] \in Response
      BY <3>1, ElementOfSeq, LenProperties
    <3> QED BY <3>1, <3>2
  <2>2. job.phase \in {"idle", "generate", "done"}
    BY DEF IInv, JobInv, Jobs, Idle
  <2>3. job.phase = "done" => responses[job.message] # <<>>
    <3> SUFFICES ASSUME job.phase = "done" PROVE responses[job.message] # <<>>
      OBVIOUS
    <3>1. job # Idle
      BY DEF Idle
    <3>2. job \in Jobs
      BY <3>1 DEF IInv, JobInv
    <3>3. PICK left \in Leftovers, text \in Texts :
             responses[job.message] = Append(job.before \o left, Exported(job.how, text))
      BY <3>1 DEF IInv, ListInv
    <3>4. job.before \in Seq(Response) /\ left \in Seq(Response)
      BY <3>2, LeftoverIs DEF Jobs
    <3>5. Exported(job.how, text) \in Response
      BY <3>1, <3>2 DEF Exported, Response, IInv, JobInv
    <3> DEFINE both == job.before \o left
               r == Exported(job.how, text)
    <3>6. both \in Seq(Response)
      BY <3>4, ConcatProperties
    <3> HIDE DEF both, r
    <3>7. Append(both, r) # <<>>
      BY <3>5, <3>6, AppendProperties DEF r
    <3> QED BY <3>3, <3>7 DEF both, r
  <2> QED BY <2>1, <2>2, <2>3 DEF TypeOK, IInv, RegistryInv
<1> QED BY <1>1, Invariance, PTL

\* For any number of turns, prefixes and tools, a generation never decodes from
\* the KV of a schema that was computed behind another prefix than its own
\* (_splice_tool_schema_branch and its fingerprint).
THEOREM SplicesFit == Spec => []SpliceBehindOwnPrefix
<1>1. IInv => SpliceBehindOwnPrefix
  BY DEF IInv
<1> QED BY <1>1, Invariance, PTL

\* Whatever attempts were made, the response a turn returns is the last of its
\* list, above at most one rejected kv_reuse response, and the responses of the
\* turns before are all there (generate_for_agent, _drop_last_response).
THEOREM TheReturnedIsLast == Spec => []ReturnedIsLast
<1>1. IInv => ReturnedIsLast
  <2> SUFFICES ASSUME IInv, job.phase = "done" PROVE ReturnedIsLast
    BY DEF ReturnedIsLast
  <2> DEFINE list == responses[job.message]
             before == job.before
             added == SubSeq(list, Len(before) + 1, Len(list))
  <2>1. job # Idle
    BY DEF Idle
  <2>2. job \in Jobs /\ job.how \in Modes
    BY <2>1 DEF IInv, JobInv
  <2>3. PICK left \in Leftovers, text \in Texts :
           list = Append(before \o left, Exported(job.how, text))
    BY <2>1 DEF IInv, ListInv
  <2> DEFINE r == Exported(job.how, text)
  <2>4. /\ before \in Seq(Response) /\ left \in Seq(Response) /\ Len(left) \in {0, 1}
        /\ r \in Response /\ r.mode = job.how
        /\ Len(left) = 1 => left[1].mode = "kv_reuse" /\ left[1].text \in {"broken", "prose"}
    <3>1. r \in Response /\ r.mode = job.how
      BY <2>2 DEF Exported, Response
    <3>2. before \in Seq(Response)
      BY <2>2 DEF Jobs
    <3> QED BY <3>1, <3>2, LeftoverIs
  <2> HIDE DEF list, before, r
  <2> DEFINE both == before \o left
  <2>5. /\ both \in Seq(Response) /\ Len(both) = Len(before) + Len(left)
        /\ \A k \in 1 .. Len(both) :
              both[k] = IF k <= Len(before) THEN before[k] ELSE left[k - Len(before)]
    BY <2>4, ConcatProperties
  <2> HIDE DEF both
  <2>6. /\ list \in Seq(Response) /\ Len(list) = Len(both) + 1
        /\ \A k \in 1 .. Len(both) : list[k] = both[k]
        /\ list[Len(both) + 1] = r
    BY <2>3, <2>4, <2>5, AppendProperties DEF both, r
  <2>7. Len(before) \in Nat /\ Len(left) \in Nat /\ Len(list) = Len(before) + Len(left) + 1
    BY <2>4, <2>5, <2>6, LenProperties
  <2>8. /\ Len(added) = Len(left) + 1
        /\ \A k \in 1 .. Len(left) + 1 : added[k] = list[Len(before) + k]
    <3> DEFINE a == Len(before) + 1
               z == Len(list)
    <3>1. a \in Int /\ z \in Int /\ a <= z /\ z - a + 1 = Len(left) + 1
      BY <2>7
    <3>2. \A k \in a .. z : list[k] \in Response
      BY <2>6, <2>7, ElementOfSeq
    <3>3. \A k \in 1 .. Len(left) + 1 : a + k - 1 = Len(before) + k
      BY <2>7
    <3> HIDE DEF a, z
    <3>4. /\ Len(SubSeq(list, a, z)) = Len(left) + 1
          /\ \A k \in 1 .. Len(left) + 1 : SubSeq(list, a, z)[k] = list[a + k - 1]
      BY <3>1, <3>2, SubSeqProperties
    <3> QED BY <3>3, <3>4 DEF a, z
  <2> HIDE DEF added
  <2>9. IsPrefix(before, list)
    <3> DEFINE n == Len(before)
    <3>1. n \in Nat /\ n <= Len(list) /\ \A k \in 1 .. n : list[k] = before[k]
      BY <2>5, <2>6, <2>7
    <3>2. \A k \in 1 .. n : before[k] \in Response
      BY <2>4, ElementOfSeq
    <3>3. SubSeq(before, 1, n) = before
      BY <2>4, SubSeqFull
    <3> HIDE DEF n
    <3>4. /\ SubSeq(list, 1, n) \in Seq(Response) /\ Len(SubSeq(list, 1, n)) = n
          /\ \A k \in 1 .. n : SubSeq(list, 1, n)[k] = list[k]
      BY <3>1, <3>2, SubSeqProperties
    <3>5. SubSeq(list, 1, n) = before
      BY <2>4, <3>1, <3>4, SeqEqual DEF n
    <3> QED BY <3>1, <3>3, <3>5 DEF IsPrefix, n
  <2>10. Last(added).mode = job.how
    <3>1. added[Len(left) + 1] = list[Len(both) + 1]
      BY <2>5, <2>7, <2>8
    <3> QED BY <2>4, <2>6, <2>8, <3>1 DEF Last
  <2>11. Len(added) \in {1, 2} /\ (Len(added) = 2 => Len(left) = 1)
    <3> DEFINE n == Len(left)
               m == Len(added)
    <3>1. n \in {0, 1} /\ m = n + 1
      BY <2>4, <2>8
    <3> HIDE DEF n, m
    <3>2. m \in {1, 2} /\ (m = 2 => n = 1)
      BY <3>1
    <3> QED BY <3>2 DEF n, m
  <2>12. ASSUME Len(added) = 2
         PROVE  added[1].mode = "kv_reuse" /\ added[1].text \in {"broken", "prose"}
    <3>1. Len(left) = 1
      BY <2>12, <2>11
    <3>2. added[1] = both[Len(before) + 1]
      BY <2>5, <2>6, <2>7, <2>8, <3>1
    <3>3. both[Len(before) + 1] = left[1]
      BY <2>5, <2>7, <3>1
    <3>4. added[1] = left[1]
      BY <3>2, <3>3
    <3> QED BY <2>4, <3>1, <3>4
  <2> QED BY <2>9, <2>10, <2>11, <2>12 DEF ReturnedIsLast, added, before, list
<1> QED BY <1>1, Invariance, PTL

=============================================================================
