------------------------ MODULE HttpRequestProofs -----------------------
(***************************************************************************)
(* What HttpRequest promises of every target, header and credential: the   *)
(* texts are texts, the path is clean, a redirect carries the address it   *)
(* was asked for, and credentials arrive.  Each conversion is a loop over  *)
(* characters, a recursive function of the model; "XRun" says that f is    *)
(* the sequence of its states, and an invariant of the states gives what   *)
(* it returns.                                                             *)
(***************************************************************************)
EXTENDS HttpRequest, TextProofs

(***************************************************************************)
(* _httpd_sanitiseUrl: the states of its three passes ...                  *)
(***************************************************************************)

LEMMA SlashStepType ==
    ASSUME NEW url \in Str, NEW to \in Str, NEW i \in 1..Len(url)
    PROVE  SlashStep(to, url, i) \in Str
<1>1. url[i] \in Char
  BY DEF Str
<1> QED BY <1>1, AppendProperties DEF SlashStep, Str

\* The states of the first pass.
SlashRun(f, url) ==
    /\ f \in [0..Len(url) -> Str]
    /\ f[0] = <<>>
    /\ \A i \in 1..Len(url) : f[i] = SlashStep(f[i - 1], url, i)

LEMMA SlashRuns ==
    ASSUME NEW url \in Str
    PROVE  \E f : SlashRun(f, url) /\ OneSlash(url) = f[Len(url)]
<1> DEFINE N == Len(url)
           V == Str
           b == <<>>
           Rec(f) == f = [i \in 0..N |-> IF i = 0 THEN b ELSE SlashStep(f[i - 1], url, i)]
           h == CHOOSE f : Rec(f)
           g == [p \in V \X (1..N) |-> SlashStep(p[1], url, p[2])]
<1>1. N \in Nat /\ b \in V /\ g \in Steps(N, V)
  BY SlashStepType DEF Steps, Str
<1>2. PICK f : Iterates(f, N, V, b, g)
  <2> HIDE DEF N, V, b, g
  <2> QED BY <1>1, RecursionExists
<1>3. /\ f \in [0..N -> V] /\ f[0] = b
      /\ \A i \in 1..N : f[i] = SlashStep(f[i - 1], url, i)
  <2>1. \A v \in V, i \in 1..N : g[<<v, i>>] = SlashStep(v, url, i)
    OBVIOUS
  <2>2. \A i \in 1..N : i - 1 \in 0..N
    BY <1>1
  <2> HIDE DEF N, V, b, g
  <2> QED BY <1>2, <2>1, <2>2 DEF Iterates
<1> HIDE DEF N, V, b
<1>4. Rec(f)
  <2>1. ASSUME NEW i \in 0..N PROVE f[i] = IF i = 0 THEN b ELSE SlashStep(f[i - 1], url, i)
    <3>1. i # 0 => i \in 1..N
      BY <1>1
    <3> QED BY <1>3, <3>1
  <2> QED BY <1>3, <2>1
<1>5. Rec(h)
  BY <1>4
<1>6. OneSlash(url) = h[N]
  BY DEF OneSlash, N, b
<1>7. h[N] = f[N]
  <2> HIDE DEF h
  <2>1. SameSteps(h, f, N)
    BY <1>1, <1>4, <1>5 DEF SameSteps
  <2> QED BY <1>1, <2>1, SameStepsAgree
<1>8. SlashRun(f, url)
  BY <1>3 DEF SlashRun, N, V, b
<1> HIDE DEF h
<1> QED BY <1>6, <1>7, <1>8 DEF N

DotState == [to : Str, skip : 0..1]

LEMMA DotStepType ==
    ASSUME NEW url \in Str, NEW st \in DotState, NEW i \in 1..Len(url)
    PROVE  DotStep(st, url, i) \in DotState
<1>1. Append(st.to, url[i]) \in Str
  BY AppendProperties DEF Str, DotState
<1>2. CASE st.skip > 0
  BY <1>2 DEF DotStep, DotState
<1>3. CASE ~(st.skip > 0) /\ IsDot(url, i)
  BY <1>3 DEF DotStep, DotState
<1>4. CASE ~(st.skip > 0) /\ ~IsDot(url, i)
  <2> DEFINE more == Append(st.to, url[i])
  <2>1. DotStep(st, url, i) = [st EXCEPT !.to = more] /\ more \in Str
    BY <1>1, <1>4 DEF DotStep
  <2> HIDE DEF more
  <2> QED BY <2>1 DEF DotState
<1> QED BY <1>2, <1>3, <1>4

\* The states of the second.
DotRun(f, url) ==
    /\ f \in [0..Len(url) -> DotState]
    /\ f[0] = [to |-> <<>>, skip |-> 0]
    /\ \A i \in 1..Len(url) : f[i] = DotStep(f[i - 1], url, i)

LEMMA DotRuns ==
    ASSUME NEW url \in Str
    PROVE  \E f : DotRun(f, url) /\ NoDots(url) = f[Len(url)].to
<1> DEFINE N == Len(url)
           V == DotState
           b == [to |-> <<>>, skip |-> 0]
           Rec(f) == f = [i \in 0..N |-> IF i = 0 THEN b ELSE DotStep(f[i - 1], url, i)]
           h == CHOOSE f : Rec(f)
           g == [p \in V \X (1..N) |-> DotStep(p[1], url, p[2])]
<1>1. N \in Nat /\ b \in V /\ g \in Steps(N, V)
  BY DotStepType DEF Steps, DotState, Str
<1>2. PICK f : Iterates(f, N, V, b, g)
  <2> HIDE DEF N, V, b, g
  <2> QED BY <1>1, RecursionExists
<1>3. /\ f \in [0..N -> V] /\ f[0] = b
      /\ \A i \in 1..N : f[i] = DotStep(f[i - 1], url, i)
  <2>1. \A v \in V, i \in 1..N : g[<<v, i>>] = DotStep(v, url, i)
    OBVIOUS
  <2>2. \A i \in 1..N : i - 1 \in 0..N
    BY <1>1
  <2> HIDE DEF N, V, b, g
  <2> QED BY <1>2, <2>1, <2>2 DEF Iterates
<1> HIDE DEF N, V, b
<1>4. Rec(f)
  <2>1. ASSUME NEW i \in 0..N PROVE f[i] = IF i = 0 THEN b ELSE DotStep(f[i - 1], url, i)
    <3>1. i # 0 => i \in 1..N
      BY <1>1
    <3> QED BY <1>3, <3>1
  <2> QED BY <1>3, <2>1
<1>5. Rec(h)
  BY <1>4
<1>6. NoDots(url) = h[N].to
  BY DEF NoDots, N, b
<1>7. h[N] = f[N]
  <2> HIDE DEF h
  <2>1. SameSteps(h, f, N)
    BY <1>1, <1>4, <1>5 DEF SameSteps
  <2> QED BY <1>1, <2>1, SameStepsAgree
<1>8. DotRun(f, url)
  BY <1>3 DEF DotRun, N, V, b
<1> HIDE DEF h
<1> QED BY <1>6, <1>7, <1>8 DEF N

ClimbState == {st \in [to : Str, last : Nat, skip : 0..2] : st.last <= Len(st.to)}

LEMMA ClimbStepType ==
    ASSUME NEW url \in Str, NEW st \in ClimbState, NEW i \in 1..Len(url)
    PROVE  ClimbStep(st, url, i) \in ClimbState
<1> DEFINE more == Append(st.to, url[i])
           less == SubSeq(st.to, 1, st.last)
<1>1. st.to \in Str /\ st.last \in Nat /\ st.last <= Len(st.to) /\ Len(st.to) \in Nat
  BY DEF ClimbState, Str
<1>2. more \in Str /\ Len(more) = Len(st.to) + 1
  BY <1>1, AppendProperties DEF Str
<1>3. less \in Str /\ Len(less) = st.last
  <2>1. \A k \in 1..st.last : st.to[k] \in Char
    BY <1>1 DEF Str
  <2> QED BY <1>1, <2>1, SubSeqProperties DEF Str
<1> HIDE DEF more, less
<1>4. CASE st.skip > 0
  BY <1>4 DEF ClimbStep, ClimbState
<1>5. CASE ~(st.skip > 0) /\ IsClimb(url, i)
  <2>1. ClimbStep(st, url, i) = [to |-> less, skip |-> 2, last |-> st.last]
    BY <1>5 DEF ClimbStep, less
  <2> QED BY <1>1, <1>3, <2>1 DEF ClimbState
<1>6. CASE ~(st.skip > 0) /\ ~IsClimb(url, i)
  <2>1. ClimbStep(st, url, i) = [to |-> more, skip |-> 0,
                                 last |-> IF url[i] = Slash THEN Len(st.to) ELSE st.last]
    BY <1>6 DEF ClimbStep, more
  <2> QED BY <1>1, <1>2, <2>1 DEF ClimbState
<1> QED BY <1>4, <1>5, <1>6

\* The states of the third.
ClimbRun(f, url) ==
    /\ f \in [0..Len(url) -> ClimbState]
    /\ f[0] = [to |-> <<>>, last |-> 0, skip |-> 0]
    /\ \A i \in 1..Len(url) : f[i] = ClimbStep(f[i - 1], url, i)

LEMMA ClimbRuns ==
    ASSUME NEW url \in Str
    PROVE  \E f : ClimbRun(f, url) /\ NoClimbs(url) = f[Len(url)].to
<1> DEFINE N == Len(url)
           V == ClimbState
           b == [to |-> <<>>, last |-> 0, skip |-> 0]
           Rec(f) == f = [i \in 0..N |-> IF i = 0 THEN b ELSE ClimbStep(f[i - 1], url, i)]
           h == CHOOSE f : Rec(f)
           g == [p \in V \X (1..N) |-> ClimbStep(p[1], url, p[2])]
<1>1. N \in Nat /\ b \in V /\ g \in Steps(N, V)
  BY ClimbStepType DEF Steps, ClimbState, Str
<1>2. PICK f : Iterates(f, N, V, b, g)
  <2> HIDE DEF N, V, b, g
  <2> QED BY <1>1, RecursionExists
<1>3. /\ f \in [0..N -> V] /\ f[0] = b
      /\ \A i \in 1..N : f[i] = ClimbStep(f[i - 1], url, i)
  <2>1. \A v \in V, i \in 1..N : g[<<v, i>>] = ClimbStep(v, url, i)
    OBVIOUS
  <2>2. \A i \in 1..N : i - 1 \in 0..N
    BY <1>1
  <2> HIDE DEF N, V, b, g
  <2> QED BY <1>2, <2>1, <2>2 DEF Iterates
<1> HIDE DEF N, V, b
<1>4. Rec(f)
  <2>1. ASSUME NEW i \in 0..N PROVE f[i] = IF i = 0 THEN b ELSE ClimbStep(f[i - 1], url, i)
    <3>1. i # 0 => i \in 1..N
      BY <1>1
    <3> QED BY <1>3, <3>1
  <2> QED BY <1>3, <2>1
<1>5. Rec(h)
  BY <1>4
<1>6. NoClimbs(url) = h[N].to
  BY DEF NoClimbs, N, b
<1>7. h[N] = f[N]
  <2> HIDE DEF h
  <2>1. SameSteps(h, f, N)
    BY <1>1, <1>4, <1>5 DEF SameSteps
  <2> QED BY <1>1, <2>1, SameStepsAgree
<1>8. ClimbRun(f, url)
  BY <1>3 DEF ClimbRun, N, V, b
<1> HIDE DEF h
<1> QED BY <1>6, <1>7, <1>8 DEF N

(***************************************************************************)
(* ... and what each of them leaves behind, whatever the earlier ones put  *)
(* together.                                                               *)
(***************************************************************************)

\* The three sequences, at their places.
NoPair(s)  == \A k \in 1..Len(s) : ~(s[k] = Slash /\ At(s, k + 1) = Slash)
NoDotted(s)  == \A k \in 1..Len(s) : ~IsDot(s, k)
NoDouble(s) == \A k \in 1..Len(s) : ~IsClimb(s, k)

\* The first pass.
SlashInv(to, url, i) ==
    /\ NoPair(to)
    /\ Len(to) > 0 /\ to[Len(to)] = Slash => At(url, i + 1) # Slash

LEMMA SlashStepKeeps ==
    ASSUME NEW url \in Str, NEW i \in 1..Len(url), NEW to \in Str, SlashInv(to, url, i - 1)
    PROVE  SlashInv(SlashStep(to, url, i), url, i)
<1> DEFINE ch == url[i]
           more == Append(to, ch)
<1>1. /\ ch \in Char /\ At(url, i) = ch /\ i \in Nat /\ (i - 1) + 1 = i
  BY AtText
<1>2. NoPair(to) /\ (Len(to) > 0 /\ to[Len(to)] = Slash => ch # Slash)
  BY <1>1 DEF SlashInv
<1>3. CASE ch = Slash /\ At(url, i + 1) = Slash
  <2>1. SlashStep(to, url, i) = to
    BY <1>3 DEF SlashStep
  <2> QED BY <1>2, <1>3, <2>1 DEF SlashInv
<1>4. CASE ~(ch = Slash /\ At(url, i + 1) = Slash)
  <2>1. SlashStep(to, url, i) = more
    BY <1>4 DEF SlashStep
  <2>2. /\ Len(to) \in Nat /\ Len(more) = Len(to) + 1 /\ more[Len(to) + 1] = ch
        /\ \A k \in 1..Len(to) : more[k] = to[k]
        /\ \A k \in Int : At(more, k) = IF k = Len(to) + 1 THEN ch ELSE At(to, k)
    <3> HIDE DEF ch
    <3> QED BY <1>1, AtAppend
  <2>3. At(more, Len(to) + 2) # Slash /\ Slash # NUL
    BY <2>2 DEF At, Slash, NUL, Str
  <2> HIDE DEF more
  <2>4. NoPair(more)
    BY <1>2, <2>2, <2>3 DEF NoPair
  <2> QED BY <1>4, <2>1, <2>2, <2>4 DEF SlashInv
<1> QED BY <1>3, <1>4

LEMMA OneSlashClean ==
    ASSUME NEW url \in Str
    PROVE  OneSlash(url) \in Str /\ NoPair(OneSlash(url))
<1> DEFINE N == Len(url)
<1>1. PICK f : SlashRun(f, url) /\ OneSlash(url) = f[N]
  BY SlashRuns
<1>2. N \in Nat /\ f \in [0..N -> Str] /\ f[0] = <<>>
      /\ \A i \in 1..N : f[i] = SlashStep(f[i - 1], url, i)
  BY <1>1 DEF SlashRun, Str
<1> DEFINE T == {i \in 0..N : SlashInv(f[i], url, i)}
<1>3. 0 \in T
  <2>1. SlashInv(<<>>, url, 0)
    BY DEF SlashInv, NoPair
  <2>2. SlashInv(f[0], url, 0)
    BY <1>2, <2>1, Zenon
  <2> QED BY <1>2, <2>2
<1>4. ASSUME NEW i \in 0..N, i < N, i \in T PROVE i + 1 \in T
  <2>1. i + 1 \in 1..N /\ (i + 1) - 1 = i /\ f[i] \in Str /\ i + 1 \in 0..N
    BY <1>2, <1>4
  <2>2. SlashInv(SlashStep(f[i], url, i + 1), url, i + 1)
    BY <1>4, <2>1, SlashStepKeeps
  <2>3. f[i + 1] = SlashStep(f[i], url, i + 1)
    BY <1>2, <2>1
  <2> QED BY <2>1, <2>2, <2>3
<1>5. N \in T
  <2> HIDE DEF T
  <2>1. 0..N \subseteq T
    BY <1>2, <1>3, <1>4, SetInduction
  <2> QED BY <1>2, <2>1
<1> QED BY <1>1, <1>2, <1>5 DEF SlashInv

\* The second pass.
DotInv(st, url, i) ==
    LET to == st.to
        n  == Len(to)
    IN  /\ NoPair(to) /\ NoDotted(to)
        /\ n > 0 /\ to[n] = Slash =>
              st.skip = 0 /\ i > 0 /\ url[i] = Slash /\ ~IsDot(url, i)
        /\ n > 1 /\ to[n - 1] = Slash /\ to[n] = Dot => st.skip = 0 /\ At(url, i + 1) # Slash

LEMMA DotStepKeeps ==
    ASSUME NEW url \in Str, NoPair(url), NEW i \in 1..Len(url), NEW st \in DotState,
           DotInv(st, url, i - 1)
    PROVE  DotInv(DotStep(st, url, i), url, i)
<1> DEFINE to == st.to
           n == Len(to)
           ch == url[i]
           more == Append(to, ch)
<1>1. /\ ch \in Char /\ At(url, i) = ch /\ i \in Nat /\ (i - 1) + 1 = i /\ to \in Str /\ n \in Nat
      /\ st.skip \in {0, 1} /\ i \in 1..Len(url)
  BY AtText DEF DotState
<1>2. /\ NoPair(to) /\ NoDotted(to)
      /\ n > 0 /\ to[n] = Slash =>
              st.skip = 0 /\ i - 1 > 0 /\ url[i - 1] = Slash /\ ~IsDot(url, i - 1)
      /\ n > 1 /\ to[n - 1] = Slash /\ to[n] = Dot => st.skip = 0 /\ ch # Slash
  BY <1>1 DEF DotInv
<1>3. n > 0 /\ to[n] = Slash => ch # Slash
  <2>1. i - 1 > 0 => i - 1 \in 1..Len(url)
    BY <1>1
  <2> QED BY <1>1, <1>2, <2>1 DEF NoPair
<1>4. CASE st.skip > 0
  <2>1. DotStep(st, url, i).to = to
    BY <1>4 DEF DotStep, DotState
  <2>2. ~(n > 0 /\ to[n] = Slash) /\ ~(n > 1 /\ to[n - 1] = Slash /\ to[n] = Dot)
    BY <1>2, <1>4
  <2> HIDE DEF to
  <2> QED BY <1>2, <2>1, <2>2 DEF DotInv
<1>5. CASE ~(st.skip > 0) /\ IsDot(url, i)
  <2>1. DotStep(st, url, i).to = to
    BY <1>5 DEF DotStep, DotState
  <2>2. ch = Slash
    BY <1>5 DEF IsDot
  <2>3. ~(n > 0 /\ to[n] = Slash) /\ ~(n > 1 /\ to[n - 1] = Slash /\ to[n] = Dot)
    BY <1>2, <1>3, <2>2
  <2> HIDE DEF to
  <2> QED BY <1>2, <2>1, <2>3 DEF DotInv
<1>6. CASE ~(st.skip > 0) /\ ~IsDot(url, i)
  <2>1. DotStep(st, url, i).to = more /\ DotStep(st, url, i).skip = 0
    <3>1. DotStep(st, url, i) = [st EXCEPT !.to = more]
      BY <1>6 DEF DotStep
    <3> HIDE DEF more
    <3> QED BY <1>1, <1>6, <3>1 DEF DotState
  <2>2. /\ Len(more) = n + 1 /\ more[n + 1] = ch
        /\ \A k \in 1..n : more[k] = to[k]
        /\ \A k \in Int : At(more, k) = IF k = n + 1 THEN ch ELSE At(to, k)
        /\ \A k \in Int : k > n => At(to, k) = NUL
        /\ \A k \in 1..n : At(to, k) = to[k]
    <3>1. \A k \in Int : k > n => At(to, k) = NUL
      BY <1>1 DEF At, Str
    <3> QED BY <1>1, <3>1, AtAppend, AtText
  <2> HIDE DEF more, to
  <2>3. NoPair(more)
    BY <1>1, <1>2, <1>3, <2>2 DEF NoPair, NUL, Slash
  <2>4. NoDotted(more)
    <3> SUFFICES ASSUME NEW k \in 1..n + 1, IsDot(more, k) PROVE FALSE
      BY <2>2 DEF NoDotted
    <3>1. more[k] = Slash /\ At(more, k + 1) = Dot /\ At(more, k + 2) = Slash
      BY DEF IsDot
    <3>2. k + 2 <= n + 1
      BY <1>1, <2>2, <3>1 DEF NUL, Slash, Dot
    <3>3. CASE k + 2 = n + 1
      BY <1>1, <1>2, <2>2, <3>1, <3>3
    <3>4. CASE k + 2 < n + 1
      BY <1>1, <1>2, <2>2, <3>1, <3>4, SMTT(60) DEF NoDotted, IsDot
    <3> QED BY <1>1, <3>2, <3>3, <3>4
  <2>5. more[n + 1] = Slash => i > 0 /\ url[i] = Slash /\ ~IsDot(url, i)
    BY <1>1, <1>6, <2>2
  <2>6. n + 1 > 1 /\ more[(n + 1) - 1] = Slash /\ more[n + 1] = Dot => At(url, i + 1) # Slash
    <3> SUFFICES ASSUME n > 0, to[n] = Slash, ch = Dot, At(url, i + 1) = Slash PROVE FALSE
      BY <1>1, <2>2
    <3>1. i - 1 > 0 /\ url[i - 1] = Slash /\ ~IsDot(url, i - 1)
      BY <1>2
    <3>2. (i - 1) + 1 = i /\ (i - 1) + 2 = i + 1
      BY <1>1
    <3> QED BY <1>1, <3>1, <3>2 DEF IsDot
  <2> QED BY <1>1, <2>1, <2>2, <2>3, <2>4, <2>5, <2>6 DEF DotInv
<1> QED BY <1>4, <1>5, <1>6

LEMMA NoDotsClean ==
    ASSUME NEW url \in Str, NoPair(url)
    PROVE  NoDots(url) \in Str /\ NoPair(NoDots(url)) /\ NoDotted(NoDots(url))
<1> DEFINE N == Len(url)
<1>1. PICK f : DotRun(f, url) /\ NoDots(url) = f[N].to
  BY DotRuns
<1>2. N \in Nat /\ f \in [0..N -> DotState] /\ f[0] = [to |-> <<>>, skip |-> 0]
      /\ \A i \in 1..N : f[i] = DotStep(f[i - 1], url, i)
  BY <1>1 DEF DotRun, Str
<1> DEFINE T == {i \in 0..N : DotInv(f[i], url, i)}
<1>3. 0 \in T
  <2>1. DotInv([to |-> <<>>, skip |-> 0], url, 0)
    BY DEF DotInv, NoPair, NoDotted
  <2> QED BY <1>2, <2>1
<1>4. ASSUME NEW i \in 0..N, i < N, i \in T PROVE i + 1 \in T
  <2>1. i + 1 \in 1..N /\ (i + 1) - 1 = i /\ f[i] \in DotState /\ i + 1 \in 0..N
    BY <1>2, <1>4
  <2>2. DotInv(DotStep(f[i], url, i + 1), url, i + 1)
    BY <1>4, <2>1, DotStepKeeps
  <2>3. f[i + 1] = DotStep(f[i], url, i + 1)
    BY <1>2, <2>1
  <2> QED BY <2>1, <2>2, <2>3
<1>5. N \in T
  <2> HIDE DEF T
  <2>1. 0..N \subseteq T
    BY <1>2, <1>3, <1>4, SetInduction
  <2> QED BY <1>2, <2>1
<1>6. f[N] \in DotState
  BY <1>2
<1> QED BY <1>1, <1>5, <1>6 DEF DotInv, DotState

\* The third pass.
Clean(s) == NoPair(s) /\ NoDotted(s) /\ NoDouble(s)

\* A slash may follow the first n characters.
Open(s, n) ==
    /\ n > 0 => s[n] # Slash
    /\ n > 1 => ~(s[n - 1] = Slash /\ s[n] = Dot)
    /\ n > 2 => ~(s[n - 2] = Slash /\ s[n - 1] = Dot /\ s[n] = Dot)

\* The text has been cut back, and a slash or a further cut follows.
Cut(st, url, i) ==
    /\ Len(st.to) = st.last
    /\ \/ st.skip = 2 /\ IsClimb(url, i)
       \/ st.skip = 1 /\ i > 0 /\ IsClimb(url, i - 1)
       \/ st.skip = 0 /\ (i = 0 \/ At(url, i + 1) = Slash)
    /\ i = 0 => st.last = 0

\* The text ends with characters that were read one after the other.
Copied(st, url, i) ==
    LET to == st.to
        n  == Len(to)
    IN  /\ st.skip = 0 /\ n > 0 /\ i > 0 /\ to[n] = url[i]
        /\ to[n] = Slash => ~IsClimb(url, i)
        /\ n > 1 /\ to[n - 1] = Slash /\ to[n] = Dot =>
              i > 1 /\ url[i - 1] = Slash /\ ~IsClimb(url, i - 1)
        /\ n > 2 /\ to[n - 2] = Slash /\ to[n - 1] = Dot /\ to[n] = Dot =>
              i > 2 /\ url[i - 2] = Slash /\ url[i - 1] = Dot /\ ~IsClimb(url, i - 2)

ClimbInv(st, url, i) ==
    /\ Clean(st.to)
    /\ Open(st.to, st.last)
    /\ Cut(st, url, i) \/ Copied(st, url, i)

\* What is clean stays so when it is cut, or when it grows by a character that
\* may follow.
LEMMA CleanPrefix ==
    ASSUME NEW s \in Str, Clean(s), NEW n \in 0..Len(s)
    PROVE  /\ SubSeq(s, 1, n) \in Str /\ Len(SubSeq(s, 1, n)) = n
           /\ \A k \in 1..n : SubSeq(s, 1, n)[k] = s[k]
           /\ Clean(SubSeq(s, 1, n))
<1> DEFINE t == SubSeq(s, 1, n)
<1>1. Len(s) \in Nat /\ n \in Nat /\ n <= Len(s) /\ \A k \in 1..n : s[k] \in Char
  BY DEF Str
<1>2. /\ t \in Str /\ Len(t) = n /\ \A k \in 1..n : t[k] = s[k]
  BY <1>1, SubSeqProperties DEF Str
<1> HIDE DEF t
<1>3. \A k \in Int : At(t, k) = IF k \in 1..n THEN At(s, k) ELSE NUL
  <2>1. DOMAIN t = 1..n /\ DOMAIN s = 1..Len(s)
    BY <1>2 DEF Str
  <2> QED BY <1>1, <1>2, <2>1 DEF At
<1>4. \A k \in 1..n : k \in 1..Len(s)
  BY <1>1
<1>5. NUL # Slash /\ NUL # Dot
  BY DEF NUL, Slash, Dot
<1>6. \A k \in Int : At(t, k) # NUL => At(t, k) = At(s, k)
  BY <1>3
<1>7. NoPair(t)
  BY <1>1, <1>2, <1>4, <1>5, <1>6 DEF NoPair, Clean
<1>8. NoDotted(t)
  <2> SUFFICES ASSUME NEW k \in 1..n, IsDot(t, k) PROVE FALSE
    BY <1>2 DEF NoDotted
  <2>1. IsDot(s, k)
    BY <1>1, <1>2, <1>5, <1>6 DEF IsDot
  <2> QED BY <1>4, <2>1 DEF NoDotted, Clean
<1>9. NoDouble(t)
  <2> SUFFICES ASSUME NEW k \in 1..n, IsClimb(t, k) PROVE FALSE
    BY <1>2 DEF NoDouble
  <2>1. IsClimb(s, k)
    BY <1>1, <1>2, <1>5, <1>6 DEF IsClimb
  <2> QED BY <1>4, <2>1 DEF NoDouble, Clean
<1> QED BY <1>2, <1>7, <1>8, <1>9 DEF Clean, t

LEMMA CleanAppend ==
    ASSUME NEW s \in Str, Clean(s), NEW ch \in Char, ch = Slash => Open(s, Len(s))
    PROVE  Clean(Append(s, ch))
<1> DEFINE t == Append(s, ch)
           n == Len(s)
<1>1. /\ n \in Nat /\ Len(t) = n + 1 /\ t[n + 1] = ch
      /\ \A k \in 1..n : t[k] = s[k] /\ At(s, k) = s[k]
      /\ \A k \in Int : At(t, k) = IF k = n + 1 THEN ch ELSE At(s, k)
  BY AtAppend, AtText
<1>2. \A k \in Int : k > n => At(s, k) = NUL
  BY <1>1, AtText
<1>3. NUL # Slash /\ NUL # Dot /\ Slash # Dot
  BY DEF NUL, Slash, Dot
<1> HIDE DEF t, n
<1>4. \A k \in Int : k > n + 1 => At(t, k) = NUL
  BY <1>1, <1>2
<1>5. ch = Slash => Open(s, n)
  BY DEF n
<1>6. NoPair(t)
  <2> SUFFICES ASSUME NEW k \in 1..n + 1, t[k] = Slash, At(t, k + 1) = Slash PROVE FALSE
    BY <1>1 DEF NoPair
  <2>1. k + 1 <= n + 1 /\ k \in 1..n
    BY <1>1, <1>3, <1>4
  <2>2. CASE k = n
    BY <1>1, <1>5, <2>1, <2>2 DEF Open
  <2>3. CASE k # n
    BY <1>1, <2>1, <2>3 DEF Clean, NoPair, n
  <2> QED BY <2>2, <2>3
<1>7. NoDotted(t)
  <2> SUFFICES ASSUME NEW k \in 1..n + 1, IsDot(t, k) PROVE FALSE
    BY <1>1 DEF NoDotted
  <2>1. t[k] = Slash /\ At(t, k + 1) = Dot /\ At(t, k + 2) = Slash
    BY DEF IsDot
  <2>2. k + 2 <= n + 1 /\ k \in 1..n
    BY <1>1, <1>3, <1>4, <2>1
  <2>3. CASE k + 2 = n + 1
    <3>1. n > 1 /\ k = n - 1 /\ k + 1 = n /\ k \in 1..n /\ n \in 1..n
      BY <1>1, <2>2, <2>3
    <3>2. ch = Slash /\ s[n] = Dot /\ s[n - 1] = Slash
      BY <1>1, <2>1, <2>3, <3>1
    <3> QED BY <1>5, <3>1, <3>2 DEF Open
  <2>4. CASE k + 2 # n + 1
    <3>1. IsDot(s, k)
      BY <1>1, <2>1, <2>2, <2>4 DEF IsDot
    <3> QED BY <2>2, <3>1 DEF Clean, NoDotted, n
  <2> QED BY <2>3, <2>4
<1>8. NoDouble(t)
  <2> SUFFICES ASSUME NEW k \in 1..n + 1, IsClimb(t, k) PROVE FALSE
    BY <1>1 DEF NoDouble
  <2>1. t[k] = Slash /\ At(t, k + 1) = Dot /\ At(t, k + 2) = Dot /\ At(t, k + 3) = Slash
    BY DEF IsClimb
  <2>2. k + 3 <= n + 1 /\ k \in 1..n
    BY <1>1, <1>3, <1>4, <2>1
  <2>3. CASE k + 3 = n + 1
    <3>1. n > 2 /\ k = n - 2 /\ k + 1 = n - 1 /\ k + 2 = n /\ n - 1 \in 1..n /\ n \in 1..n
      BY <1>1, <2>2, <2>3
    <3>2. ch = Slash /\ s[n] = Dot /\ s[n - 1] = Dot /\ s[n - 2] = Slash
      BY <1>1, <2>1, <2>2, <2>3, <3>1
    <3> QED BY <1>5, <3>1, <3>2 DEF Open
  <2>4. CASE k + 3 # n + 1
    <3>1. IsClimb(s, k)
      BY <1>1, <2>1, <2>2, <2>4 DEF IsClimb
    <3> QED BY <2>2, <3>1 DEF Clean, NoDouble, n
  <2> QED BY <2>3, <2>4
<1> QED BY <1>6, <1>7, <1>8 DEF Clean, t

LEMMA OpenKept ==
    ASSUME NEW n \in Nat, NEW m \in 0..n, NEW s, NEW t, Open(s, m), \A k \in 1..n : t[k] = s[k]
    PROVE  Open(t, m)
<1>1. /\ m > 0 => m \in 1..n
      /\ m > 1 => m - 1 \in 1..n
      /\ m > 2 => m - 2 \in 1..n
  OBVIOUS
<1>2. /\ m > 0 => t[m] = s[m]
      /\ m > 1 => t[m - 1] = s[m - 1]
      /\ m > 2 => t[m - 2] = s[m - 2]
  BY <1>1
<1>3. /\ m > 2 => m > 1
      /\ m > 1 => m > 0
  OBVIOUS
<1> QED BY <1>2, <1>3, Zenon DEF Open

LEMMA ClimbStepKeeps ==
    ASSUME NEW url \in Str, NoPair(url), NoDotted(url), NEW i \in 1..Len(url),
           NEW st \in ClimbState, ClimbInv(st, url, i - 1)
    PROVE  ClimbInv(ClimbStep(st, url, i), url, i)
<1> DEFINE to == st.to
           n == Len(to)
           ch == url[i]
           more == Append(to, ch)
           less == SubSeq(to, 1, st.last)
           next == ClimbStep(st, url, i)
<1>1. /\ ch \in Char /\ At(url, i) = ch /\ i \in Nat /\ i >= 1 /\ to \in Str /\ n \in Nat
      /\ st.last \in 0..n /\ st.skip \in {0, 1, 2} /\ Clean(to) /\ Open(to, st.last)
      /\ Slash # Dot
  BY AtText DEF ClimbState, ClimbInv, Slash, Dot
<1>2. Cut(st, url, i - 1) \/ Copied(st, url, i - 1)
  BY DEF ClimbInv
<1>3. CASE st.skip > 0
  <2>1. next = [st EXCEPT !.skip = st.skip - 1]
    BY <1>3 DEF ClimbStep
  <2>2. next.to = to /\ next.last = st.last /\ next.skip = st.skip - 1
    BY <2>1 DEF ClimbState
  <2>3. Cut(st, url, i - 1)
    BY <1>2, <1>3 DEF Copied
  <2>4. Cut(next, url, i)
    <3>1. CASE st.skip = 2 /\ IsClimb(url, i - 1)
      BY <1>1, <2>2, <2>3, <3>1 DEF Cut
    <3>2. CASE st.skip = 1 /\ i - 1 > 0 /\ IsClimb(url, (i - 1) - 1)
      <4>1. ((i - 1) - 1) + 3 = i + 1
        BY <1>1
      <4>2. At(url, i + 1) = Slash
        BY <3>2, <4>1, Zenon DEF IsClimb
      <4> QED BY <1>1, <2>2, <2>3, <3>2, <4>2 DEF Cut
    <3> QED BY <1>3, <2>3, <3>1, <3>2 DEF Cut
  <2> HIDE DEF next, to
  <2>5. ClimbInv(next, url, i)
    BY <1>1, <2>2, <2>4 DEF ClimbInv
  <2> QED BY <2>5 DEF next
<1>4. CASE ~(st.skip > 0) /\ IsClimb(url, i)
  <2>1. next = [to |-> less, skip |-> 2, last |-> st.last]
    BY <1>4 DEF ClimbStep
  <2>2. /\ less \in Str /\ Len(less) = st.last
        /\ \A k \in 1..st.last : less[k] = to[k] /\ Clean(less)
        /\ Clean(less)
    <3> HIDE DEF to
    <3> QED BY <1>1, CleanPrefix
  <2>3. next.to = less /\ next.last = st.last /\ next.skip = 2
    <3> HIDE DEF less, next
    <3> QED BY <2>1
  <2> HIDE DEF next, less, to
  <2>4. Open(less, st.last)
    <3>1. \A k \in 1..st.last : less[k] = to[k]
      BY <2>2
    <3>2. /\ st.last > 0 => st.last \in 1..st.last
          /\ st.last > 1 => st.last - 1 \in 1..st.last
          /\ st.last > 2 => st.last - 2 \in 1..st.last
      BY <1>1
    <3> QED BY <1>1, <3>1, <3>2 DEF Open
  <2>5. Cut(next, url, i)
    BY <1>1, <1>4, <2>2, <2>3 DEF Cut
  <2>6. ClimbInv(next, url, i)
    BY <2>2, <2>3, <2>4, <2>5 DEF ClimbInv
  <2> QED BY <2>6 DEF next
<1>5. CASE ~(st.skip > 0) /\ ~IsClimb(url, i)
  <2>1. next = [to |-> more, skip |-> 0, last |-> IF ch = Slash THEN n ELSE st.last]
    BY <1>5 DEF ClimbStep
  <2>2. next.to = more /\ next.skip = 0 /\ next.last = IF ch = Slash THEN n ELSE st.last
    BY <2>1
  <2>3. /\ Len(more) = n + 1 /\ more[n + 1] = ch
        /\ \A k \in 1..n : more[k] = to[k]
    BY <1>1, AtAppend
  <2>4. ch = Slash => Open(to, n)
    <3>1. CASE Cut(st, url, i - 1)
      BY <1>1, <3>1 DEF Cut
    <3>2. CASE Copied(st, url, i - 1)
      <4> SUFFICES ASSUME ch = Slash PROVE Open(to, n)
        OBVIOUS
      <4> HIDE DEF to
      <4>1. n > 0 /\ i - 1 > 0 /\ to[n] = url[i - 1]
        BY <3>2 DEF Copied, to
      <4>2. to[n] # Slash
        <5>1. i - 1 \in 1..Len(url) /\ (i - 1) + 1 = i
          BY <1>1, <4>1
        <5> QED BY <1>1, <4>1, <5>1 DEF NoPair
      <4>3. n > 1 => ~(to[n - 1] = Slash /\ to[n] = Dot)
        <5> SUFFICES ASSUME n > 1, to[n - 1] = Slash, to[n] = Dot PROVE FALSE
          OBVIOUS
        <5>1. i - 1 > 1 /\ url[(i - 1) - 1] = Slash
          BY <3>2 DEF Copied, to
        <5>2. /\ i - 2 \in 1..Len(url) /\ (i - 2) + 1 = i - 1 /\ (i - 2) + 2 = i
              /\ (i - 1) - 1 = i - 2 /\ i - 1 \in 1..Len(url)
          BY <1>1, <5>1
        <5>3. At(url, i - 1) = Dot /\ At(url, i) = Slash /\ url[i - 2] = Slash
          BY <1>1, <4>1, <5>1, <5>2, AtText
        <5>4. IsDot(url, i - 2)
          BY <5>2, <5>3 DEF IsDot
        <5> QED BY <5>2, <5>4 DEF NoDotted
      <4>4. n > 2 => ~(to[n - 2] = Slash /\ to[n - 1] = Dot /\ to[n] = Dot)
        <5> SUFFICES ASSUME n > 2, to[n - 2] = Slash, to[n - 1] = Dot, to[n] = Dot PROVE FALSE
          OBVIOUS
        <5>1. i - 1 > 2 /\ url[(i - 1) - 2] = Slash
              /\ url[(i - 1) - 1] = Dot /\ ~IsClimb(url, (i - 1) - 2)
          BY <3>2 DEF Copied, to
        <5>2. /\ i - 3 \in 1..Len(url) /\ i - 2 \in 1..Len(url) /\ i - 1 \in 1..Len(url)
              /\ (i - 3) + 1 = i - 2 /\ (i - 3) + 2 = i - 1 /\ (i - 3) + 3 = i
              /\ (i - 1) - 2 = i - 3 /\ (i - 1) - 1 = i - 2
          BY <1>1, <5>1
        <5>3. /\ At(url, i - 2) = Dot /\ At(url, i - 1) = Dot
              /\ At(url, i) = Slash /\ url[i - 3] = Slash
          BY <1>1, <4>1, <5>1, <5>2, AtText
        <5>4. IsClimb(url, i - 3)
          BY <5>2, <5>3 DEF IsClimb
        <5> QED BY <5>1, <5>2, <5>4
      <4> QED BY <4>2, <4>3, <4>4 DEF Open
    <3> QED BY <1>2, <3>1, <3>2
  <2>5. Clean(more)
    <3> HIDE DEF to, ch
    <3> QED BY <1>1, <2>4, CleanAppend
  <2>6. Open(more, next.last)
    <3> DEFINE m == next.last
    <3>1. m \in 0..n /\ Open(to, m)
      BY <1>1, <2>2, <2>4
    <3>2. \A k \in 1..n : more[k] = to[k]
      BY <2>3
    <3> HIDE DEF more, to, ch, m, n
    <3>3. Open(more, m)
      BY <1>1, <3>1, <3>2, OpenKept
    <3> QED BY <3>3 DEF m
  <2>7. Copied(next, url, i)
    <3>1. /\ next.skip = 0 /\ n + 1 > 0 /\ i > 0 /\ more[n + 1] = ch
          /\ more[n + 1] = Slash => ~IsClimb(url, i)
          /\ (n + 1) - 1 = n /\ (n + 1) - 2 = n - 1
      BY <1>1, <1>5, <2>2, <2>3
    <3>2. ASSUME n + 1 > 1, more[n] = Slash, ch = Dot
          PROVE  i > 1 /\ url[i - 1] = Slash /\ ~IsClimb(url, i - 1)
      <4>1. to[n] = Slash /\ n > 0
        BY <1>1, <2>3, <3>2
      <4>2. CASE Cut(st, url, i - 1)
        <5>1. i - 1 # 0 /\ (i - 1) + 1 = i
          BY <1>1, <4>1, <4>2 DEF Cut
        <5>2. ch = Slash
          BY <1>1, <1>5, <4>2, <5>1 DEF Cut
        <5> QED BY <1>1, <3>2, <5>2
      <4>3. CASE Copied(st, url, i - 1)
        <5>1. to[n] = url[i - 1] /\ i - 1 > 0 /\ ~IsClimb(url, i - 1)
          BY <4>1, <4>3 DEF Copied
        <5> QED BY <1>1, <4>1, <5>1
      <4> QED BY <1>2, <4>2, <4>3
    <3>3. ASSUME n + 1 > 2, more[n - 1] = Slash, more[n] = Dot, ch = Dot
          PROVE  i > 2 /\ url[i - 2] = Slash /\ url[i - 1] = Dot /\ ~IsClimb(url, i - 2)
      <4>1. to[n - 1] = Slash /\ to[n] = Dot /\ n > 1
        BY <1>1, <2>3, <3>3
      <4>2. CASE Cut(st, url, i - 1)
        <5>1. i - 1 # 0 /\ (i - 1) + 1 = i
          BY <1>1, <4>1, <4>2 DEF Cut
        <5>2. ch = Slash
          BY <1>1, <1>5, <4>2, <5>1 DEF Cut
        <5> QED BY <1>1, <3>3, <5>2
      <4>3. CASE Copied(st, url, i - 1)
        <5>1. /\ to[n] = url[i - 1] /\ i - 1 > 1
              /\ url[(i - 1) - 1] = Slash /\ ~IsClimb(url, (i - 1) - 1)
          BY <4>1, <4>3 DEF Copied
        <5>2. (i - 1) - 1 = i - 2
          BY <1>1
        <5> QED BY <1>1, <4>1, <5>1, <5>2
      <4> QED BY <1>2, <4>2, <4>3
    <3> HIDE DEF next, more, to, ch
    <3> QED BY <2>2, <2>3, <3>1, <3>2, <3>3 DEF Copied, ch
  <2> HIDE DEF next, more
  <2>8. ClimbInv(next, url, i)
    BY <2>2, <2>5, <2>6, <2>7 DEF ClimbInv
  <2> QED BY <2>8 DEF next
<1> QED BY <1>3, <1>4, <1>5

LEMMA NoClimbsClean ==
    ASSUME NEW url \in Str, NoPair(url), NoDotted(url)
    PROVE  NoClimbs(url) \in Str /\ Clean(NoClimbs(url))
<1> DEFINE N == Len(url)
           start == [to |-> <<>>, last |-> 0, skip |-> 0]
<1>1. PICK f : ClimbRun(f, url) /\ NoClimbs(url) = f[N].to
  BY ClimbRuns
<1>2. N \in Nat /\ f \in [0..N -> ClimbState] /\ f[0] = start
      /\ \A i \in 1..N : f[i] = ClimbStep(f[i - 1], url, i)
  BY <1>1 DEF ClimbRun, Str
<1> DEFINE T == {i \in 0..N : ClimbInv(f[i], url, i)}
<1>3. 0 \in T
  <2>1. start.to = <<>> /\ start.last = 0 /\ start.skip = 0 /\ Len(<<>>) = 0
    OBVIOUS
  <2>2. Clean(<<>>) /\ Open(<<>>, 0)
    BY DEF Clean, NoPair, NoDotted, NoDouble, Open
  <2>3. Cut(start, url, 0)
    <3> HIDE DEF start
    <3>1. Len(start.to) = 0
      BY <2>1, Zenon
    <3> QED BY <2>1, <3>1 DEF Cut
  <2>4. ClimbInv(start, url, 0)
    <3> HIDE DEF start
    <3> QED BY <2>1, <2>2, <2>3, Zenon DEF ClimbInv
  <2>5. ClimbInv(f[0], url, 0)
    BY <1>2, <2>4, Zenon
  <2> QED BY <1>2, <2>5
<1>4. ASSUME NEW i \in 0..N, i < N, i \in T PROVE i + 1 \in T
  <2>1. i + 1 \in 1..N /\ (i + 1) - 1 = i /\ f[i] \in ClimbState /\ i + 1 \in 0..N
    BY <1>2, <1>4
  <2>2. ClimbInv(ClimbStep(f[i], url, i + 1), url, i + 1)
    BY <1>4, <2>1, ClimbStepKeeps
  <2>3. f[i + 1] = ClimbStep(f[i], url, i + 1)
    BY <1>2, <2>1
  <2> QED BY <2>1, <2>2, <2>3
<1>5. N \in T
  <2> HIDE DEF T
  <2>1. 0..N \subseteq T
    BY <1>2, <1>3, <1>4, SetInduction
  <2> QED BY <1>2, <2>1
<1>6. f[N] \in ClimbState
  BY <1>2
<1> QED BY <1>1, <1>5, <1>6 DEF ClimbInv, ClimbState

LEMMA SanitiseClean ==
    ASSUME NEW url \in Str
    PROVE  sanitiseUrl(url) \in Str /\ Clean(sanitiseUrl(url))
<1> DEFINE one == OneSlash(url)
           two == NoDots(one)
<1>1. one \in Str /\ NoPair(one)
  BY OneSlashClean
<1> HIDE DEF one
<1>2. two \in Str /\ NoPair(two) /\ NoDotted(two)
  BY <1>1, NoDotsClean
<1> HIDE DEF two
<1>3. NoClimbs(two) \in Str /\ Clean(NoClimbs(two))
  BY <1>2, NoClimbsClean
<1> QED BY <1>3 DEF sanitiseUrl, two, one

\* What is clean has none of the three sequences anywhere.
LEMMA CleanHolds ==
    ASSUME NEW s \in Str, Clean(s), NEW t \in Odd
    PROVE  ~Holds(s, t)
<1> SUFFICES ASSUME NEW i \in 0..Len(s) - Len(t), SubSeq(s, i + 1, i + Len(t)) = t PROVE FALSE
  BY DEF Holds
<1>1. Len(s) \in Nat /\ DOMAIN s = 1..Len(s)
  BY DEF Str
<1>2. ASSUME NEW n \in 1..4, Len(t) = n, NEW k \in 1..n
      PROVE  At(s, i + k) = t[k] /\ i + 1 \in 1..Len(s) /\ s[i + 1] = At(s, i + 1)
  <2>1. i + 1 \in Int /\ i + n \in Int /\ i + n <= Len(s) /\ i \in Nat
    BY <1>1, <1>2
  <2>2. \A j \in i + 1..i + n : s[j] \in Char
    BY <1>1, <2>1 DEF Str
  <2>3. \A j \in 1..(i + n) - (i + 1) + 1 : SubSeq(s, i + 1, i + n)[j] = s[(i + 1) + j - 1]
    BY <2>1, <2>2, SubSeqProperties
  <2>4. k \in 1..(i + n) - (i + 1) + 1 /\ (i + 1) + k - 1 = i + k
    BY <2>1
  <2>5. t[k] = s[i + k]
    BY <1>2, <2>3, <2>4
  <2>6. i + k \in 1..Len(s) /\ i + 1 \in 1..Len(s)
    BY <1>1, <2>1
  <2> QED BY <1>1, <2>5, <2>6 DEF At
<1>3. CASE t = <<Slash, Slash>>
  <2>1. Len(t) = 2 /\ t[1] = Slash /\ t[2] = Slash
    BY <1>3
  <2>2. At(s, i + 1) = Slash /\ At(s, i + 2) = Slash /\ i + 1 \in 1..Len(s) /\ s[i + 1] = Slash
    BY <1>2, <2>1
  <2>3. (i + 1) + 1 = i + 2
    BY <1>1
  <2> QED BY <2>2, <2>3 DEF Clean, NoPair
<1>4. CASE t = <<Slash, Dot, Slash>>
  <2>1. Len(t) = 3 /\ t[1] = Slash /\ t[2] = Dot /\ t[3] = Slash
    BY <1>4
  <2>2. /\ At(s, i + 1) = Slash /\ At(s, i + 2) = Dot /\ At(s, i + 3) = Slash
        /\ i + 1 \in 1..Len(s) /\ s[i + 1] = Slash
    BY <1>2, <2>1
  <2>3. (i + 1) + 1 = i + 2 /\ (i + 1) + 2 = i + 3
    BY <1>1
  <2>4. IsDot(s, i + 1)
    BY <2>2, <2>3 DEF IsDot
  <2> QED BY <2>2, <2>4 DEF Clean, NoDotted
<1>5. CASE t = <<Slash, Dot, Dot, Slash>>
  <2>1. Len(t) = 4 /\ t[1] = Slash /\ t[2] = Dot /\ t[3] = Dot /\ t[4] = Slash
    BY <1>5
  <2>2. /\ At(s, i + 1) = Slash /\ At(s, i + 2) = Dot /\ At(s, i + 3) = Dot
        /\ At(s, i + 4) = Slash
        /\ i + 1 \in 1..Len(s) /\ s[i + 1] = Slash
    BY <1>2, <2>1
  <2>3. (i + 1) + 1 = i + 2 /\ (i + 1) + 2 = i + 3 /\ (i + 1) + 3 = i + 4
    BY <1>1
  <2>4. IsClimb(s, i + 1)
    BY <2>2, <2>3 DEF IsClimb
  <2> QED BY <2>2, <2>4 DEF Clean, NoDouble
<1> QED BY <1>3, <1>4, <1>5 DEF Odd

\* The invariant: from the moment the path is read it is clean, and cutting the
\* query off makes no sequence.
CleanInv == path \in Str /\ Clean(path)

\* Whatever the target, no later pass of sanitiseUrl pieces together what an
\* earlier one was to remove: a path that is processed has no doubled slash and
\* no element of dots in it.
THEOREM PathTheorem == Spec => []PathClean
<1>1. Init => CleanInv
  <2>1. <<>> \in Str /\ Len(<<>>) = 0
    BY DEF Str
  <2>2. Clean(<<>>)
    BY <2>1 DEF Clean, NoPair, NoDotted, NoDouble
  <2> QED BY <2>1, <2>2 DEF Init, CleanInv
<1>2. CleanInv /\ [Next]_vars => CleanInv'
  <2> SUFFICES ASSUME CleanInv, [Next]_vars PROVE CleanInv'
    OBVIOUS
  <2>1. CASE UNCHANGED path
    BY <2>1 DEF CleanInv
  <2>2. ASSUME NEW t \in Target, ReadRequestLine(t) PROVE CleanInv'
    <3>1. t \in Str /\ path' = sanitiseUrl(t)
      BY <2>2, RequestAssumption DEF ReadRequestLine, Str
    <3> QED BY <3>1, SanitiseClean DEF CleanInv
  <2>3. CASE EndHeaders /\ path' = Until(path, Question)
    <3>1. PICK n \in 0..Len(path) : Until(path, Question) = SubSeq(path, 1, n)
      BY UntilIs DEF CleanInv, Str
    <3> QED BY <2>3, <3>1, CleanPrefix DEF CleanInv
  <2> QED BY <2>1, <2>2, <2>3 DEF Next, vars, ReadHost, ReadAuthorization, RejectMethod,
                                  EndHeaders, Silent, SendPage, SendRedirect
<1>3. CleanInv => PathClean
  BY CleanHolds DEF CleanInv, PathClean
<1> QED BY <1>1, <1>2, <1>3, PTL DEF Spec

(***************************************************************************)
(* Basic authentication: four sextets for three bytes, and back.           *)
(***************************************************************************)

\* A byte of three sextets, and what is left over of them.
LEMMA RegroupedFirst ==
    ASSUME NEW a \in Byte, NEW b \in Byte
    PROVE  ((a \div 4) * 4 + ((a % 4) * 16 + b \div 16) \div 16) % 256 = a
<1> QED BY DEF Byte

LEMMA RegroupedSecond ==
    ASSUME NEW a \in Byte, NEW b \in Byte, NEW c \in Byte
    PROVE  (((a % 4) * 16 + b \div 16) * 16 + ((b % 16) * 4 + c \div 64) \div 4) % 256 = b
<1> QED BY DEF Byte

LEMMA RegroupedThird ==
    ASSUME NEW b \in Byte, NEW c \in Byte
    PROVE  (((b % 16) * 4 + c \div 64) * 64 + (c % 64)) % 256 = c
<1> DEFINE m == b % 16
<1>1. m \in 0..15
  BY DEF Byte
<1>2. (m * 4 + c \div 64) * 64 + (c % 64) = m * 256 + c
  <2> HIDE DEF m
  <2> QED BY <1>1 DEF Byte
<1>3. (m * 256 + c) % 256 = c
  <2> HIDE DEF m
  <2> QED BY <1>1 DEF Byte
<1> QED BY <1>2, <1>3

Octets(n) == (4 * n + 2) \div 3

LEMMA Lengths ==
    ASSUME NEW n \in Nat
    PROVE  /\ Octets(n) \in Nat
           /\ 3 * ((Octets(n) + 3) \div 4)
                 - (IF Octets(n) % 4 = 0 THEN 0 ELSE IF Octets(n) % 4 = 3 THEN 1 ELSE 2) = n
<1> QED BY DEF Octets

LEMMA Places3 ==
    ASSUME NEW n \in Nat, NEW k \in 1..n
    PROVE  \E g \in Nat : /\ (k - 1) \div 3 = g
                          /\ \/ k = 3 * g + 1 /\ (k - 1) % 3 = 0 /\ 4 * g + 2 <= Octets(n)
                             \/ k = 3 * g + 2 /\ (k - 1) % 3 = 1 /\ 4 * g + 3 <= Octets(n)
                             \/ k = 3 * g + 3 /\ (k - 1) % 3 = 2 /\ 4 * g + 4 <= Octets(n)
<1> QED BY DEF Octets

LEMMA SextetPlaces ==
    ASSUME NEW g \in Nat
    PROVE  /\ (((4 * g + 1) - 1) % 4) + 1 = 1 /\ (3 * ((4 * g + 1) - 1)) \div 4 = 3 * g
           /\ (((4 * g + 2) - 1) % 4) + 1 = 2 /\ (3 * ((4 * g + 2) - 1)) \div 4 = 3 * g
           /\ (((4 * g + 3) - 1) % 4) + 1 = 3 /\ (3 * ((4 * g + 3) - 1)) \div 4 = 3 * g + 1
           /\ (((4 * g + 4) - 1) % 4) + 1 = 4 /\ (3 * ((4 * g + 4) - 1)) \div 4 = 3 * g + 2
<1> QED OBVIOUS

LEMMA AtByte ==
    ASSUME NEW bytes \in Seq(Byte)
    PROVE  \A j \in Nat : At(bytes, j) \in Byte
<1>1. 0 \in Byte
  BY DEF Byte
<1>2. \A j \in DOMAIN bytes : bytes[j] \in Byte
  OBVIOUS
<1> QED BY <1>1, <1>2, Zenon DEF At, NUL

\* One sextet.
Sextet(bytes, k) ==
    LET b(n) == At(bytes, (3 * (k - 1)) \div 4 + n)
    IN  << b(1) \div 4, (b(1) % 4) * 16 + b(2) \div 16, (b(1) % 16) * 4 + b(2) \div 64,
           b(1) % 64 >>[((k - 1) % 4) + 1]

LEMMA SextetType ==
    ASSUME NEW bytes \in Seq(Byte), NEW k \in Nat \ {0}
    PROVE  Sextet(bytes, k) \in Nat
<1> DEFINE m == (3 * (k - 1)) \div 4
           r == ((k - 1) % 4) + 1
<1>1. \A j \in Nat : At(bytes, j) \in Byte
  BY AtByte
<1>2. m \in Nat /\ r \in 1..4
  OBVIOUS
<1> HIDE DEF m, r
<1>3. At(bytes, m + 1) \in Byte /\ At(bytes, m + 2) \in Byte
  BY <1>1, <1>2
<1>4. \A a, b \in Byte : << a \div 4, (a % 4) * 16 + b \div 16, (a % 16) * 4 + b \div 64,
                            a % 64 >>[r] \in Nat
  BY <1>2 DEF Byte
<1> QED BY <1>3, <1>4 DEF Sextet, m, r

\* What the decoder reads in the sextets of some bytes.
LEMMA SextetsRead ==
    ASSUME NEW bytes \in Seq(Byte), NEW g \in Nat,
           NEW a, NEW b, NEW c,
           a = At(bytes, 3 * g + 1), b = At(bytes, 3 * g + 2), c = At(bytes, 3 * g + 3)
    PROVE  /\ a \in Byte /\ b \in Byte /\ c \in Byte
           /\ Sextet(bytes, 4 * g + 1) = a \div 4
           /\ Sextet(bytes, 4 * g + 2) = (a % 4) * 16 + b \div 16
           /\ Sextet(bytes, 4 * g + 3) = (b % 16) * 4 + c \div 64
           /\ Sextet(bytes, 4 * g + 4) = c % 64
<1>1. \A j \in Nat : At(bytes, j) \in Byte
  BY AtByte
<1>2. a \in Byte /\ b \in Byte /\ c \in Byte
  BY <1>1
<1>3. (3 * g + 1) + 1 = 3 * g + 2 /\ (3 * g + 1) + 2 = 3 * g + 3 /\ (3 * g + 2) + 1 = 3 * g + 3
  OBVIOUS
<1>4. Sextet(bytes, 4 * g + 1) = a \div 4
  <2>1. Sextet(bytes, 4 * g + 1)
           = << At(bytes, 3 * g + 1) \div 4,
               (At(bytes, 3 * g + 1) % 4) * 16 + At(bytes, 3 * g + 2) \div 16,
               (At(bytes, 3 * g + 1) % 16) * 4 + At(bytes, 3 * g + 2) \div 64,
               At(bytes, 3 * g + 1) % 64 >>[1]
    BY SextetPlaces, Zenon DEF Sextet
  <2> QED BY <2>1
<1>5. Sextet(bytes, 4 * g + 2) = (a % 4) * 16 + b \div 16
  <2>1. Sextet(bytes, 4 * g + 2)
           = << At(bytes, 3 * g + 1) \div 4,
               (At(bytes, 3 * g + 1) % 4) * 16 + At(bytes, 3 * g + 2) \div 16,
               (At(bytes, 3 * g + 1) % 16) * 4 + At(bytes, 3 * g + 2) \div 64,
               At(bytes, 3 * g + 1) % 64 >>[2]
    BY SextetPlaces, Zenon DEF Sextet
  <2> QED BY <2>1
<1>6. Sextet(bytes, 4 * g + 3) = (b % 16) * 4 + c \div 64
  <2>1. Sextet(bytes, 4 * g + 3)
           = << At(bytes, (3 * g + 1) + 1) \div 4,
                (At(bytes, (3 * g + 1) + 1) % 4) * 16 + At(bytes, (3 * g + 1) + 2) \div 16,
               (At(bytes, (3 * g + 1) + 1) % 16) * 4 + At(bytes, (3 * g + 1) + 2) \div 64,
               At(bytes, (3 * g + 1) + 1) % 64 >>[3]
    BY SextetPlaces, Zenon DEF Sextet
  <2> QED BY <1>3, <2>1
<1>7. Sextet(bytes, 4 * g + 4) = c % 64
  <2>1. Sextet(bytes, 4 * g + 4)
           = << At(bytes, (3 * g + 2) + 1) \div 4,
                (At(bytes, (3 * g + 2) + 1) % 4) * 16 + At(bytes, (3 * g + 2) + 2) \div 16,
               (At(bytes, (3 * g + 2) + 1) % 16) * 4 + At(bytes, (3 * g + 2) + 2) \div 64,
               At(bytes, (3 * g + 2) + 1) % 64 >>[4]
    BY SextetPlaces, Zenon DEF Sextet
  <2> QED BY <1>3, <2>1
<1> QED BY <1>2, <1>4, <1>5, <1>6, <1>7

LEMMA DecodeSextets ==
    ASSUME NEW bytes \in Seq(Byte)
    PROVE  Decode(Sextets(bytes)) = bytes
<1> DEFINE n == Len(bytes)
           six == Sextets(bytes)
<1>1. n \in Nat /\ Octets(n) \in Nat
  BY Lengths
<1>2. six = [k \in 1..Octets(n) |-> Sextet(bytes, k)]
  BY Zenon DEF Sextets, Sextet, Octets
<1>3. DOMAIN six = 1..Octets(n) /\ Len(six) = Octets(n)
  <2>1. \A k \in 1..Octets(n) : Sextet(bytes, k) \in Nat
    BY <1>1, SextetType
  <2> HIDE DEF six
  <2>2. six \in Seq(Nat)
    BY <1>1, <1>2, <2>1, SeqDef
  <2>3. DOMAIN six = 1..Octets(n)
    BY <1>2
  <2> QED BY <1>1, <2>2, <2>3, LenProperties
<1>4. \A k \in 1..Octets(n) : six[k] = Sextet(bytes, k)
  BY <1>2, Zenon
<1> HIDE DEF six
<1>5. Decode(six) = [k \in 1..n |-> DecodedByte(six, k)]
  <2> DEFINE m == Octets(n)
  <2>1. 3 * ((m + 3) \div 4) - (IF m % 4 = 0 THEN 0 ELSE IF m % 4 = 3 THEN 1 ELSE 2) = n
    BY <1>1, Lengths
  <2>2. Decode(six) = [k \in 1..(3 * ((m + 3) \div 4)
                                  - (IF m % 4 = 0 THEN 0 ELSE IF m % 4 = 3 THEN 1 ELSE 2))
                         |-> DecodedByte(six, k)]
    BY <1>3, Zenon DEF Decode
  <2> QED BY <2>1, <2>2, Zenon
<1>6. ASSUME NEW k \in 1..n PROVE DecodedByte(six, k) = bytes[k]
  <2>1. PICK g \in Nat : /\ (k - 1) \div 3 = g
                         /\ \/ k = 3 * g + 1 /\ (k - 1) % 3 = 0 /\ 4 * g + 2 <= Octets(n)
                            \/ k = 3 * g + 2 /\ (k - 1) % 3 = 1 /\ 4 * g + 3 <= Octets(n)
                            \/ k = 3 * g + 3 /\ (k - 1) % 3 = 2 /\ 4 * g + 4 <= Octets(n)
    BY <1>1, Places3
  <2> DEFINE a == At(bytes, 3 * g + 1)
             b == At(bytes, 3 * g + 2)
             c == At(bytes, 3 * g + 3)
             s == [j \in 1..4 |-> At(six, 4 * g + j)]
  <2>2. /\ a \in Byte /\ b \in Byte /\ c \in Byte
        /\ Sextet(bytes, 4 * g + 1) = a \div 4
        /\ Sextet(bytes, 4 * g + 2) = (a % 4) * 16 + b \div 16
        /\ Sextet(bytes, 4 * g + 3) = (b % 16) * 4 + c \div 64
        /\ Sextet(bytes, 4 * g + 4) = c % 64
    BY SextetsRead
  <2>3. \A j \in 1..Octets(n) : At(six, j) = Sextet(bytes, j)
    BY <1>3, <1>4 DEF At
  <2>4. \A j \in {1, 2, 3} :
           ((k - 1) % 3) + 1 = j =>
           DecodedByte(six, k) = << At(six, 4 * g + 1) * 4 + At(six, 4 * g + 2) \div 16,
                                    At(six, 4 * g + 2) * 16 + At(six, 4 * g + 3) \div 4,
                                    At(six, 4 * g + 3) * 64 + At(six, 4 * g + 4) >>[j] % 256
    BY <2>1, Zenon DEF DecodedByte
  <2>5. CASE k = 3 * g + 1 /\ (k - 1) % 3 = 0 /\ 4 * g + 2 <= Octets(n)
    <3>1. DecodedByte(six, k) = (At(six, 4 * g + 1) * 4 + At(six, 4 * g + 2) \div 16) % 256
      BY <2>4, <2>5
    <3>2. At(six, 4 * g + 1) = a \div 4 /\ At(six, 4 * g + 2) = (a % 4) * 16 + b \div 16
      <4>1. 4 * g + 1 \in 1..Octets(n) /\ 4 * g + 2 \in 1..Octets(n)
        BY <1>1, <2>5
      <4> QED BY <2>2, <2>3, <4>1, Zenon
    <3>3. a = bytes[k]
      BY <2>5 DEF At
    <3>4. ((a \div 4) * 4 + ((a % 4) * 16 + b \div 16) \div 16) % 256 = a
      BY <2>2, RegroupedFirst
    <3> QED BY <3>1, <3>2, <3>3, <3>4, Zenon
  <2>6. CASE k = 3 * g + 2 /\ (k - 1) % 3 = 1 /\ 4 * g + 3 <= Octets(n)
    <3>1. DecodedByte(six, k) = (At(six, 4 * g + 2) * 16 + At(six, 4 * g + 3) \div 4) % 256
      BY <2>4, <2>6
    <3>2. /\ At(six, 4 * g + 2) = (a % 4) * 16 + b \div 16
          /\ At(six, 4 * g + 3) = (b % 16) * 4 + c \div 64
      <4>1. 4 * g + 2 \in 1..Octets(n) /\ 4 * g + 3 \in 1..Octets(n)
        BY <1>1, <2>6
      <4> QED BY <2>2, <2>3, <4>1, Zenon
    <3>3. b = bytes[k]
      BY <2>6 DEF At
    <3>4. (((a % 4) * 16 + b \div 16) * 16 + ((b % 16) * 4 + c \div 64) \div 4) % 256 = b
      BY <2>2, RegroupedSecond
    <3> QED BY <3>1, <3>2, <3>3, <3>4, Zenon
  <2>7. CASE k = 3 * g + 3 /\ (k - 1) % 3 = 2 /\ 4 * g + 4 <= Octets(n)
    <3>1. DecodedByte(six, k) = (At(six, 4 * g + 3) * 64 + At(six, 4 * g + 4)) % 256
      BY <2>4, <2>7
    <3>2. /\ At(six, 4 * g + 3) = (b % 16) * 4 + c \div 64
          /\ At(six, 4 * g + 4) = c % 64
      <4>1. 4 * g + 3 \in 1..Octets(n) /\ 4 * g + 4 \in 1..Octets(n)
        BY <1>1, <2>7
      <4> QED BY <2>2, <2>3, <4>1, Zenon
    <3>3. c = bytes[k]
      BY <2>7 DEF At
    <3>4. (((b % 16) * 4 + c \div 64) * 64 + (c % 64)) % 256 = c
      BY <2>2, RegroupedThird
    <3> QED BY <3>1, <3>2, <3>3, <3>4, Zenon
  <2> QED BY <2>1, <2>5, <2>6, <2>7
<1>7. bytes = [k \in 1..n |-> bytes[k]]
  OBVIOUS
<1> QED BY <1>5, <1>6, <1>7, Zenon DEF six

\* The credentials as they are put together and sent.
LEMMA Arrives ==
    ASSUME NEW user \in Seq(Byte), NEW password \in Seq(Byte),
           Places(user, Colon) = {}, Places(user \o password, NUL) = {}
    PROVE  LET text == Until(Decode(Sextets(user \o <<Colon>> \o password)), NUL)
           IN  /\ Until(text, Colon) = user
               /\ Places(text, Colon) # {}
               /\ Behind(text, Colon) = password
<1> DEFINE all == user \o <<Colon>> \o password
<1>1. Colon \in Byte /\ Colon # NUL
  BY DEF Colon, Byte, NUL
<1>2. /\ all \in Seq(Byte) /\ Places(all, Colon) # {}
      /\ Until(all, Colon) = user /\ Behind(all, Colon) = password
  BY <1>1, Parted
<1>3. Places(all, NUL) = {}
  <2> DEFINE sep == <<Colon>>
             both == user \o password
             first == user \o sep
  <2>1. /\ Len(user) \in Nat /\ Len(password) \in Nat
        /\ sep \in Seq(Byte) /\ Len(sep) = 1 /\ sep[1] = Colon
    BY <1>1
  <2> HIDE DEF sep
  <2>2. /\ both \in Seq(Byte) /\ Len(both) = Len(user) + Len(password)
        /\ \A k \in 1..Len(user) + Len(password) :
              both[k] = IF k <= Len(user) THEN user[k] ELSE password[k - Len(user)]
    BY ConcatProperties
  <2>3. /\ first \in Seq(Byte) /\ Len(first) = Len(user) + Len(sep)
        /\ \A k \in 1..Len(user) + Len(sep) :
              first[k] = IF k <= Len(user) THEN user[k] ELSE sep[k - Len(user)]
    BY <2>1, ConcatProperties
  <2>4. \A k \in 1..Len(both) : both[k] # NUL
    <3>1. \A k \in DOMAIN both : both[k] # NUL
      BY Zenon DEF Places
    <3> QED BY <2>2, <3>1
  <2> HIDE DEF both, first
  <2>5. /\ \A k \in 1..Len(user) : user[k] # NUL
        /\ \A k \in 1..Len(password) : password[k] # NUL
    <3>1. ASSUME NEW k \in 1..Len(user) PROVE user[k] # NUL
      BY <2>1, <2>2, <2>4
    <3>2. ASSUME NEW k \in 1..Len(password) PROVE password[k] # NUL
      <4>1. /\ k + Len(user) \in 1..Len(both) /\ k + Len(user) \in 1..Len(user) + Len(password)
            /\ ~(k + Len(user) <= Len(user)) /\ (k + Len(user)) - Len(user) = k
        BY <2>1, <2>2
      <4> QED BY <2>2, <2>4, <4>1
    <3> QED BY <3>1, <3>2
  <2>6. /\ all = first \o password
        /\ Len(first \o password) = Len(first) + Len(password)
        /\ \A k \in 1..Len(first) + Len(password) :
              (first \o password)[k] = IF k <= Len(first) THEN first[k]
                                       ELSE password[k - Len(first)]
    BY <2>3, ConcatProperties DEF first, sep
  <2> HIDE DEF all
  <2>7. ASSUME NEW k \in 1..Len(all) PROVE all[k] # NUL
    <3> DEFINE m == Len(user) + 1
    <3>1. m \in Nat /\ Len(first) = m /\ Len(all) = m + Len(password) /\ first[m] = Colon
      BY <2>1, <2>3, <2>6
    <3> HIDE DEF m
    <3>2. CASE k < m
      <4>1. k \in 1..Len(user) /\ k \in 1..Len(user) + Len(sep)
        BY <2>1, <3>1, <3>2 DEF m
      <4>2. first[k] = user[k]
        BY <2>3, <4>1
      <4> QED BY <2>1, <2>5, <2>6, <3>1, <3>2, <4>1, <4>2
    <3>3. CASE k = m
      BY <1>1, <2>1, <2>6, <3>1, <3>3
    <3>4. CASE k > m
      <4>1. k - m \in 1..Len(password) /\ k \in 1..Len(first) + Len(password)
        BY <2>1, <3>1, <3>4
      <4>2. all[k] = password[k - m]
        BY <2>6, <3>1, <3>4, <4>1
      <4> QED BY <2>5, <4>1, <4>2
    <3> QED BY <3>1, <3>2, <3>3, <3>4
  <2>8. DOMAIN all = 1..Len(all)
    BY <1>2, LenProperties
  <2> QED BY <2>7, <2>8, Zenon DEF Places
<1>4. Decode(Sextets(all)) = all
  BY <1>2, DecodeSextets
<1>5. Until(all, NUL) = all
  BY <1>3, UntilAll
<1> HIDE DEF all
<1>6. Until(Decode(Sextets(all)), NUL) = all
  BY <1>4, <1>5, Zenon
<1>7. /\ Until(Until(Decode(Sextets(all)), NUL), Colon) = user
      /\ Places(Until(Decode(Sextets(all)), NUL), Colon) # {}
      /\ Behind(Until(Decode(Sextets(all)), NUL), Colon) = password
  BY <1>2, <1>6, Zenon
<1> QED BY <1>7, Zenon DEF all

\* The invariant: what was sent are credentials, of which the property speaks.
ArriveInv == sent \in Credentials \cup {<<>>} /\ CredentialsArrive

\* What a client sends as user and password is what the handler gets: the last
\* ones of several headers, in groups that are full or padded.
THEOREM CredentialsTheorem == Spec => []CredentialsArrive
<1>1. Init => ArriveInv
  BY DEF Init, ArriveInv, CredentialsArrive
<1>2. ArriveInv /\ [Next]_vars => ArriveInv'
  <2> SUFFICES ASSUME ArriveInv, [Next]_vars PROVE ArriveInv'
    OBVIOUS
  <2>1. CASE UNCHANGED <<sent, authUser, authPassword>>
    BY <2>1 DEF ArriveInv, CredentialsArrive
  <2>2. ASSUME NEW c \in Credentials, ReadAuthorization(c) PROVE ArriveInv'
    <3>1. c.user \in Seq(Byte) /\ c.password \in Seq(Byte)
      BY RequestAssumption
    <3> DEFINE text == Until(Decode(Sextets(c.user \o <<Colon>> \o c.password)), NUL)
    <3>2. /\ sent' = c /\ authUser' = Until(text, Colon)
          /\ authPassword' = IF Places(text, Colon) = {} THEN authPassword
                             ELSE Behind(text, Colon)
      BY <2>2, Zenon DEF ReadAuthorization
    <3>3. ASSUME Places(c.user, Colon) = {}, Places(c.user \o c.password, NUL) = {}
          PROVE  authUser' = c.user /\ authPassword' = c.password
      <4>1. /\ Until(text, Colon) = c.user
            /\ Places(text, Colon) # {}
            /\ Behind(text, Colon) = c.password
        BY <3>1, <3>3, Arrives
      <4> HIDE DEF text
      <4> QED BY <3>2, <4>1
    <3> HIDE DEF text
    <3>4. CredentialsArrive'
      <4> SUFFICES ASSUME Places(c.user, Colon) = {}, Places(c.user \o c.password, NUL) = {}
                   PROVE  authUser' = c.user /\ authPassword' = c.password
        BY <3>2 DEF CredentialsArrive
      <4> QED BY <3>3
    <3> QED BY <3>2, <3>4 DEF ArriveInv
  <2> QED BY <2>1, <2>2 DEF Next, vars, ReadRequestLine, RejectMethod, ReadHost, EndHeaders,
                            Silent, SendPage, SendRedirect
<1>3. ArriveInv => CredentialsArrive
  BY DEF ArriveInv
<1> QED BY <1>1, <1>2, <1>3, PTL DEF Spec

(***************************************************************************)
(* _httpd_unescape and httpdUrlEncode.                                     *)
(***************************************************************************)

\* What percent signs spell is a byte, in a text; with no digit behind it, what
\* was there before, which has not been overwritten yet.
Codes(str) == Byte \cup {str[n] : n \in Nat}

UnescapeState(str) == [q : Seq(Codes(str)), skip : 0..2]

LEMMA HexType ==
    ASSUME NEW a \in Byte, NEW b \in Byte
    PROVE  (from_hex(a) * 16 + IF b = NUL THEN 0 ELSE from_hex(b)) % 256 \in Byte
<1>1. from_hex(a) \in Nat /\ from_hex(b) \in Nat
  BY DEF Byte, from_hex
<1> HIDE DEF from_hex
<1>2. (IF b = NUL THEN 0 ELSE from_hex(b)) \in Nat
  BY <1>1
<1> DEFINE n == IF b = NUL THEN 0 ELSE from_hex(b)
<1> HIDE DEF n
<1>3. \A m \in Nat : (m * 16 + n) % 256 \in Byte
  BY <1>2 DEF Byte, n
<1> QED BY <1>1, <1>3 DEF n

LEMMA EscapedType ==
    ASSUME NEW str \in Str, NEW st \in UnescapeState(str), NEW i \in 1..Len(str)
    PROVE  /\ Escaped(st, str, i) \in Codes(str)
           /\ Len(st.q) < Len(str) => Escaped(st, str, i) \in Byte
<1>1. Len(str) \in Nat /\ \A k \in 1..Len(str) : str[k] \in Char
  BY DEF Str
<1>2. i + 1 \in Nat /\ i + 2 \in Nat /\ Len(st.q) + 1 \in Nat
  BY DEF UnescapeState
<1>3. At(str, i + 1) \in Byte /\ At(str, i + 2) \in Byte /\ Char \subseteq Byte
  <2>1. Char \subseteq Byte /\ 0 \in Byte
    BY DEF Char, Byte
  <2> QED BY <1>1, <2>1 DEF At, NUL, Str
<1>4. CASE At(str, i + 1) = NUL
  <2>1. Escaped(st, str, i) = str[Len(st.q) + 1]
    BY <1>4 DEF Escaped
  <2>2. Len(st.q) < Len(str) => Len(st.q) + 1 \in 1..Len(str)
    BY <1>1, <1>2 DEF UnescapeState
  <2> QED BY <1>1, <1>2, <1>3, <2>1, <2>2 DEF Codes
<1>5. CASE At(str, i + 1) # NUL
  <2>1. Escaped(st, str, i) = (from_hex(At(str, i + 1)) * 16
            + IF At(str, i + 2) = NUL THEN 0 ELSE from_hex(At(str, i + 2))) % 256
    BY <1>5 DEF Escaped
  <2>2. Escaped(st, str, i) \in Byte
    BY <1>3, <2>1, HexType
  <2> QED BY <2>2 DEF Codes
<1> QED BY <1>4, <1>5

\* What is written for the character that is read.
Written(st, str, i) ==
    IF str[i] = Percent THEN Escaped(st, str, i) ELSE IF str[i] = Plus THEN Space ELSE str[i]

LEMMA UnescapeStepIs ==
    ASSUME NEW str \in Str, NEW st \in UnescapeState(str), NEW i \in 1..Len(str)
    PROVE  /\ st.skip > 0 => UnescapeStep(st, str, i) = [st EXCEPT !.skip = st.skip - 1]
           /\ ~(st.skip > 0) => UnescapeStep(st, str, i)
                 = [q |-> Append(st.q, Written(st, str, i)),
                    skip |-> IF str[i] = Percent THEN 2 ELSE 0]
           /\ Written(st, str, i) \in Codes(str)
           /\ Len(st.q) < Len(str) => Written(st, str, i) \in Byte
<1>1. str[i] \in Byte /\ Space \in Byte
  <2>1. str[i] \in Char
    BY AtText
  <2> QED BY <2>1 DEF Char, Byte, Space
<1>2. /\ Written(st, str, i) \in Codes(str)
      /\ Len(st.q) < Len(str) => Written(st, str, i) \in Byte
  BY <1>1, EscapedType DEF Written, Codes
<1>3. st.skip > 0 => UnescapeStep(st, str, i) = [st EXCEPT !.skip = st.skip - 1]
  BY Zenon DEF UnescapeStep
<1>4. ~(st.skip > 0) => UnescapeStep(st, str, i)
           = [q |-> Append(st.q, Written(st, str, i)), skip |-> IF str[i] = Percent THEN 2 ELSE 0]
  BY DEF UnescapeStep, Written
<1> QED BY <1>2, <1>3, <1>4

LEMMA UnescapeStepType ==
    ASSUME NEW str \in Str, NEW st \in UnescapeState(str), NEW i \in 1..Len(str)
    PROVE  UnescapeStep(st, str, i) \in UnescapeState(str)
<1> DEFINE more == Append(st.q, Written(st, str, i))
<1>1. st.q \in Seq(Codes(str)) /\ st.skip \in 0..2
  BY DEF UnescapeState
<1>2. more \in Seq(Codes(str))
  BY <1>1, UnescapeStepIs, AppendProperties
<1>3. CASE st.skip > 0
  <2>1. UnescapeStep(st, str, i) = [st EXCEPT !.skip = st.skip - 1] /\ st.skip - 1 \in 0..2
    BY <1>1, <1>3, UnescapeStepIs
  <2> QED BY <2>1 DEF UnescapeState
<1>4. CASE ~(st.skip > 0)
  <2>1. UnescapeStep(st, str, i) = [q |-> more, skip |-> IF str[i] = Percent THEN 2 ELSE 0]
    BY <1>4, UnescapeStepIs
  <2> HIDE DEF more
  <2> QED BY <1>2, <2>1 DEF UnescapeState
<1> QED BY <1>3, <1>4

\* The states of the reading.
UnescapeRun(f, str) ==
    /\ f \in [0..Len(str) -> UnescapeState(str)]
    /\ f[0] = [q |-> <<>>, skip |-> 0]
    /\ \A i \in 1..Len(str) : f[i] = UnescapeStep(f[i - 1], str, i)

LEMMA UnescapeRuns ==
    ASSUME NEW str \in Str
    PROVE  \E f : UnescapeRun(f, str) /\ Unescaped(str) = f[Len(str)].q
<1> DEFINE N == Len(str)
           V == UnescapeState(str)
           b == [q |-> <<>>, skip |-> 0]
           Rec(f) == f = [i \in 0..N |-> IF i = 0 THEN b ELSE UnescapeStep(f[i - 1], str, i)]
           h == CHOOSE f : Rec(f)
           g == [p \in V \X (1..N) |-> UnescapeStep(p[1], str, p[2])]
<1>1. N \in Nat /\ b \in V /\ g \in Steps(N, V)
  BY UnescapeStepType DEF Steps, UnescapeState, Str
<1>2. PICK f : Iterates(f, N, V, b, g)
  <2> HIDE DEF N, V, b, g
  <2> QED BY <1>1, RecursionExists
<1>3. /\ f \in [0..N -> V] /\ f[0] = b
      /\ \A i \in 1..N : f[i] = UnescapeStep(f[i - 1], str, i)
  <2>1. \A v \in V, i \in 1..N : g[<<v, i>>] = UnescapeStep(v, str, i)
    OBVIOUS
  <2>2. \A i \in 1..N : i - 1 \in 0..N
    BY <1>1
  <2> HIDE DEF N, V, b, g
  <2> QED BY <1>2, <2>1, <2>2 DEF Iterates
<1> HIDE DEF N, V, b
<1>4. Rec(f)
  <2>1. ASSUME NEW i \in 0..N PROVE f[i] = IF i = 0 THEN b ELSE UnescapeStep(f[i - 1], str, i)
    <3>1. i # 0 => i \in 1..N
      BY <1>1
    <3> QED BY <1>3, <3>1
  <2> QED BY <1>3, <2>1
<1>5. Rec(h)
  BY <1>4
<1>6. Unescaped(str) = h[N].q
  BY DEF Unescaped, N, b
<1>7. h[N] = f[N]
  <2> HIDE DEF h
  <2>1. SameSteps(h, f, N)
    BY <1>1, <1>4, <1>5 DEF SameSteps
  <2> QED BY <1>1, <2>1, SameStepsAgree
<1>8. UnescapeRun(f, str)
  BY <1>3 DEF UnescapeRun, N, V, b
<1> HIDE DEF h
<1> QED BY <1>6, <1>7, <1>8 DEF N

\* Not more is written than has been read.
LEMMA UnescapedBytes ==
    ASSUME NEW str \in Str
    PROVE  Unescaped(str) \in Seq(Byte)
<1>1. PICK f : UnescapeRun(f, str) /\ Unescaped(str) = f[Len(str)].q
  BY UnescapeRuns
<1> DEFINE N == Len(str)
           S == {i \in 0..N : f[i].q \in Seq(Byte) /\ Len(f[i].q) <= i}
<1>2. /\ N \in Nat /\ f[0] = [q |-> <<>>, skip |-> 0]
      /\ \A i \in 0..N : f[i] \in UnescapeState(str)
      /\ \A i \in 1..N : f[i] = UnescapeStep(f[i - 1], str, i)
  <2>1. N \in Nat
    BY AtText
  <2> QED BY <1>1, <2>1 DEF UnescapeRun
<1>3. 0 \in S
  <2>1. f[0].q = <<>>
    BY <1>2
  <2>2. f[0].q \in Seq(Byte) /\ Len(f[0].q) = 0
    BY <2>1, Zenon, EmptySeq
  <2>3. 0 \in 0..N /\ Len(f[0].q) <= 0
    BY <1>2, <2>2
  <2> QED BY <2>2, <2>3, Zenon
<1>4. ASSUME NEW i \in 0..N, i < N, i \in S PROVE i + 1 \in S
  <2> DEFINE st == f[i]
             w == Written(st, str, i + 1)
             more == Append(st.q, w)
  <2>1. /\ i + 1 \in 1..N /\ (i + 1) - 1 = i /\ i + 1 \in 0..N /\ i \in Nat
        /\ st \in UnescapeState(str) /\ f[i + 1] = UnescapeStep(st, str, i + 1)
        /\ st.q \in Seq(Byte) /\ Len(st.q) \in Nat /\ Len(st.q) <= i /\ Len(st.q) < N
    BY <1>2, <1>4
  <2>2. /\ st.skip > 0 => f[i + 1] = [st EXCEPT !.skip = st.skip - 1]
        /\ ~(st.skip > 0) => f[i + 1] = [q |-> more, skip |-> IF str[i + 1] = Percent THEN 2 ELSE 0]
        /\ w \in Byte
    <3> DEFINE next == UnescapeStep(st, str, i + 1)
    <3>1. f[i + 1] = next
      BY <2>1
    <3>2. /\ st.skip > 0 => next = [st EXCEPT !.skip = st.skip - 1]
          /\ ~(st.skip > 0) => next = [q |-> more, skip |-> IF str[i + 1] = Percent THEN 2 ELSE 0]
          /\ Len(st.q) < N => w \in Byte
      <4> HIDE DEF st
      <4> QED BY <2>1, UnescapeStepIs
    <3> HIDE DEF next, st, more, w
    <3> QED BY <2>1, <3>1, <3>2, Zenon
  <2>3. more \in Seq(Byte) /\ Len(more) = Len(st.q) + 1
    BY <2>1, <2>2, AppendProperties
  <2> HIDE DEF st, more, w
  <2>4. f[i + 1].q = st.q \/ f[i + 1].q = more
    BY <2>1, <2>2 DEF UnescapeState
  <2>5. f[i + 1].q \in Seq(Byte) /\ Len(f[i + 1].q) <= i + 1
    BY <2>1, <2>3, <2>4
  <2> QED BY <2>1, <2>5
<1>5. N \in S
  <2> HIDE DEF S
  <2>1. 0..N \subseteq S
    BY <1>2, <1>3, <1>4, SetInduction
  <2> QED BY <1>2, <2>1
<1> QED BY <1>1, <1>5

LEMMA UnescapeType ==
    ASSUME NEW str \in Str
    PROVE  unescape(str) \in Str
<1> QED BY UnescapedBytes, TextUntil DEF unescape

\* What an escaped text is made of: none of the characters that separate the
\* fields of a query, and no blank.
CodeChar == Char \ {Space, Equals, Amp}

LEMMA HexChar ==
    ASSUME NEW n \in 0..15
    PROVE  /\ hex(n) \in CodeChar /\ hex(n) \notin {Percent, Plus, NUL} /\ hex(n) \in Byte
           /\ from_hex(hex(n)) = n
<1> QED BY DEF hex, CodeChar, Char, Space, Equals, Amp, Percent, Plus, NUL, Byte, from_hex

LEMMA EscapedCharType ==
    ASSUME NEW ch \in Char
    PROVE  EscapedChar(ch) \in Seq(CodeChar)
<1>1. CASE ch \in Acceptable
  <2>1. ch \in CodeChar
    BY <1>1 DEF Acceptable, CodeChar, Char, Space, Equals, Amp
  <2>2. EscapedChar(ch) = <<ch>>
    BY <1>1 DEF EscapedChar
  <2> QED BY <2>1, <2>2
<1>2. CASE ch \notin Acceptable
  <2>1. ch \div 16 \in 0..15 /\ ch % 16 \in 0..15
    BY DEF Char
  <2>2. Percent \in CodeChar
    BY DEF Percent, CodeChar, Char, Space, Equals, Amp
  <2>3. hex(ch \div 16) \in CodeChar /\ hex(ch % 16) \in CodeChar
    BY <2>1, HexChar
  <2>4. EscapedChar(ch) = <<Percent, hex(ch \div 16), hex(ch % 16)>>
    BY <1>2 DEF EscapedChar
  <2> DEFINE a == hex(ch \div 16)
             b == hex(ch % 16)
  <2> HIDE DEF a, b
  <2>5. <<Percent, a, b>> \in Seq(CodeChar)
    BY <2>2, <2>3 DEF a, b
  <2> QED BY <2>4, <2>5 DEF a, b
<1> QED BY <1>1, <1>2

LEMMA EscapeStepType ==
    ASSUME NEW str \in Str, NEW q \in Seq(CodeChar), NEW i \in 1..Len(str)
    PROVE  EscapeStep(q, str, i) \in Seq(CodeChar)
<1>1. str[i] \in Char
  BY AtText
<1>2. EscapedChar(str[i]) \in Seq(CodeChar)
  BY <1>1, EscapedCharType
<1> QED BY <1>2, ConcatProperties DEF EscapeStep

\* The states of the escaping.
EscapeRun(f, str) ==
    /\ f \in [0..Len(str) -> Seq(CodeChar)]
    /\ f[0] = <<>>
    /\ \A i \in 1..Len(str) : f[i] = EscapeStep(f[i - 1], str, i)

LEMMA EscapeRuns ==
    ASSUME NEW str \in Str
    PROVE  \E f : EscapeRun(f, str) /\ escape(str) = f[Len(str)]
<1> DEFINE N == Len(str)
           V == Seq(CodeChar)
           b == <<>>
           Rec(f) == f = [i \in 0..N |-> IF i = 0 THEN b ELSE EscapeStep(f[i - 1], str, i)]
           h == CHOOSE f : Rec(f)
           g == [p \in V \X (1..N) |-> EscapeStep(p[1], str, p[2])]
<1>1. N \in Nat /\ b \in V /\ g \in Steps(N, V)
  <2>1. N \in Nat
    BY AtText
  <2> HIDE DEF N
  <2>2. b \in V
    OBVIOUS
  <2>3. g \in Steps(N, V)
    BY EscapeStepType DEF Steps, N
  <2> QED BY <2>1, <2>2, <2>3
<1>2. PICK f : Iterates(f, N, V, b, g)
  <2> HIDE DEF N, V, b, g
  <2> QED BY <1>1, RecursionExists
<1>3. /\ f \in [0..N -> V] /\ f[0] = b
      /\ \A i \in 1..N : f[i] = EscapeStep(f[i - 1], str, i)
  <2>1. \A v \in V, i \in 1..N : g[<<v, i>>] = EscapeStep(v, str, i)
    OBVIOUS
  <2>2. \A i \in 1..N : i - 1 \in 0..N
    BY <1>1
  <2> HIDE DEF N, V, b, g
  <2> QED BY <1>2, <2>1, <2>2 DEF Iterates
<1> HIDE DEF N, V, b
<1>4. Rec(f)
  <2>1. ASSUME NEW i \in 0..N PROVE f[i] = IF i = 0 THEN b ELSE EscapeStep(f[i - 1], str, i)
    <3>1. i # 0 => i \in 1..N
      BY <1>1
    <3> QED BY <1>3, <3>1
  <2> QED BY <1>3, <2>1
<1>5. Rec(h)
  BY <1>4
<1>6. escape(str) = h[N]
  BY DEF escape, N, b
<1>7. h[N] = f[N]
  <2> HIDE DEF h
  <2>1. SameSteps(h, f, N)
    BY <1>1, <1>4, <1>5 DEF SameSteps
  <2> QED BY <1>1, <2>1, SameStepsAgree
<1>8. EscapeRun(f, str)
  BY <1>3 DEF EscapeRun, N, V, b
<1> HIDE DEF h
<1> QED BY <1>6, <1>7, <1>8 DEF N

LEMMA UrlEncodeType ==
    ASSUME NEW str \in Str
    PROVE  /\ escape(str) \in Seq(CodeChar) /\ UrlEncode(str) = escape(str)
           /\ UrlEncode(str) \in Str
<1> DEFINE q == escape(str)
<1>1. q \in Seq(CodeChar)
  <2>1. PICK f : EscapeRun(f, str) /\ escape(str) = f[Len(str)]
    BY EscapeRuns
  <2>2. Len(str) \in 0..Len(str)
    BY AtText
  <2> QED BY <2>1, <2>2 DEF EscapeRun
<1> HIDE DEF q
<1>2. \A i \in DOMAIN q : q[i] # Space /\ q[i] \in CodeChar
  <2>1. \A i \in DOMAIN q : q[i] \in CodeChar
    BY <1>1
  <2>2. \A ch \in CodeChar : ch # Space
    BY DEF CodeChar
  <2> QED BY <2>1, <2>2
<1>3. [i \in DOMAIN q |-> IF q[i] = Space THEN Plus ELSE q[i]] = q
  <2>1. q = [i \in DOMAIN q |-> q[i]]
    BY <1>1
  <2> QED BY <1>2, <2>1
<1>4. UrlEncode(str) = q
  BY <1>3, Zenon DEF UrlEncode, q
<1>5. CodeChar \subseteq Char
  BY DEF CodeChar
<1>6. q \in Str
  BY <1>1, <1>5, SeqMonotonic DEF Str
<1> QED BY <1>1, <1>4, <1>6 DEF q

(***************************************************************************)
(* The variables, and _httpd_storeData.                                    *)
(***************************************************************************)

LEMMA LeastOf ==
    ASSUME NEW S \in SUBSET Nat, S # {}
    PROVE  Least(S) \in S /\ \A j \in S : Least(S) <= j
<1>1. \E i \in S : \A j \in S : i <= j
  BY LeastNatural
<1> QED BY <1>1, Zenon DEF Least

LEMMA StrippedType ==
    ASSUME NEW name \in Str
    PROVE  Stripped(name) \in Str
<1> DEFINE text == {i \in DOMAIN name : name[i] \notin {Space, Tab}}
<1>1. /\ Len(name) \in Nat /\ text \in SUBSET Nat /\ text \subseteq 1..Len(name)
      /\ \A k \in 1..Len(name) : name[k] \in Char
  BY DEF Str
<1>2. CASE text = {}
  <2>1. Stripped(name) = <<>>
    BY <1>2, Zenon DEF Stripped
  <2> QED BY <2>1, Zenon, EmptySeq DEF Str
<1>3. CASE text # {}
  <2> DEFINE m == Least(text)
  <2>1. Stripped(name) = SubSeq(name, m, Len(name))
    BY <1>3, Zenon DEF Stripped
  <2> HIDE DEF text
  <2>2. m \in 1..Len(name)
    BY <1>1, <1>3, LeastOf
  <2> HIDE DEF m
  <2>3. \A k \in m..Len(name) : name[k] \in Char
    BY <1>1, <2>2
  <2>4. SubSeq(name, m, Len(name)) \in Seq(Char)
    BY <1>1, <2>2, <2>3, SubSeqProperties
  <2> QED BY <2>1, <2>4 DEF Str
<1> QED BY <1>2, <1>3

\* A variable has a name and at least one value.
Variable == [name : Str, values : Seq(Str) \ {<<>>}]

LEMMA VariablesAre == Variables = Seq(Variable)
<1> QED BY Zenon DEF Variables, Variable, Str

LEMMA AddVariableType ==
    ASSUME NEW list \in Variables, NEW name \in Str, NEW value \in Str
    PROVE  AddVariable(list, name, value) \in Variables
<1> DEFINE n == Stripped(name)
           P == Named(list, n)
<1>1. list \in Seq(Variable) /\ n \in Str /\ Len(list) \in Nat
  BY VariablesAre, StrippedType
<1> HIDE DEF n
<1>2. P \in SUBSET Nat /\ P \subseteq DOMAIN list
  BY <1>1 DEF Named
<1> HIDE DEF P
<1>3. CASE P = {}
  <2> DEFINE new == [name |-> n, values |-> <<value>>]
  <2>1. AddVariable(list, name, value) = Append(list, new)
    BY <1>3, Zenon DEF AddVariable, P, n
  <2>2. <<value>> \in Seq(Str) \ {<<>>}
    OBVIOUS
  <2>3. new \in Variable
    BY <1>1, <2>2 DEF Variable
  <2> HIDE DEF new
  <2>4. Append(list, new) \in Seq(Variable)
    BY <1>1, <2>3, AppendProperties
  <2> QED BY <2>1, <2>4, VariablesAre
<1>4. CASE P # {}
  <2> DEFINE i == Least(P)
             old == list[i]
             more == Append(old.values, value)
             new == [old EXCEPT !.values = more]
  <2>1. i \in DOMAIN list
    BY <1>2, <1>4, LeastOf
  <2>2. old \in Variable
    BY <1>1, <2>1
  <2>3. AddVariable(list, name, value) = [list EXCEPT ![i] = new]
    BY <1>4 DEF AddVariable, P, n
  <2> HIDE DEF i, old
  <2>4. more \in Seq(Str) \ {<<>>}
    BY <2>2, AppendProperties DEF Variable
  <2> HIDE DEF more
  <2>5. new \in Variable
    BY <2>2, <2>4 DEF Variable
  <2> HIDE DEF new
  <2>6. i \in 1..Len(list)
    BY <1>1, <2>1
  <2>7. [list EXCEPT ![i] = new] \in Seq(Variable)
    BY <1>1, <2>5, <2>6, ExceptSeq
  <2> QED BY <2>3, <2>7, VariablesAre
<1> QED BY <1>3, <1>4

\* The buffer for names is as long as the form and its end.
StoreState(form) ==
    [var : [1..Len(form) + 1 -> Byte], at : Nat, val : Str \cup {NoValue}, vars : Variables]

LEMMA NoValueIsNoText == NoValue \notin Str
<1>1. SUFFICES ASSUME NoValue \in Str PROVE FALSE
  OBVIOUS
<1>2. Len(NoValue) = 1 /\ NoValue[1] = NUL
  BY DEF NoValue
<1>3. NoValue[1] \in Char
  BY <1>1, <1>2, AtText
<1> QED BY <1>2, <1>3 DEF NUL, Char

LEMMA StoreType ==
    ASSUME NEW form \in Str, NEW st \in StoreState(form)
    PROVE  Store(st) \in Variables
<1> DEFINE M == Len(form) + 1
           name == Until(st.var, NUL)
           value == IF st.val = NoValue THEN <<>> ELSE unescape(st.val)
<1>1. M \in Nat
  BY AtText
<1>2. name \in Str
  <2>1. st.var \in [1..M -> Byte]
    BY DEF StoreState
  <2> HIDE DEF M
  <2>2. st.var \in Seq(Byte)
    BY <1>1, <2>1, SeqDef
  <2> QED BY <2>2, TextUntil
<1>3. value \in Str
  <2>1. CASE st.val = NoValue
    BY <2>1, EmptySeq DEF Str
  <2>2. CASE st.val # NoValue
    <3>1. st.val \in Str
      BY <2>2 DEF StoreState
    <3> QED BY <2>2, <3>1, UnescapeType
  <2> QED BY <2>1, <2>2
<1>4. st.vars \in Variables
  BY DEF StoreState
<1>5. Store(st) = AddVariable(st.vars, name, value)
  BY Zenon DEF Store
<1> HIDE DEF name, value
<1> QED BY <1>2, <1>3, <1>4, <1>5, AddVariableType

LEMMA PutType ==
    ASSUME NEW form \in Str, NEW st \in StoreState(form), NEW ch \in Byte
    PROVE  /\ Put(st, ch) \in StoreState(form)
           /\ Put(st, ch).at = st.at /\ Put(st, ch).val = st.val /\ Put(st, ch).vars = st.vars
           /\ Put(st, ch).var = [st.var EXCEPT ![st.at] = ch]
<1> DEFINE D == 1..Len(form) + 1
           more == [st.var EXCEPT ![st.at] = ch]
<1>1. st.var \in [D -> Byte]
  BY DEF StoreState
<1> HIDE DEF D
<1>2. more \in [D -> Byte]
  BY <1>1
<1>3. Put(st, ch) = [st EXCEPT !.var = more]
  BY DEF Put
<1> HIDE DEF more
<1>4. /\ [st EXCEPT !.var = more] \in StoreState(form)
      /\ [st EXCEPT !.var = more].at = st.at /\ [st EXCEPT !.var = more].val = st.val
      /\ [st EXCEPT !.var = more].vars = st.vars /\ [st EXCEPT !.var = more].var = more
  BY <1>2 DEF StoreState, D
<1> QED BY <1>3, <1>4 DEF more

\* What a step leads to, field by field.
Stores(st, ch, next) ==
    /\ ch = Equals => /\ next.var = [st.var EXCEPT ![st.at] = NUL] /\ next.at = st.at
                      /\ next.val = <<>> /\ next.vars = st.vars
    /\ ch \notin {Equals, Amp} /\ st.val # NoValue =>
          /\ next.var = st.var /\ next.at = st.at /\ next.vars = st.vars
          /\ next.val = Append(st.val, ch)
    /\ ch \notin {Equals, Amp} /\ st.val = NoValue =>
          /\ next.var = [st.var EXCEPT ![st.at] = ch] /\ next.at = st.at + 1
          /\ next.val = NoValue /\ next.vars = st.vars

LEMMA StoreStepIs ==
    ASSUME NEW form \in Str, NEW st \in StoreState(form), NEW ch \in Char
    PROVE  StoreStep(st, ch) \in StoreState(form) /\ Stores(st, ch, StoreStep(st, ch))
<1> DEFINE next == StoreStep(st, ch)
<1> USE DEF Stores
<1>1. NUL \in Byte /\ ch \in Byte /\ Equals # Amp
  BY DEF NUL, Byte, Char, Equals, Amp
<1>2. <<>> \in Str
  BY EmptySeq DEF Str
<1>3. CASE ch = Equals
  <2> DEFINE p == Put(st, NUL)
  <2>1. next = [p EXCEPT !.val = <<>>]
    BY <1>3 DEF StoreStep
  <2>2. /\ p \in StoreState(form) /\ p.at = st.at /\ p.vars = st.vars
        /\ p.var = [st.var EXCEPT ![st.at] = NUL]
    BY <1>1, PutType
  <2> DEFINE changed == [st.var EXCEPT ![st.at] = NUL]
             none == <<>>
  <2> HIDE DEF p, changed, none
  <2>3. none \in Str
    BY <1>2 DEF none
  <2>4. /\ [p EXCEPT !.val = none] \in StoreState(form) /\ [p EXCEPT !.val = none].at = p.at
        /\ [p EXCEPT !.val = none].vars = p.vars /\ [p EXCEPT !.val = none].var = p.var
        /\ [p EXCEPT !.val = none].val = none
    BY <2>2, <2>3 DEF StoreState
  <2> QED BY <1>1, <1>3, <2>1, <2>2, <2>4, Zenon DEF none
<1>4. CASE ch = Amp
  <2> DEFINE stored == Store(st)
  <2>1. stored \in Variables
    BY StoreType
  <2>2. next = [var |-> st.var, at |-> 1, val |-> NoValue, vars |-> stored]
    BY <1>1, <1>4 DEF StoreStep
  <2> HIDE DEF stored
  <2>3. next \in StoreState(form)
    BY <2>1, <2>2 DEF StoreState
  <2> QED BY <1>1, <1>4, <2>3
<1>5. CASE ch \notin {Equals, Amp} /\ st.val # NoValue
  <2> DEFINE more == Append(st.val, ch)
  <2>1. next = [st EXCEPT !.val = more]
    BY <1>5 DEF StoreStep
  <2>2. more \in Str
    <3>1. st.val \in Str
      BY <1>5 DEF StoreState
    <3> QED BY <3>1, AppendProperties DEF Str
  <2> HIDE DEF more
  <2>3. /\ next \in StoreState(form) /\ next.var = st.var /\ next.at = st.at
        /\ next.vars = st.vars /\ next.val = more
    BY <2>1, <2>2 DEF StoreState
  <2> QED BY <1>5, <2>3 DEF more
<1>6. CASE ch \notin {Equals, Amp} /\ st.val = NoValue
  <2> DEFINE p == Put(st, ch)
             changed == [st.var EXCEPT ![st.at] = ch]
  <2>1. next = [p EXCEPT !.at = p.at + 1]
    BY <1>6 DEF StoreStep
  <2>2. /\ p \in StoreState(form) /\ p.at = st.at /\ p.vars = st.vars /\ p.val = st.val
        /\ p.var = changed
    BY <1>1, PutType
  <2> HIDE DEF p, changed
  <2>3. /\ next \in StoreState(form) /\ next.at = p.at + 1
        /\ next.vars = p.vars /\ next.var = p.var /\ next.val = p.val
    BY <2>1, <2>2, SMTT(60) DEF StoreState
  <2> QED BY <1>6, <2>2, <2>3 DEF changed
<1> QED BY <1>3, <1>4, <1>5, <1>6

StoreStart(list, form) == [var |-> [k \in 1..Len(form) + 1 |-> NUL],
                            at |-> 1, val |-> NoValue, vars |-> list]

LEMMA StoreStartType ==
    ASSUME NEW form \in Str, NEW list \in Variables
    PROVE  StoreStart(list, form) \in StoreState(form)
<1> DEFINE D == 1..Len(form) + 1
           blank == [k \in D |-> NUL]
<1>1. blank \in [D -> Byte]
  BY DEF NUL, Byte
<1> HIDE DEF blank
<1>2. [var |-> blank, at |-> 1, val |-> NoValue, vars |-> list] \in StoreState(form)
  BY <1>1 DEF StoreState
<1> QED BY <1>2 DEF StoreStart, blank

LEMMA StoreStepType ==
    ASSUME NEW form \in Str, NEW st \in StoreState(form), NEW i \in 1..Len(form)
    PROVE  StoreStep(st, form[i]) \in StoreState(form)
<1>1. form[i] \in Char
  BY AtText
<1> QED BY <1>1, StoreStepIs

\* The last field counts if it has a value.
StoreEnd(st) == IF st.val = NoValue THEN st.vars ELSE Store(st)

\* The states of the storing.
StoreRun(f, list, form) ==
    /\ f \in [0..Len(form) -> StoreState(form)]
    /\ f[0] = StoreStart(list, form)
    /\ \A i \in 1..Len(form) : f[i] = StoreStep(f[i - 1], form[i])

LEMMA StoreRuns ==
    ASSUME NEW form \in Str, NEW list \in Variables
    PROVE  \E f : StoreRun(f, list, form) /\ storeData(list, form) = StoreEnd(f[Len(form)])
<1> DEFINE N == Len(form)
           V == StoreState(form)
           b == StoreStart(list, form)
           Rec(f) == f = [i \in 0..N |-> IF i = 0 THEN b ELSE StoreStep(f[i - 1], form[i])]
           h == CHOOSE f : Rec(f)
           g == [p \in V \X (1..N) |-> StoreStep(p[1], form[p[2]])]
<1>1. N \in Nat /\ b \in V /\ g \in Steps(N, V)
  <2>1. N \in Nat
    BY AtText
  <2>2. b \in V
    BY StoreStartType
  <2>3. g \in Steps(N, V)
    <3> HIDE DEF b
    <3> QED BY StoreStepType DEF Steps
  <2> QED BY <2>1, <2>2, <2>3
<1>2. PICK f : Iterates(f, N, V, b, g)
  <2> HIDE DEF N, V, b, g
  <2> QED BY <1>1, RecursionExists
<1>3. /\ f \in [0..N -> V] /\ f[0] = b
      /\ \A i \in 1..N : f[i] = StoreStep(f[i - 1], form[i])
  <2>1. \A v \in V, i \in 1..N : g[<<v, i>>] = StoreStep(v, form[i])
    OBVIOUS
  <2>2. \A i \in 1..N : i - 1 \in 0..N
    BY <1>1
  <2> HIDE DEF N, V, b, g
  <2> QED BY <1>2, <2>1, <2>2 DEF Iterates
<1> HIDE DEF N, V, b
<1>4. Rec(f)
  <2>1. ASSUME NEW i \in 0..N PROVE f[i] = IF i = 0 THEN b ELSE StoreStep(f[i - 1], form[i])
    <3>1. i # 0 => i \in 1..N
      BY <1>1
    <3> QED BY <1>3, <3>1
  <2> QED BY <1>3, <2>1
<1>5. Rec(h)
  BY <1>4
<1>6. storeData(list, form) = StoreEnd(h[N])
  BY DEF storeData, StoreEnd, StoreStart, N, b
<1>7. h[N] = f[N]
  <2> HIDE DEF h
  <2>1. SameSteps(h, f, N)
    BY <1>1, <1>4, <1>5 DEF SameSteps
  <2> QED BY <1>1, <2>1, SameStepsAgree
<1>8. StoreRun(f, list, form)
  BY <1>3 DEF StoreRun, N, V, b
<1> HIDE DEF h
<1> QED BY <1>6, <1>7, <1>8 DEF N

LEMMA StoreDataType ==
    ASSUME NEW form \in Str, NEW list \in Variables
    PROVE  storeData(list, form) \in Variables
<1>1. PICK f : StoreRun(f, list, form) /\ storeData(list, form) = StoreEnd(f[Len(form)])
  BY StoreRuns
<1>2. Len(form) \in 0..Len(form)
  BY AtText
<1>3. f[Len(form)] \in StoreState(form)
  BY <1>1, <1>2 DEF StoreRun
<1>4. f[Len(form)].vars \in Variables /\ Store(f[Len(form)]) \in Variables
  BY <1>3, StoreType DEF StoreState
<1> QED BY <1>1, <1>4 DEF StoreEnd

LEMMA AddressType ==
    \A scheme, h, p, q \in Str :
       scheme \o h \o p \o (IF q = <<>> THEN <<>> ELSE <<Question>> \o q) \in Str
<1> TAKE scheme, h, p, q \in Str
<1> DEFINE mark == <<Question>>
           rest == IF q = <<>> THEN <<>> ELSE mark \o q
<1>1. mark \in Str /\ <<>> \in Str
  BY DEF Str, Char, Question
<1> HIDE DEF mark
<1>2. rest \in Str
  BY <1>1, ConcatProperties DEF Str
<1> HIDE DEF rest
<1>3. scheme \o h \o p \o rest \in Str
  BY <1>1, <1>2, ConcatProperties DEF Str
<1> QED BY <1>3 DEF rest, mark

LEMMA AddressText == {host, path, query} \subseteq Str => Address \in Str
<1> SUFFICES ASSUME host \in Str, path \in Str, query \in Str PROVE Address \in Str
  OBVIOUS
<1> DEFINE scheme == <<104, 116, 116, 112, Colon, Slash, Slash>>
<1>1. scheme \in Str
  BY DEF Str, Char, Colon, Slash
<1> HIDE DEF scheme
<1>2. scheme \o host \o path \o (IF query = <<>> THEN <<>> ELSE <<Question>> \o query) \in Str
  BY <1>1, AddressType, Zenon
<1> QED BY <1>2, Zenon DEF Address, scheme

LEMMA AuthorizationText ==
    ASSUME NEW c \in Credentials
    PROVE  Until(Decode(Sextets(c.user \o <<Colon>> \o c.password)), NUL) \in Str
<1> DEFINE all == c.user \o <<Colon>> \o c.password
<1>1. c.user \in Seq(Byte) /\ c.password \in Seq(Byte)
  BY RequestAssumption
<1>2. Colon \in Byte
  BY DEF Colon, Byte
<1>3. all \in Seq(Byte)
  BY <1>1, <1>2, ConcatProperties
<1> HIDE DEF all
<1>4. Until(Decode(Sextets(all)), NUL) \in Str
  BY <1>3, DecodeSextets, TextUntil
<1> QED BY <1>4, Zenon DEF all

LEMMA PageVariablesType ==
    ASSUME NEW list \in Variables, NEW title \in Str, NEW message \in Str
    PROVE  AddVariable(AddVariable(AddVariable(list, Title, title), Message, message),
                       NodeID, <<49, 50, 51>>) \in Variables
<1> DEFINE id == <<49, 50, 51>>
           one == AddVariable(list, Title, title)
           two == AddVariable(one, Message, message)
<1>1. id \in Str
  BY DEF Str, Char
<1>2. Title \in Str /\ Message \in Str /\ NodeID \in Str
  BY RequestAssumption DEF Str
<1> HIDE DEF id
<1>3. one \in Variables
  BY <1>2, AddVariableType
<1> HIDE DEF one
<1>4. two \in Variables
  BY <1>2, <1>3, AddVariableType
<1> HIDE DEF two
<1>5. AddVariable(two, NodeID, id) \in Variables
  BY <1>1, <1>2, <1>4, AddVariableType
<1> QED BY <1>5 DEF two, one, id

\* Texts have no NUL, and every variable has a value, whatever the target, the
\* headers and their order.
THEOREM RequestTypeTheorem == Spec => []TypeOK
<1>1. Init => TypeOK
  <2>1. <<>> \in Str /\ <<>> \in Variables
    BY VariablesAre DEF Str
  <2> QED BY <2>1 DEF Init, TypeOK, Str
<1>2. TypeOK /\ [Next]_vars => TypeOK'
  <2> SUFFICES ASSUME TypeOK, [Next]_vars PROVE TypeOK'
    OBVIOUS
  <2> USE DEF TypeOK
  <2>1. /\ path \in Str /\ query \in Str /\ authUser \in Str /\ authPassword \in Str
        /\ host \in Str /\ <<>> \in Str
    BY RequestAssumption, EmptySeq DEF Str
  <2>2. ASSUME NEW t \in Target, ReadRequestLine(t) PROVE TypeOK'
    <3>1. t \in Str
      BY RequestAssumption DEF Str
    <3>2. sanitiseUrl(t) \in Seq(Char)
      BY <3>1, SanitiseClean DEF Str
    <3> QED BY <2>2, <3>2 DEF ReadRequestLine
  <2>3. CASE RejectMethod
    BY <2>3 DEF RejectMethod
  <2>4. ASSUME NEW h \in Host, ReadHost(h) PROVE TypeOK'
    BY <2>4 DEF ReadHost
  <2>5. ASSUME NEW c \in Credentials, ReadAuthorization(c) PROVE TypeOK'
    <3> DEFINE text == Until(Decode(Sextets(c.user \o <<Colon>> \o c.password)), NUL)
    <3>3. text \in Str
      BY AuthorizationText
    <3>4. /\ authUser' = Until(text, Colon)
          /\ authPassword' = IF Places(text, Colon) = {} THEN authPassword ELSE Behind(text, Colon)
          /\ sent' = c /\ UNCHANGED <<pc, target, path, query, host, variables, answer>>
      BY <2>5, Zenon DEF ReadAuthorization
    <3> HIDE DEF text
    <3>5. Colon \in Nat
      BY DEF Colon
    <3>6. authUser' \in Seq(Char)
      BY <3>3, <3>4, <3>5, TextUntil DEF Str
    <3>7. authPassword' \in Seq(Char)
      BY <2>1, <3>3, <3>4, TextBehind DEF Str
    <3> QED BY <3>4, <3>6, <3>7
  <2>6. CASE EndHeaders
    <3>1. CASE Places(path, Question) = {}
      BY <2>6, <3>1 DEF EndHeaders
    <3>2. CASE Places(path, Question) # {}
      <4>1. Question \in Nat
        BY DEF Question
      <4>2. Until(path, Question) \in Str /\ Behind(path, Question) \in Str
        BY <2>1, <3>2, <4>1, TextUntil, TextBehind
      <4>3. storeData(variables, Behind(path, Question)) \in Variables
        BY <4>2, StoreDataType
      <4> QED BY <2>6, <3>2, <4>2, <4>3 DEF EndHeaders, Str
    <3> QED BY <3>1, <3>2
  <2>7. CASE Silent
    BY <2>7 DEF Silent
  <2>8. CASE SendPage
    <3>1. Text.page \in Str
      BY RequestAssumption DEF Str
    <3>2. PageVariables(Text.page, <<>>) \in Variables
      BY <2>1, <3>1, PageVariablesType, Zenon DEF PageVariables
    <3>3. answer'.status = "200"
      BY <2>8 DEF SendPage
    <3> QED BY <2>8, <3>2, <3>3 DEF SendPage
  <2>9. CASE SendRedirect
    <3>1. Text.redirect \in Str
      BY RequestAssumption DEF Str
    <3>2. UrlEncode(Address) \in Str
      <4>1. Address \in Str
        BY <2>1, AddressText
      <4> QED BY <4>1, UrlEncodeType
    <3>3. PageVariables(Text.redirect, UrlEncode(Address)) \in Variables
      BY <3>1, <3>2, PageVariablesType, Zenon DEF PageVariables
    <3>4. answer'.status = "302" /\ variables' = PageVariables(Text.redirect, UrlEncode(Address))
      BY <2>9 DEF SendRedirect
    <3> QED BY <2>9, <3>3, <3>4 DEF SendRedirect
  <2>10. CASE UNCHANGED vars
    BY <2>10 DEF vars
  <2> QED BY <2>2, <2>3, <2>4, <2>5, <2>6, <2>7, <2>8, <2>9, <2>10 DEF Next
<1> QED BY <1>1, <1>2, PTL DEF Spec

(***************************************************************************)
(* What is escaped is read back, by _httpd_storeData and _httpd_unescape.  *)
(***************************************************************************)

\* What is written first stays where it is.
Begins(s, t) == Len(s) <= Len(t) /\ \A k \in 1..Len(s) : t[k] = s[k]

Joined(s, e, t) ==
    /\ Len(s) \in Nat /\ Len(e) \in Nat /\ Len(t) = Len(s) + Len(e)
    /\ \A k \in 1..Len(e) : t[Len(s) + k] = e[k]

LEMMA EscapeGrows ==
    ASSUME NEW x \in Str, NEW q \in Seq(CodeChar), NEW i \in 1..Len(x)
    PROVE  Begins(q, EscapeStep(q, x, i)) /\ Joined(q, EscapedChar(x[i]), EscapeStep(q, x, i))
<1> DEFINE next == EscapeStep(q, x, i)
           e == EscapedChar(x[i])
<1>1. e \in Seq(CodeChar)
  BY AtText, EscapedCharType
<1>2. next = q \o e
  BY DEF EscapeStep
<1> HIDE DEF next, e
<1>3. /\ Len(next) = Len(q) + Len(e) /\ Len(q) \in Nat /\ Len(e) \in Nat
      /\ \A k \in 1..Len(q) + Len(e) : next[k] = IF k <= Len(q) THEN q[k] ELSE e[k - Len(q)]
  BY <1>1, <1>2, ConcatProperties
<1>4. \A k \in 1..Len(q) : k \in 1..Len(q) + Len(e)
  BY <1>3
<1>5. \A k \in 1..Len(e) : /\ Len(q) + k \in 1..Len(q) + Len(e) /\ ~(Len(q) + k <= Len(q))
                          /\ (Len(q) + k) - Len(q) = k
  BY <1>3
<1>6. Begins(q, next)
  BY <1>3, <1>4 DEF Begins
<1>7. Joined(q, e, next)
  BY <1>3, <1>5 DEF Joined
<1> QED BY <1>6, <1>7 DEF next, e

LEMMA EscapeBegins ==
    ASSUME NEW x \in Str, NEW f, EscapeRun(f, x), NEW i \in 0..Len(x)
    PROVE  Begins(f[i], f[Len(x)])
<1> DEFINE N == Len(x)
           T == {n \in 0..N : i <= n => Begins(f[i], f[n])}
<1>1. /\ N \in Nat /\ \A n \in 0..N : f[n] \in Seq(CodeChar)
      /\ \A n \in 1..N : f[n] = EscapeStep(f[n - 1], x, n)
  BY AtText DEF EscapeRun
<1>2. Begins(f[i], f[i])
  BY <1>1 DEF Begins
<1>3. 0 \in T
  BY <1>1, <1>2
<1>4. ASSUME NEW n \in 0..N, n < N, n \in T PROVE n + 1 \in T
  <2>1. /\ n + 1 \in 1..N /\ (n + 1) - 1 = n /\ n + 1 \in 0..N /\ f[n] \in Seq(CodeChar)
        /\ f[n + 1] = EscapeStep(f[n], x, n + 1)
    BY <1>1, <1>4
  <2>2. Begins(f[n], f[n + 1])
    BY <2>1, EscapeGrows
  <2>3. CASE i = n + 1
    BY <1>2, <2>1, <2>3
  <2>4. CASE i <= n
    <3>1. Begins(f[i], f[n]) /\ Len(f[i]) \in Nat /\ Len(f[n]) \in Nat /\ Len(f[n + 1]) \in Nat
      BY <1>1, <1>4, <2>1, <2>4
    <3>2. Begins(f[i], f[n + 1])
      BY <2>2, <3>1 DEF Begins
    <3> QED BY <2>1, <3>2
  <2>5. CASE i > n + 1
    BY <1>1, <2>1, <2>5
  <2> QED BY <1>1, <2>3, <2>4, <2>5
<1>5. N \in T
  <2> HIDE DEF T
  <2>1. 0..N \subseteq T
    BY <1>1, <1>3, <1>4, SetInduction
  <2> QED BY <1>1, <2>1
<1> QED BY <1>1, <1>5

\* A text is spelled in another behind some characters.
Spelled(e, str, p) == p + Len(e) <= Len(str) /\ \A k \in 1..Len(e) : str[p + k] = e[k]

LEMMA Digits ==
    ASSUME NEW ch \in Char
    PROVE  ch \div 16 \in 0..15 /\ ch % 16 \in 0..15 /\ ((ch \div 16) * 16 + (ch % 16)) % 256 = ch
<1> QED BY DEF Char

\* A character that has been escaped is read back.
LEMMA ReadBack ==
    ASSUME NEW str \in Str, NEW u, UnescapeRun(u, str),
           NEW p \in Nat, NEW done \in Str, NEW ch \in Char, ch # Plus,
           u[p] = [q |-> done, skip |-> 0],
           Spelled(EscapedChar(ch), str, p)
    PROVE  u[p + Len(EscapedChar(ch))] = [q |-> Append(done, ch), skip |-> 0]
<1>1. /\ Len(str) \in Nat
      /\ \A i \in 1..Len(str) : u[i] = UnescapeStep(u[i - 1], str, i)
      /\ \A k \in 1..Len(str) : At(str, k) = str[k]
      /\ p + Len(EscapedChar(ch)) <= Len(str)
      /\ \A k \in 1..Len(EscapedChar(ch)) : str[p + k] = EscapedChar(ch)[k]
  BY AtText DEF UnescapeRun, Spelled
<1>2. CASE ch \in Acceptable
  <2>1. EscapedChar(ch) = <<ch>>
    BY <1>2 DEF EscapedChar
  <2>2. Len(EscapedChar(ch)) = 1 /\ EscapedChar(ch)[1] = ch
    BY <2>1
  <2>3. ch # Percent
    BY <1>2 DEF Acceptable, Percent
  <2>4. p + 1 \in 1..Len(str) /\ (p + 1) - 1 = p /\ str[p + 1] = ch
    BY <1>1, <2>2
  <2>5. u[p + 1] = UnescapeStep([q |-> done, skip |-> 0], str, p + 1)
    BY <1>1, <2>4
  <2>6. UnescapeStep([q |-> done, skip |-> 0], str, p + 1) = [q |-> Append(done, ch), skip |-> 0]
    BY <2>3, <2>4 DEF UnescapeStep
  <2> QED BY <2>2, <2>5, <2>6
<1>3. CASE ch \notin Acceptable
  <2> DEFINE a == ch \div 16
             b == ch % 16
             more == Append(done, ch)
  <2>1. a \in 0..15 /\ b \in 0..15 /\ (a * 16 + b) % 256 = ch
    BY Digits
  <2>2. EscapedChar(ch) = <<Percent, hex(a), hex(b)>>
    BY <1>3, Zenon DEF EscapedChar
  <2> HIDE DEF a, b
  <2>3. /\ Len(EscapedChar(ch)) = 3 /\ EscapedChar(ch)[1] = Percent
        /\ EscapedChar(ch)[2] = hex(a) /\ EscapedChar(ch)[3] = hex(b)
    <3> HIDE DEF more
    <3> QED BY <2>2
  <2>4. /\ p + 1 \in 1..Len(str) /\ (p + 1) - 1 = p /\ str[p + 1] = Percent
        /\ p + 2 \in 1..Len(str) /\ (p + 2) - 1 = p + 1 /\ str[p + 2] = hex(a)
        /\ p + 3 \in 1..Len(str) /\ (p + 3) - 1 = p + 2 /\ str[p + 3] = hex(b)
        /\ (p + 1) + 1 = p + 2 /\ (p + 1) + 2 = p + 3
    BY <1>1, <2>3
  <2> DEFINE st == [q |-> done, skip |-> 0]
  <2>5. Escaped(st, str, p + 1) = ch
    <3>1. At(str, (p + 1) + 1) = hex(a) /\ At(str, (p + 1) + 2) = hex(b)
      BY <1>1, <2>4
    <3>2. hex(a) # NUL /\ hex(b) # NUL /\ from_hex(hex(a)) = a /\ from_hex(hex(b)) = b
      BY <2>1, HexChar
    <3> HIDE DEF st
    <3>3. Escaped(st, str, p + 1) = (from_hex(hex(a)) * 16 + from_hex(hex(b))) % 256
      BY <3>1, <3>2 DEF Escaped
    <3> QED BY <2>1, <3>2, <3>3
  <2>6. u[p + 1] = [q |-> more, skip |-> 2]
    <3>1. u[p + 1] = UnescapeStep(st, str, p + 1)
      BY <1>1, <2>4
    <3>2. UnescapeStep(st, str, p + 1) = [q |-> Append(done, Escaped(st, str, p + 1)), skip |-> 2]
      BY <2>4 DEF UnescapeStep
    <3> HIDE DEF st
    <3> QED BY <2>5, <3>1, <3>2
  <2> HIDE DEF more, st
  <2>7. u[p + 2] = [q |-> more, skip |-> 1]
    <3>1. u[p + 2] = UnescapeStep(u[p + 1], str, p + 2)
      BY <1>1, <2>4
    <3>2. UnescapeStep([q |-> more, skip |-> 2], str, p + 2) = [q |-> more, skip |-> 1]
      BY DEF UnescapeStep
    <3> QED BY <2>6, <3>1, <3>2, Zenon
  <2>8. u[p + 3] = [q |-> more, skip |-> 0]
    <3>1. u[p + 3] = UnescapeStep(u[p + 2], str, p + 3)
      BY <1>1, <2>4
    <3>2. UnescapeStep([q |-> more, skip |-> 1], str, p + 3) = [q |-> more, skip |-> 0]
      BY DEF UnescapeStep
    <3> QED BY <2>7, <3>1, <3>2, Zenon
  <2> QED BY <2>3, <2>8 DEF more
<1> QED BY <1>2, <1>3

LEMMA EscapedComesBack ==
    ASSUME NEW x \in Str, Places(x, Plus) = {}
    PROVE  unescape(UrlEncode(x)) = x
<1> DEFINE N == Len(x)
           str == escape(x)
<1>1. str \in Str /\ UrlEncode(x) = str
  BY UrlEncodeType
<1> HIDE DEF str
<1>2. PICK f : EscapeRun(f, x) /\ str = f[N]
  BY EscapeRuns DEF str
<1>3. PICK u : UnescapeRun(u, str) /\ Unescaped(str) = u[Len(str)].q
  BY <1>1, UnescapeRuns
<1>4. /\ N \in Nat /\ f[0] = <<>> /\ \A n \in 0..N : f[n] \in Seq(CodeChar)
      /\ \A n \in 1..N : f[n] = EscapeStep(f[n - 1], x, n)
  BY <1>2, AtText DEF EscapeRun
<1>5. u[0] = [q |-> <<>>, skip |-> 0]
  BY <1>3 DEF UnescapeRun
<1> DEFINE T == {n \in 0..N : u[Len(f[n])] = [q |-> SubSeq(x, 1, n), skip |-> 0]}
<1>6. 0 \in T
  <2>1. SubSeq(x, 1, 0) = <<>>
    BY SubSeqEmpty
  <2>2. Len(f[0]) = 0
    BY <1>4
  <2>3. u[Len(f[0])] = [q |-> SubSeq(x, 1, 0), skip |-> 0]
    BY <1>5, <2>1, <2>2, Zenon
  <2> QED BY <1>4, <2>3
<1>7. ASSUME NEW n \in 0..N, n < N, n \in T PROVE n + 1 \in T
  <2> DEFINE done == SubSeq(x, 1, n)
             ch == x[n + 1]
             e == EscapedChar(ch)
             p == Len(f[n])
  <2>1. /\ n + 1 \in 1..N /\ (n + 1) - 1 = n /\ n + 1 \in 0..N /\ f[n] \in Seq(CodeChar)
        /\ f[n + 1] = EscapeStep(f[n], x, n + 1)
    BY <1>4, <1>7
  <2>2. done \in Str /\ SubSeq(x, 1, n + 1) = Append(done, ch)
    BY <1>7, PrefixGrows DEF Str
  <2>3. ch \in Char /\ ch # Plus
    BY <2>1, AtText DEF Places, Str
  <2>4. /\ p \in Nat /\ Len(f[n + 1]) = p + Len(e) /\ Len(e) \in Nat
        /\ \A k \in 1..Len(e) : f[n + 1][p + k] = e[k]
    <3> DEFINE next == EscapeStep(f[n], x, n + 1)
    <3> HIDE DEF T
    <3>1. /\ p \in Nat /\ Len(next) = p + Len(e) /\ Len(e) \in Nat
          /\ \A k \in 1..Len(e) : next[p + k] = e[k]
      <4>1. Joined(f[n], e, next)
        BY <2>1, EscapeGrows
      <4> HIDE DEF next, e
      <4> QED BY <4>1 DEF Joined
    <3> HIDE DEF next, p, e
    <3>2. f[n + 1] = next
      BY <2>1 DEF next
    <3> QED BY <3>1, <3>2
  <2>5. Begins(f[n + 1], str)
    BY <1>2, <2>1, EscapeBegins
  <2>6. Spelled(e, str, p)
    <3> HIDE DEF p, e
    <3>1. \A k \in 1..Len(e) : p + k \in 1..Len(f[n + 1])
      BY <2>4
    <3> QED BY <2>4, <2>5, <3>1 DEF Begins, Spelled
  <2>7. u[p] = [q |-> done, skip |-> 0]
    BY <1>7
  <2> HIDE DEF done, ch, p, T, N
  <2>8. u[p + Len(e)] = [q |-> Append(done, ch), skip |-> 0]
    <3>1. str \in Str /\ p \in Nat /\ done \in Str
      BY <1>1, <2>2, <2>4
    <3>2. UnescapeRun(u, str)
      BY <1>3
    <3> QED BY <2>3, <2>6, <2>7, <3>1, <3>2, ReadBack, SMTT(30)
  <2> HIDE DEF e
  <2>9. u[Len(f[n + 1])] = [q |-> SubSeq(x, 1, n + 1), skip |-> 0]
    BY <2>2, <2>4, <2>8, Zenon
  <2> QED BY <2>1, <2>9 DEF T
<1>8. N \in T
  <2> HIDE DEF T
  <2>1. 0..N \subseteq T
    BY <1>4, <1>6, <1>7, SetInduction
  <2> QED BY <1>4, <2>1
<1>9. Unescaped(str) = x
  <2>1. SubSeq(x, 1, N) = x
    BY SubSeqFull DEF Str
  <2>2. u[Len(str)] = [q |-> x, skip |-> 0]
    BY <1>2, <1>8, <2>1
  <2> QED BY <1>3, <2>2
<1> QED BY <1>1, <1>9, NoNul, Zenon DEF unescape

\* The parameter's name, as the buffer holds it when its value is read.
NameOf(var) == var \in Seq(Byte) /\ Len(var) >= 2 /\ var[1] = 117 /\ var[2] = NUL

LEMMA NameRead ==
    ASSUME NEW var, NameOf(var)
    PROVE  Stripped(Until(var, NUL)) = <<117>>
<1> DEFINE u == <<117>>
           P == Places(var, NUL)
<1>1. /\ var \in Seq(Byte) /\ Len(var) \in Nat /\ Len(var) >= 2
      /\ DOMAIN var = 1..Len(var) /\ var[1] = 117 /\ var[2] = NUL /\ NUL # 117
  BY DEF NameOf, NUL
<1>2. 2 \in P
  BY <1>1 DEF Places
<1>3. Least(P) = 2
  <2> DEFINE m == Least(P)
  <2>1. m \in 1..Len(var) /\ var[m] = NUL /\ \A j \in 1..Len(var) : var[j] = NUL => m <= j
    BY <1>1, <1>2, LeastPlace
  <2> HIDE DEF m, P
  <2>2. m <= 2 /\ m # 1 /\ m \in Nat \ {0}
    BY <1>1, <2>1
  <2> QED BY <2>2 DEF m
<1>4. Until(var, NUL) = SubSeq(var, 1, 1)
  <2>1. P # {} /\ Least(P) - 1 = 1
    BY <1>2, <1>3
  <2> QED BY <2>1 DEF Until
<1>5. SubSeq(var, 1, 1) = u
  <2> DEFINE w == SubSeq(var, 1, 1)
  <2>1. u \in Seq(Byte) /\ Len(u) = 1 /\ u[1] = 117
    BY DEF Byte
  <2>2. w \in Seq(Byte) /\ Len(w) = 1 /\ w[1] = var[1]
    <3>1. \A i \in 1..1 : var[i] \in Byte
      BY <1>1
    <3>2. /\ w \in Seq(Byte) /\ Len(w) = IF 1 <= 1 THEN 1 - 1 + 1 ELSE 0
          /\ \A i \in 1..1 - 1 + 1 : w[i] = var[1 + i - 1]
      BY <3>1, SubSeqProperties
    <3> HIDE DEF w
    <3> QED BY <3>2
  <2> HIDE DEF u, w
  <2>3. w = u
    BY <1>1, <2>1, <2>2, SeqEqual
  <2> QED BY <2>3 DEF w
<1>6. Stripped(u) = u
  <2> DEFINE text == {i \in DOMAIN u : u[i] \notin {Space, Tab}}
  <2>1. text = {1}
    BY DEF Space, Tab
  <2>2. Least({1}) = 1
    <3>1. Least({1}) \in {1}
      BY LeastOf
    <3> QED BY <3>1
  <2>3. Len(u) = 1 /\ u \in Seq(Byte)
    BY DEF Byte
  <2>4. SubSeq(u, 1, Len(u)) = u
    BY <2>3, SubSeqFull
  <2> HIDE DEF u
  <2>5. Stripped(u) = SubSeq(u, 1, Len(u))
    <3>1. text # {} /\ Least(text) = 1
      BY <2>1, <2>2
    <3> QED BY <3>1 DEF Stripped
  <2> QED BY <2>4, <2>5
<1> HIDE DEF u
<1>7. Stripped(Until(var, NUL)) = u
  BY <1>4, <1>5, <1>6
<1> QED BY <1>7 DEF u

LEMMA FirstVariable ==
    ASSUME NEW name, NEW value
    PROVE  AddVariable(<<>>, name, value) = << [name |-> Stripped(name), values |-> <<value>>] >>
<1> DEFINE new == [name |-> Stripped(name), values |-> <<value>>]
<1>1. Named(<<>>, Stripped(name)) = {}
  BY DEF Named
<1>2. AddVariable(<<>>, name, value) = Append(<<>>, new)
  BY <1>1, Zenon DEF AddVariable
<1> HIDE DEF new
<1>3. Append(<<>>, new) = <<new>>
  OBVIOUS
<1> QED BY <1>2, <1>3 DEF new

\* A query of one field, whose value has neither equals sign nor ampersand.
Query(e) == <<117, Equals>> \o e

LEMMA FieldRead ==
    ASSUME NEW e \in Seq(CodeChar), unescape(e) \in Str
    PROVE  storeData(<<>>, Query(e)) = << [name |-> <<117>>, values |-> <<unescape(e)>>] >>
<1> DEFINE head == <<117, Equals>>
           form == Query(e)
<1>1. head \in Str /\ Len(head) = 2 /\ head[1] = 117 /\ head[2] = Equals
  <2>1. 117 \in Char /\ Equals \in Char
    BY DEF Char, Equals
  <2> QED BY <2>1 DEF Str
<1>2. e \in Str /\ Len(e) \in Nat /\ \A k \in 1..Len(e) : e[k] \in Char /\ e[k] \notin {Equals, Amp}
  <2>1. CodeChar \subseteq Char
    BY DEF CodeChar
  <2>2. e \in Str
    BY <2>1, SeqMonotonic DEF Str
  <2>3. \A k \in 1..Len(e) : e[k] \in CodeChar
    OBVIOUS
  <2>4. \A ch \in CodeChar : ch \in Char /\ ch \notin {Equals, Amp}
    BY DEF CodeChar
  <2> QED BY <2>2, <2>3, <2>4, AtText
<1> DEFINE M == Len(form)
<1>3. /\ form \in Str /\ M = 2 + Len(e) /\ M \in Nat /\ form[1] = 117 /\ form[2] = Equals
      /\ \A k \in 1..Len(e) : form[2 + k] = e[k]
  <2>1. form = head \o e
    BY DEF Query
  <2> HIDE DEF head, form
  <2>2. /\ form \in Str /\ M = Len(head) + Len(e)
        /\ \A k \in 1..Len(head) + Len(e) :
              form[k] = IF k <= Len(head) THEN head[k] ELSE e[k - Len(head)]
    <3>1. head \in Seq(Char) /\ e \in Seq(Char)
      BY <1>1, <1>2 DEF Str
    <3> QED BY <2>1, <3>1, ConcatProperties DEF Str
  <2>3. form[1] = 117 /\ form[2] = Equals /\ M \in Nat
    BY <1>1, <1>2, <2>2
  <2>4. ASSUME NEW k \in 1..Len(e) PROVE form[2 + k] = e[k]
    <3>1. 2 + k \in 1..Len(head) + Len(e) /\ ~(2 + k <= Len(head)) /\ (2 + k) - Len(head) = k
      BY <1>1, <1>2
    <3> QED BY <2>2, <3>1
  <2> QED BY <1>1, <2>2, <2>3, <2>4
<1> HIDE DEF form
<1>4. <<>> \in Variables
  BY VariablesAre
<1>5. PICK f : StoreRun(f, <<>>, form) /\ storeData(<<>>, form) = StoreEnd(f[M])
  BY <1>3, <1>4, StoreRuns
<1>6. /\ f[0] = StoreStart(<<>>, form)
      /\ \A n \in 0..M : f[n] \in StoreState(form)
      /\ \A n \in 1..M : f[n] = StoreStep(f[n - 1], form[n])
  BY <1>5 DEF StoreRun
<1> DEFINE D == 1..M + 1
           blank == [k \in D |-> NUL]
           one == [blank EXCEPT ![1] = 117]
           var == [one EXCEPT ![2] = NUL]
<1>7. /\ f[0].var = blank /\ f[0].at = 1 /\ f[0].val = NoValue /\ f[0].vars = <<>>
  BY <1>6 DEF StoreStart
<1>8. 117 \in Char /\ 117 \notin {Equals, Amp} /\ Equals \in Char
  BY DEF Char, Equals, Amp
<1>9. NoValue \notin Str /\ <<>> \in Str
  BY NoValueIsNoText, EmptySeq DEF Str
<1>10. /\ f[1].var = one /\ f[1].at = 2 /\ f[1].val = NoValue /\ f[1].vars = <<>>
  <2>1. f[1] = StoreStep(f[0], 117) /\ f[0] \in StoreState(form)
    BY <1>3, <1>6
  <2>2. /\ f[1].var = [f[0].var EXCEPT ![f[0].at] = 117] /\ f[1].at = f[0].at + 1
        /\ f[1].val = NoValue /\ f[1].vars = f[0].vars
    <3>1. Stores(f[0], 117, StoreStep(f[0], 117))
      BY <1>3, <1>8, <2>1, StoreStepIs
    <3> QED BY <1>7, <1>8, <2>1, <3>1, Zenon DEF Stores
  <2> HIDE DEF blank
  <2> QED BY <1>7, <2>2
<1> HIDE DEF one
<1>11. /\ f[2].var = var /\ f[2].val = <<>> /\ f[2].vars = <<>>
  <2>1. f[2] = StoreStep(f[1], Equals) /\ f[1] \in StoreState(form)
    BY <1>3, <1>6
  <2>2. /\ f[2].var = [f[1].var EXCEPT ![f[1].at] = NUL] /\ f[2].at = f[1].at
        /\ f[2].val = <<>> /\ f[2].vars = f[1].vars
    <3>1. Stores(f[1], Equals, StoreStep(f[1], Equals))
      BY <1>3, <1>8, <2>1, StoreStepIs
    <3> QED BY <2>1, <3>1, Zenon DEF Stores
  <2> QED BY <1>10, <2>2
<1>12. NameOf(var)
  <2>1. one \in [D -> Byte] /\ 1 \in D /\ 2 \in D /\ one[1] = 117
    <3>1. blank \in [D -> Byte] /\ 117 \in Byte /\ 1 \in D /\ 2 \in D
      BY <1>3 DEF Byte, NUL
    <3> HIDE DEF blank, D
    <3> QED BY <3>1 DEF one
  <2>2. var \in [D -> Byte] /\ var[1] = 117 /\ var[2] = NUL
    <3>1. NUL \in Byte
      BY DEF NUL, Byte
    <3> HIDE DEF D
    <3> QED BY <2>1, <3>1
  <2> HIDE DEF var
  <2>3. var \in Seq(Byte)
    BY <1>3, <2>2, SeqDef, SMTT(60)
  <2>4. DOMAIN var = D
    BY <2>2
  <2>5. Len(var) >= 2
    BY <1>3, <2>3, <2>4, LenProperties
  <2> QED BY <2>2, <2>3, <2>5 DEF NameOf
<1> HIDE DEF var, D, blank
<1> DEFINE T == {k \in 0..Len(e) : /\ f[2 + k].var = var /\ f[2 + k].vars = <<>>
                                   /\ f[2 + k].val = SubSeq(e, 1, k)}
<1>13. 0 \in T
  <2>1. SubSeq(e, 1, 0) = <<>> /\ 2 + 0 = 2
    BY SubSeqEmpty
  <2>2. f[2 + 0].var = var /\ f[2 + 0].vars = <<>> /\ f[2 + 0].val = SubSeq(e, 1, 0)
    BY <1>11, <2>1, Zenon
  <2>3. 0 \in 0..Len(e)
    BY <1>2
  <2> QED BY <2>2, <2>3, Zenon
<1>14. ASSUME NEW k \in 0..Len(e), k < Len(e), k \in T PROVE k + 1 \in T
  <2> DEFINE n == 2 + k
             ch == e[k + 1]
  <2>1. /\ k + 1 \in 1..Len(e) /\ k + 1 \in 0..Len(e) /\ n + 1 = 2 + (k + 1) /\ n \in 0..M
        /\ n + 1 \in 1..M /\ (n + 1) - 1 = n
    BY <1>2, <1>3, <1>14
  <2>2. form[n + 1] = ch /\ ch \in Char /\ ch \notin {Equals, Amp}
    BY <1>2, <1>3, <2>1
  <2>3. f[n + 1] = StoreStep(f[n], ch) /\ f[n] \in StoreState(form)
    BY <1>6, <2>1, <2>2
  <2>4. /\ SubSeq(e, 1, k) \in Str
        /\ SubSeq(e, 1, k + 1) = Append(SubSeq(e, 1, k), ch)
    BY <1>2, <1>14, PrefixGrows DEF Str
  <2>5. /\ f[n].var = var /\ f[n].vars = <<>> /\ f[n].val = SubSeq(e, 1, k)
    BY <1>14
  <2>6. f[n].val # NoValue
    BY <1>9, <2>4, <2>5
  <2> DEFINE next == f[n + 1]
  <2>7. /\ next.var = f[n].var /\ next.vars = f[n].vars /\ next.val = Append(f[n].val, ch)
    <3> HIDE DEF n, ch
    <3>1. Stores(f[n], ch, StoreStep(f[n], ch))
      BY <1>3, <2>2, <2>3, StoreStepIs
    <3> QED BY <2>2, <2>3, <2>6, <3>1, Zenon DEF Stores
  <2>8. next.var = var /\ next.vars = <<>> /\ next.val = SubSeq(e, 1, k + 1)
    BY <2>4, <2>5, <2>7, Zenon
  <2> QED BY <2>1, <2>8, Zenon
<1>15. Len(e) \in T
  <2> HIDE DEF T
  <2>1. 0..Len(e) \subseteq T
    BY <1>2, <1>13, <1>14, SetInduction
  <2> QED BY <1>2, <2>1
<1>16. f[M].var = var /\ f[M].vars = <<>> /\ f[M].val = e
  <2>1. SubSeq(e, 1, Len(e)) = e
    BY SubSeqFull
  <2> QED BY <1>3, <1>15, <2>1
<1>17. StoreEnd(f[M]) = AddVariable(<<>>, Until(var, NUL), unescape(e))
  <2>1. e # NoValue
    BY <1>2, <1>9
  <2> QED BY <1>16, <2>1 DEF StoreEnd, Store
<1>18. Stripped(Until(var, NUL)) = <<117>>
  BY <1>12, NameRead
<1>19. AddVariable(<<>>, Until(var, NUL), unescape(e))
          = << [name |-> Stripped(Until(var, NUL)), values |-> <<unescape(e)>>] >>
  BY FirstVariable
<1> QED BY <1>5, <1>17, <1>18, <1>19, Zenon DEF form

LEMMA AddressRead ==
    ASSUME NEW x \in Str, Places(x, Plus) = {}
    PROVE  storeData(<<>>, <<117, Equals>> \o UrlEncode(x))
               = << [name |-> <<117>>, values |-> <<x>>] >>
<1> DEFINE e == UrlEncode(x)
<1>1. e \in Seq(CodeChar)
  <2>1. escape(x) \in Seq(CodeChar) /\ UrlEncode(x) = escape(x)
    BY UrlEncodeType
  <2> QED BY <2>1
<1>2. unescape(e) = x
  BY EscapedComesBack
<1> HIDE DEF e
<1>3. storeData(<<>>, Query(e)) = << [name |-> <<117>>, values |-> <<unescape(e)>>] >>
  BY <1>1, <1>2, FieldRead
<1> QED BY <1>2, <1>3, Zenon DEF Query, e

\* A redirect carries the address, which nothing changes any more.
Redirected ==
    answer.status = "302" =>
        /\ pc = "done"
        /\ Len(UrlEncode(Address)) <= Room => answer.location = UrlEncode(Address)

\* The address asked for can be read off a redirect as the portal reads any form:
\* nothing of it is lost or taken for a separator.
THEOREM RedirectTheorem == Spec => []RedirectReturns
<1>1. Init => Redirected
  BY DEF Init, Redirected
<1>2. Redirected /\ [Next]_vars => Redirected'
  <2> SUFFICES ASSUME Redirected, [Next]_vars PROVE Redirected'
    OBVIOUS
  <2>1. CASE pc # "done" /\ UNCHANGED answer
    BY <2>1 DEF Redirected
  <2>2. CASE UNCHANGED <<pc, host, path, query, answer>>
    <3>1. UNCHANGED Address
      BY <2>2 DEF Address
    <3> QED BY <2>2, <3>1 DEF Redirected
  <2>3. CASE answer'.status # "302"
    BY <2>3 DEF Redirected
  <2>4. CASE SendRedirect
    <3>1. UNCHANGED Address
      BY <2>4 DEF SendRedirect, Address
    <3> DEFINE url == UrlEncode(Address)
    <3>2. pc' = "done" /\ answer'.location = IF Len(url) <= Room THEN url ELSE SubSeq(url, 1, Room)
      BY <2>4, Zenon DEF SendRedirect
    <3> QED BY <3>1, <3>2 DEF Redirected
  <2>5. CASE RejectMethod
    BY <2>3, <2>5 DEF RejectMethod
  <2>6. CASE SendPage
    <3>1. answer' = [status |-> "200", page |-> Shown(variables')]
      BY <2>6, Zenon DEF SendPage
    <3> QED BY <2>3, <3>1
  <2> QED BY <2>1, <2>2, <2>4, <2>5, <2>6 DEF Next, vars, ReadRequestLine, ReadHost,
                                              ReadAuthorization, EndHeaders, Silent
<1>3. TypeOK /\ Redirected => RedirectReturns
  <2> SUFFICES ASSUME TypeOK, Redirected, answer.status = "302", Places(Address, Plus) = {},
                      Len(UrlEncode(Address)) <= Room
               PROVE  storeData(<<>>, <<117, Equals>> \o answer.location)
                          = << [name |-> <<117>>, values |-> <<Address>>] >>
    BY DEF RedirectReturns
  <2>1. answer.location = UrlEncode(Address)
    BY DEF Redirected
  <2>2. Address \in Str
    <3>1. host \in Str /\ path \in Str /\ query \in Str
      BY RequestAssumption, EmptySeq DEF TypeOK, Str
    <3> QED BY <3>1, AddressText
  <2> DEFINE x == Address
  <2> HIDE DEF x
  <2>3. storeData(<<>>, <<117, Equals>> \o UrlEncode(x))
               = << [name |-> <<117>>, values |-> <<x>>] >>
    BY <2>2, AddressRead DEF x
  <2> QED BY <2>1, <2>3, Zenon DEF x
<1>4. Spec => []TypeOK
  BY RequestTypeTheorem
<1> QED BY <1>1, <1>2, <1>3, <1>4, PTL DEF Spec

(***************************************************************************)
(* What the variables of a request are: the values of each name.           *)
(***************************************************************************)

\* The value of a field that has been read so far: behind the last equals sign.
ValueText(c) ==
    IF Places(c, Equals) = {} THEN NoValue
    ELSE SubSeq(c, Greatest(Places(c, Equals)) + 1, Len(c))

LEMMA GreatestOf ==
    ASSUME NEW N \in Nat, NEW S, S \subseteq 1..N, S # {}
    PROVE  Greatest(S) \in S /\ \A j \in S : Greatest(S) >= j
<1> DEFINE T == {n \in Nat : \E i \in S : n = N - i}
<1>1. T \in SUBSET Nat /\ T # {}
  <2>1. \A i \in S : N - i \in Nat
    OBVIOUS
  <2>2. PICK i \in S : TRUE
    OBVIOUS
  <2> QED BY <2>1, <2>2
<1>2. PICK n \in T : \A m \in T : n <= m
  BY <1>1, LeastNatural
<1>3. PICK i \in S : n = N - i
  OBVIOUS
<1>4. \A j \in S : i >= j
  <2> SUFFICES ASSUME NEW j \in S PROVE i >= j
    OBVIOUS
  <2>1. N - j \in T /\ i \in 1..N /\ j \in 1..N
    OBVIOUS
  <2> HIDE DEF T
  <2>2. n <= N - j
    BY <1>2, <2>1
  <2> QED BY <1>3, <2>1, <2>2
<1> QED BY <1>4, Zenon DEF Greatest

LEMMA ValueTextType ==
    ASSUME NEW c \in Str
    PROVE  /\ ValueText(c) \in Str \cup {NoValue}
           /\ Places(c, Equals) # {} => ValueText(c) \in Str
<1>1. CASE Places(c, Equals) = {}
  BY <1>1 DEF ValueText
<1>2. CASE Places(c, Equals) # {}
  <2> DEFINE m == Greatest(Places(c, Equals))
  <2>1. Len(c) \in Nat /\ Places(c, Equals) \subseteq 1..Len(c)
    BY AtText DEF Places, Str
  <2>2. m \in 1..Len(c)
    BY <1>2, <2>1, GreatestOf
  <2>3. ValueText(c) = SubSeq(c, m + 1, Len(c))
    BY <1>2, Zenon DEF ValueText
  <2> HIDE DEF m
  <2>4. \A k \in m + 1..Len(c) : c[k] \in Char
    BY <2>1, <2>2, AtText
  <2>5. SubSeq(c, m + 1, Len(c)) \in Seq(Char)
    BY <2>1, <2>2, <2>4, SubSeqProperties
  <2> QED BY <2>3, <2>5 DEF Str
<1> QED BY <1>1, <1>2

LEMMA FieldTypes ==
    ASSUME NEW f \in Str
    PROVE  FieldName(f) \in Str /\ FieldValue(f) \in Str
<1>1. Until(f, Equals) \in Str
  <2>1. Equals \in Nat
    BY DEF Equals
  <2> QED BY <2>1, TextUntil
<1>2. FieldName(f) \in Str
  BY <1>1, StrippedType DEF FieldName
<1>3. CASE Places(f, Equals) = {}
  <2>1. FieldValue(f) = <<>> /\ <<>> \in Str
    BY <1>3, EmptySeq, Zenon DEF FieldValue, Str
  <2> QED BY <1>2, <2>1, Zenon
<1>4. CASE Places(f, Equals) # {}
  <2>1. FieldValue(f) = unescape(ValueText(f))
    BY <1>4, Zenon DEF FieldValue, ValueText
  <2>2. ValueText(f) \in Str
    BY <1>4, ValueTextType
  <2> QED BY <1>2, <2>1, <2>2, UnescapeType
<1> QED BY <1>3, <1>4

LEMMA ValuesOfStep ==
    ASSUME NEW name
    PROVE  \A v \in Seq(Str), e \in Str :
               (IF FieldName(e) # name THEN v ELSE Append(v, FieldValue(e))) \in Seq(Str)
<1> SUFFICES ASSUME NEW v \in Seq(Str), NEW e \in Str
             PROVE  (IF FieldName(e) # name THEN v ELSE Append(v, FieldValue(e))) \in Seq(Str)
  OBVIOUS
<1>1. Append(v, FieldValue(e)) \in Seq(Str)
  BY FieldTypes, AppendProperties
<1> QED BY <1>1

\* The states of ValuesOf.
ValuesRun(f, fields, name) ==
    /\ f \in [0..Len(fields) -> Seq(Str)]
    /\ f[0] = <<>>
    /\ \A i \in 1..Len(fields) : f[i] =
           (IF FieldName(fields[i]) # name THEN f[i - 1]
            ELSE Append(f[i - 1], FieldValue(fields[i])))

LEMMA ValuesRuns ==
    ASSUME NEW name, NEW fields \in Seq(Str)
    PROVE  \E f : ValuesRun(f, fields, name) /\ ValuesOf(fields, name) = f[Len(fields)]
<1> DEFINE N == Len(fields)
           V == Seq(Str)
           b == <<>>
           Step(v, x) == (IF FieldName(x) # name THEN v ELSE Append(v, FieldValue(x)))
           Rec(f) == f = [i \in 0..N |-> IF i = 0 THEN b ELSE Step(f[i - 1], fields[i])]
           h == CHOOSE f : Rec(f)
           g == [p \in V \X (1..N) |-> Step(p[1], fields[p[2]])]
<1>1. N \in Nat /\ b \in V /\ g \in Steps(N, V)
  <2>1. b \in V
    BY EmptySeq
  <2>2. \A v \in V, e \in Str : Step(v, e) \in V
    BY ValuesOfStep
  <2>3. \A i \in 1..N : fields[i] \in Str
    OBVIOUS
  <2> HIDE DEF V, b, Step
  <2>4. g \in Steps(N, V)
    BY <2>2, <2>3, Zenon DEF Steps
  <2> QED BY <2>1, <2>4
<1> HIDE DEF Step
<1>2. PICK f : Iterates(f, N, V, b, g)
  <2> HIDE DEF N, V, b, g
  <2> QED BY <1>1, RecursionExists
<1>3. /\ f \in [0..N -> V] /\ f[0] = b
      /\ \A i \in 1..N : f[i] = Step(f[i - 1], fields[i])
  <2>1. \A v \in V, i \in 1..N : g[<<v, i>>] = Step(v, fields[i])
    <3> HIDE DEF V, b
    <3> QED BY Zenon
  <2>2. \A i \in 1..N : i - 1 \in 0..N
    BY <1>1
  <2> HIDE DEF N, V, b, g
  <2> QED BY <1>2, <2>1, <2>2 DEF Iterates
<1> HIDE DEF N, V, b
<1>4. Rec(f)
  <2>1. ASSUME NEW i \in 0..N PROVE f[i] = IF i = 0 THEN b ELSE Step(f[i - 1], fields[i])
    <3>1. i # 0 => i \in 1..N
      BY <1>1
    <3> QED BY <1>3, <3>1
  <2> QED BY <1>3, <2>1
<1>5. Rec(h)
  BY <1>4
<1>6. ValuesOf(fields, name) = h[N]
  BY DEF ValuesOf, N, b, Step
<1>7. h[N] = f[N]
  <2> HIDE DEF h
  <2>1. SameSteps(h, f, N)
    BY <1>1, <1>4, <1>5 DEF SameSteps
  <2> QED BY <1>1, <2>1, SameStepsAgree
<1>8. ValuesRun(f, fields, name)
  BY <1>3 DEF ValuesRun, N, V, b, Step
<1> HIDE DEF h
<1> QED BY <1>6, <1>7, <1>8 DEF N

\* One field more.
LEMMA ValuesAppend ==
    ASSUME NEW name, NEW fields \in Seq(Str), NEW e \in Str
    PROVE  /\ ValuesOf(fields, name) \in Seq(Str)
           /\ ValuesOf(Append(fields, e), name) =
                  (IF FieldName(e) # name THEN ValuesOf(fields, name)
                   ELSE Append(ValuesOf(fields, name), FieldValue(e)))
<1> DEFINE N == Len(fields)
           more == Append(fields, e)
<1>1. /\ N \in Nat /\ more \in Seq(Str) /\ Len(more) = N + 1
      /\ more[N + 1] = e /\ \A n \in 1..N : more[n] = fields[n]
  BY AppendProperties
<1>2. PICK f : ValuesRun(f, fields, name) /\ ValuesOf(fields, name) = f[N]
  BY ValuesRuns
<1>3. PICK d : ValuesRun(d, more, name) /\ ValuesOf(more, name) = d[N + 1]
  <2> HIDE DEF more
  <2> QED BY <1>1, ValuesRuns
<1> HIDE DEF more, N
<1>4. SameSteps(d, f, N)
  <2>1. f[0] = <<>> /\ \A i \in 1..N : f[i] =
            (IF FieldName(fields[i]) # name THEN f[i - 1]
             ELSE Append(f[i - 1], FieldValue(fields[i])))
    BY <1>2 DEF ValuesRun, N
  <2>2. d[0] = <<>> /\ \A i \in 1..N : d[i] =
            (IF FieldName(fields[i]) # name THEN d[i - 1]
             ELSE Append(d[i - 1], FieldValue(fields[i])))
    <3>1. \A i \in 1..N : i \in 1..Len(more)
      BY <1>1
    <3> QED BY <1>1, <1>3, <3>1, Zenon DEF ValuesRun
  <2> QED BY <2>1, <2>2 DEF SameSteps
<1>5. d[N] = f[N]
  BY <1>1, <1>4, SameStepsAgree
<1>6. f[N] \in Seq(Str)
  BY <1>1, <1>2 DEF ValuesRun, N
<1>7. d[N + 1] = (IF FieldName(e) # name THEN d[N] ELSE Append(d[N], FieldValue(e)))
  <2>1. N + 1 \in 1..Len(more) /\ (N + 1) - 1 = N
    BY <1>1
  <2> QED BY <1>1, <1>3, <2>1, Zenon DEF ValuesRun
<1> QED BY <1>2, <1>3, <1>5, <1>6, <1>7, Zenon DEF more

\* Of nothing.
LEMMA ValuesEmpty ==
    ASSUME NEW name, TRUE
    PROVE  ValuesOf(<<>>, name) = <<>>
<1>1. <<>> \in Seq(Str) /\ Len(<<>>) = 0
  BY EmptySeq
<1>2. PICK f : ValuesRun(f, <<>>, name) /\ ValuesOf(<<>>, name) = f[Len(<<>>)]
  BY <1>1, ValuesRuns
<1> QED BY <1>1, <1>2, Zenon DEF ValuesRun


\* The values that a list has for a name.
ValuesIn(list, name) ==
    IF Named(list, name) = {} THEN <<>> ELSE list[Least(Named(list, name))].values

\* No name twice.
Distinct(list) == \A i, j \in DOMAIN list : list[i].name = list[j].name => i = j

Names(list) == {list[i].name : i \in DOMAIN list}

\* A value more for one name, nothing else.
Adds(list, n, value, next) ==
    /\ Distinct(next)
    /\ Names(next) = Names(list) \cup {n}
    /\ \A name : ValuesIn(next, name) =
          IF name = n THEN Append(ValuesIn(list, name), value) ELSE ValuesIn(list, name)

\* In a list without doublets a name has one place.
LEMMA OnePlace ==
    ASSUME NEW list \in Variables, Distinct(list), NEW i \in DOMAIN list
    PROVE  ValuesIn(list, list[i].name) = list[i].values
<1> DEFINE P == Named(list, list[i].name)
<1>1. list \in Seq(Variable) /\ DOMAIN list = 1..Len(list) /\ Len(list) \in Nat
  BY VariablesAre
<1>2. i \in P /\ P \in SUBSET Nat /\ \A j \in P : j = i
  BY <1>1 DEF Named, Distinct
<1>3. Least(P) \in P
  BY <1>2, LeastOf
<1>4. Least(P) = i
  BY <1>2, <1>3
<1> QED BY <1>2, <1>4 DEF ValuesIn

LEMMA NoPlace ==
    ASSUME NEW list, NEW name, name \notin Names(list)
    PROVE  ValuesIn(list, name) = <<>>
<1>1. Named(list, name) = {}
  BY DEF Named, Names
<1> QED BY <1>1 DEF ValuesIn

LEMMA AddVariableAdds ==
    ASSUME NEW list \in Variables, Distinct(list), NEW name \in Str, NEW value \in Str
    PROVE  Adds(list, Stripped(name), value, AddVariable(list, name, value))
<1> DEFINE n == Stripped(name)
           P == Named(list, n)
           next == AddVariable(list, name, value)
<1>1. list \in Seq(Variable) /\ n \in Str /\ Len(list) \in Nat /\ DOMAIN list = 1..Len(list)
  BY VariablesAre, StrippedType
<1>2. next \in Variables
  BY AddVariableType
<1>3. P \in SUBSET Nat /\ P \subseteq DOMAIN list
     /\ \A i \in DOMAIN list : i \in P <=> list[i].name = n
  BY <1>1 DEF Named
<1>4. CASE P = {}
  <2> DEFINE new == [name |-> n, values |-> <<value>>]
             N == Len(list)
  <2>1. next = Append(list, new)
    BY <1>4, Zenon DEF AddVariable
  <2>2. new \in Variable /\ new.name = n /\ new.values = <<value>>
    <3>1. <<value>> \in Seq(Str) \ {<<>>}
      OBVIOUS
    <3> HIDE DEF n
    <3> QED BY <1>1, <3>1 DEF Variable
  <2> HIDE DEF new, next, n, P
  <2>3. /\ Len(next) = N + 1 /\ DOMAIN next = 1..N + 1 /\ next[N + 1] = new
        /\ \A i \in 1..N : next[i] = list[i]
    <3>1. /\ Append(list, new) \in Seq(Variable) /\ Len(Append(list, new)) = N + 1
          /\ Append(list, new)[N + 1] = new /\ \A i \in 1..N : Append(list, new)[i] = list[i]
      BY <1>1, <2>2, AppendProperties
    <3> QED BY <2>1, <3>1
  <2>4. n \notin Names(list)
    BY <1>3, <1>4 DEF Names
  <2>5. Distinct(next)
    <3>1. \A i \in 1..N : next[i].name # n
      BY <1>1, <1>3, <1>4, <2>3
    <3>2. \A i \in 1..N + 1 : i \in 1..N \/ i = N + 1
      BY <1>1
    <3>3. next[N + 1].name = n
      BY <2>2, <2>3
    <3> QED BY <1>1, <2>3, <3>1, <3>2, <3>3 DEF Distinct
  <2>6. Names(next) = Names(list) \cup {n}
    <3>1. \A i \in 1..N + 1 : i \in 1..N \/ i = N + 1
      BY <1>1
    <3>2. \A i \in 1..N : i \in 1..N + 1
      BY <1>1
    <3>3. N + 1 \in 1..N + 1 /\ next[N + 1].name = n
      BY <1>1, <2>2, <2>3
    <3> HIDE DEF N
    <3> QED BY <1>1, <2>3, <3>1, <3>2, <3>3 DEF Names, N
  <2>7. ASSUME NEW x PROVE ValuesIn(next, x) =
          IF x = n THEN Append(ValuesIn(list, x), value) ELSE ValuesIn(list, x)
    <3>1. CASE x = n
      <4>1. ValuesIn(list, x) = <<>>
        BY <2>4, <3>1, NoPlace
      <4>2. ValuesIn(next, n) = <<value>>
        <5>1. N + 1 \in DOMAIN next /\ next[N + 1].name = n /\ next[N + 1].values = <<value>>
          BY <1>1, <2>2, <2>3
        <5>2. ValuesIn(next, next[N + 1].name) = next[N + 1].values
          BY <1>2, <2>5, <5>1, OnePlace DEF next
        <5> QED BY <5>1, <5>2
      <4>3. Append(<<>>, value) = <<value>>
        OBVIOUS
      <4> QED BY <3>1, <4>1, <4>2, <4>3, Zenon
    <3>2. CASE x # n /\ x \in Names(list)
      <4>1. PICK i \in DOMAIN list : list[i].name = x
        BY <3>2 DEF Names
      <4>2. ValuesIn(list, x) = list[i].values
        BY <4>1, OnePlace
      <4>3. i \in DOMAIN next /\ next[i] = list[i]
        BY <1>1, <2>3
      <4>4. ValuesIn(next, x) = next[i].values
        BY <1>2, <2>5, <4>1, <4>3, OnePlace DEF next
      <4> QED BY <3>2, <4>2, <4>3, <4>4
    <3>3. CASE x # n /\ x \notin Names(list)
      <4>1. x \notin Names(next)
        BY <2>6, <3>3
      <4> QED BY <3>3, <4>1, NoPlace
    <3> QED BY <3>1, <3>2, <3>3
  <2> QED BY <2>5, <2>6, <2>7, Zenon DEF Adds, next, n
<1>5. CASE P # {}
  <2> DEFINE i == Least(P)
             old == list[i]
             more == Append(old.values, value)
             new == [old EXCEPT !.values = more]
  <2>1. i \in P
    BY <1>3, <1>5, LeastOf
  <2>2. old \in Variable /\ old.name = n /\ i \in DOMAIN list
    BY <1>1, <1>3, <2>1
  <2>3. next = [list EXCEPT ![i] = new]
    BY <1>5 DEF AddVariable
  <2>4. new.name = n /\ new.values = more
    <3> HIDE DEF old, more, n
    <3> QED BY <2>2 DEF Variable
  <2> HIDE DEF new, next, n, P, i, old
  <2>5. /\ DOMAIN next = DOMAIN list /\ next[i] = new
        /\ \A j \in DOMAIN list : j # i => next[j] = list[j]
    BY <1>1, <2>2, <2>3
  <2>6. \A j \in DOMAIN list : next[j].name = list[j].name
    BY <2>2, <2>4, <2>5 DEF old
  <2>7. Distinct(next)
    BY <2>5, <2>6 DEF Distinct
  <2>8. Names(next) = Names(list) /\ n \in Names(list)
    BY <2>2, <2>5, <2>6 DEF Names, old
  <2>9. ASSUME NEW x PROVE ValuesIn(next, x) =
          IF x = n THEN Append(ValuesIn(list, x), value) ELSE ValuesIn(list, x)
    <3>1. CASE x \notin Names(list)
      <4>1. ValuesIn(list, x) = <<>> /\ ValuesIn(next, x) = <<>> /\ x # n
        BY <2>8, <3>1, NoPlace
      <4> QED BY <4>1
    <3>2. CASE x \in Names(list)
      <4>1. PICK j \in DOMAIN list : list[j].name = x
        BY <3>2 DEF Names
      <4>2. ValuesIn(list, x) = list[j].values
        BY <4>1, OnePlace
      <4>3. ValuesIn(next, x) = next[j].values
        <5>1. j \in DOMAIN next /\ next[j].name = x
          BY <2>5, <2>6, <4>1
        <5>2. next \in Variables
          BY <1>2 DEF next
        <5> QED BY <2>7, <5>1, <5>2, OnePlace
      <4>4. x = n => j = i
        BY <2>2, <4>1 DEF Distinct, old
      <4>5. x # n => j # i
        BY <2>2, <4>1 DEF old
      <4> QED BY <2>4, <2>5, <4>1, <4>2, <4>3, <4>4, <4>5 DEF old
    <3> QED BY <3>1, <3>2
  <2> QED BY <2>7, <2>8, <2>9, Zenon DEF Adds, next, n
<1> QED BY <1>4, <1>5

\* What is before the first, and what is behind the last separator of a text
\* that is longer by a character.
LEMMA UntilGrows ==
    ASSUME NEW c \in Str, NEW ch \in Char, NEW sep
    PROVE  /\ Places(Append(c, ch), sep) = {} <=> Places(c, sep) = {} /\ ch # sep
           /\ Until(Append(c, ch), sep) = IF Places(c, sep) # {} THEN Until(c, sep)
                                          ELSE IF ch = sep THEN c ELSE Append(c, ch)
<1> DEFINE t == Append(c, ch)
           N == Len(c)
           P == Places(c, sep)
           Q == Places(t, sep)
<1>1. /\ t \in Str /\ Len(t) = N + 1 /\ N \in Nat /\ t[N + 1] = ch
      /\ \A k \in 1..N : t[k] = c[k]
      /\ DOMAIN t = 1..N + 1 /\ DOMAIN c = 1..N
  BY AtAppend DEF Str
<1> HIDE DEF t
<1>2. /\ \A k : k \in P <=> k \in 1..N /\ c[k] = sep
      /\ \A k : k \in Q <=> k \in 1..N + 1 /\ t[k] = sep
  BY <1>1 DEF Places
<1> HIDE DEF P, Q
<1>3. Q = {} <=> P = {} /\ ch # sep
  <2>1. \A k \in 1..N + 1 : k \in 1..N \/ k = N + 1
    BY <1>1
  <2>2. N + 1 \in 1..N + 1 /\ \A k \in 1..N : k \in 1..N + 1
    BY <1>1
  <2> HIDE DEF N
  <2> QED BY <1>1, <1>2, <2>1, <2>2
<1>4. CASE P # {}
  <2> DEFINE m == Least(P)
  <2>1. /\ m \in P /\ m \in 1..N /\ \A j \in P : m <= j
    BY <1>2, <1>4, LeastOf
  <2> HIDE DEF m
  <2>2. m \in Q /\ \A j \in Q : m <= j
    BY <1>1, <1>2, <2>1
  <2>3. Least(Q) = m
    <3>1. Q \in SUBSET Nat /\ Q # {}
      BY <1>2, <2>2
    <3>2. Least(Q) \in Q /\ \A j \in Q : Least(Q) <= j
      BY <3>1, LeastOf
    <3>3. Least(Q) <= m /\ m <= Least(Q) /\ Least(Q) \in Nat
      BY <2>2, <3>1, <3>2
    <3> QED BY <2>1, <3>3
  <2>4. Until(t, sep) = SubSeq(t, 1, m - 1) /\ Until(c, sep) = SubSeq(c, 1, m - 1)
    BY <1>3, <1>4, <2>3, Zenon DEF Until, P, Q, m
  <2>5. SubSeq(t, 1, m - 1) = SubSeq(c, 1, m - 1)
    <3>1. m - 1 \in 0..Len(c)
      BY <1>1, <2>1
    <3> QED BY <3>1, PrefixKept DEF Str, t
  <2> QED BY <1>3, <1>4, <2>4, <2>5 DEF P, Q, t
<1>5. CASE P = {} /\ ch # sep
  BY <1>3, <1>5, UntilAll DEF P, Q, t
<1>6. CASE P = {} /\ ch = sep
  <2>1. Q = {N + 1}
    <3>1. \A k \in 1..N + 1 : k \in 1..N \/ k = N + 1
      BY <1>1
    <3>2. N + 1 \in Q
      BY <1>1, <1>2, <1>6
    <3>3. \A k \in Q : k = N + 1
      BY <1>1, <1>2, <1>6, <3>1
    <3> QED BY <3>2, <3>3
  <2>2. Least(Q) = N + 1
    <3>1. Q \in SUBSET Nat /\ Q # {}
      BY <1>1, <2>1
    <3>2. Least(Q) \in Q
      BY <3>1, LeastOf
    <3> QED BY <2>1, <3>2
  <2>3. Until(t, sep) = SubSeq(t, 1, N)
    <3>1. Until(t, sep) = SubSeq(t, 1, Least(Q) - 1)
      BY <2>1, Zenon DEF Until, Q
    <3>2. Least(Q) - 1 = N
      BY <1>1, <2>2
    <3> QED BY <3>1, <3>2
  <2>4. SubSeq(t, 1, N) = c
    <3>1. N \in 0..Len(c) /\ SubSeq(c, 1, Len(c)) = c
      BY <1>1, SubSeqFull DEF Str
    <3> QED BY <3>1, PrefixKept DEF Str, t
  <2>5. Until(t, sep) = c
    BY <2>3, <2>4
  <2> QED BY <1>3, <1>6, <2>5 DEF P, Q, t
<1> QED BY <1>4, <1>5, <1>6

LEMMA ValueTextGrows ==
    ASSUME NEW c \in Str, NEW ch \in Char
    PROVE  ValueText(Append(c, ch)) = IF ch = Equals THEN <<>>
                                      ELSE IF Places(c, Equals) = {} THEN NoValue
                                      ELSE Append(ValueText(c), ch)
<1> DEFINE t == Append(c, ch)
           N == Len(c)
           P == Places(c, Equals)
           Q == Places(t, Equals)
<1>1. /\ t \in Str /\ Len(t) = N + 1 /\ N \in Nat /\ t[N + 1] = ch
      /\ \A k \in 1..N : t[k] = c[k]
      /\ DOMAIN t = 1..N + 1 /\ DOMAIN c = 1..N
  BY AtAppend DEF Str
<1> HIDE DEF t
<1>2. /\ \A k : k \in P <=> k \in 1..N /\ c[k] = Equals
      /\ \A k : k \in Q <=> k \in 1..N + 1 /\ t[k] = Equals
  BY <1>1 DEF Places
<1>3. Q = {} <=> P = {} /\ ch # Equals
  BY UntilGrows DEF t
<1> HIDE DEF P, Q
<1>4. CASE ch = Equals
  <2>1. N + 1 \in Q /\ Q \subseteq 1..N + 1
    BY <1>1, <1>2, <1>4
  <2>2. Greatest(Q) = N + 1
    <3>1. Greatest(Q) \in Q /\ \A j \in Q : Greatest(Q) >= j
      <4>1. N + 1 \in Nat /\ Q # {}
        BY <1>1, <2>1
      <4> HIDE DEF N
      <4> QED BY <2>1, <4>1, GreatestOf
    <3> HIDE DEF N
    <3>2. Greatest(Q) \in 1..N + 1 /\ Greatest(Q) >= N + 1
      BY <2>1, <3>1
    <3> QED BY <1>1, <3>2
  <2>3. ValueText(t) = SubSeq(t, Greatest(Q) + 1, Len(t))
    BY <2>1, Zenon DEF ValueText, Q
  <2>4. SubSeq(t, Greatest(Q) + 1, Len(t)) = <<>>
    BY <1>1, <2>2, SubSeqEmpty
  <2> QED BY <1>4, <2>3, <2>4, Zenon DEF t
<1>5. CASE ch # Equals /\ P = {}
  <2>1. Q = {}
    BY <1>3, <1>5
  <2>2. ValueText(t) = NoValue
    BY <2>1, Zenon DEF ValueText, Q
  <2> QED BY <1>5, <2>2, Zenon DEF P, t
<1>6. CASE ch # Equals /\ P # {}
  <2> DEFINE m == Greatest(P)
  <2>1. m \in 1..N /\ \A k : k \in Q <=> k \in P
    <3>1. P \subseteq 1..N
      BY <1>2
    <3>2. m \in P
      BY <1>1, <1>6, <3>1, GreatestOf
    <3>3. \A k \in 1..N + 1 : k \in 1..N \/ k = N + 1
      BY <1>1
    <3>4. \A k \in 1..N : k \in 1..N + 1
      BY <1>1
    <3> HIDE DEF N
    <3> QED BY <1>1, <1>2, <1>6, <3>1, <3>2, <3>3, <3>4
  <2>2. Q = P
    BY <2>1
  <2>3. ValueText(t) = SubSeq(t, m + 1, N + 1) /\ ValueText(c) = SubSeq(c, m + 1, N)
    BY <1>1, <1>6, <2>2 DEF ValueText, P, Q
  <2>4. SubSeq(t, m + 1, N + 1) = Append(SubSeq(c, m + 1, N), ch)
    <3>1. m + 1 \in 1..Len(c) + 1
      BY <1>1, <2>1
    <3> QED BY <3>1, SuffixGrows DEF t, Str
  <2> QED BY <1>6, <2>3, <2>4, Zenon DEF P, t
<1> QED BY <1>4, <1>5, <1>6

\* A buffer that holds a name and a NUL behind it.
LEMMA UntilNul ==
    ASSUME NEW var \in Seq(Byte), NEW u \in Str, Len(u) + 1 \in 1..Len(var),
           var[Len(u) + 1] = NUL, \A k \in 1..Len(u) : var[k] = u[k]
    PROVE  Until(var, NUL) = u
<1> DEFINE P == Places(var, NUL)
           m == Len(u) + 1
<1>1. /\ Len(u) \in Nat /\ m \in Nat /\ Len(var) \in Nat
      /\ \A k \in 1..Len(u) : u[k] # NUL /\ u[k] \in Char
  <2>1. Len(u) \in Nat /\ \A k \in 1..Len(u) : u[k] \in Char
    BY AtText
  <2>2. \A ch \in Char : ch # NUL
    BY DEF Char, NUL
  <2>3. m \in Nat /\ Len(var) \in Nat
    BY <2>1
  <2> QED BY <2>1, <2>2, <2>3
<1>2. \A k : k \in P <=> k \in 1..Len(var) /\ var[k] = NUL
  BY DEF Places
<1> HIDE DEF P
<1>3. m \in P /\ P \in SUBSET Nat /\ \A k \in P : m <= k
  BY <1>1, <1>2
<1>4. Least(P) = m
  <2>1. Least(P) \in P /\ \A j \in P : Least(P) <= j
    BY <1>3, LeastOf
  <2>2. Least(P) <= m /\ m <= Least(P) /\ Least(P) \in Nat
    BY <1>3, <2>1
  <2> QED BY <1>1, <2>2
<1>5. Until(var, NUL) = SubSeq(var, 1, m - 1) /\ m - 1 = Len(u)
  BY <1>1, <1>3, <1>4 DEF Until, P
<1> DEFINE x == SubSeq(var, 1, Len(u))
<1>6. x \in Seq(Char) /\ Len(x) = Len(u) /\ \A k \in 1..Len(u) : x[k] = u[k]
  <2>1. \A k \in 1..Len(u) : var[k] \in Char
    BY <1>1
  <2>2. Len(u) \in Int /\ 1 \in Int
    BY <1>1
  <2>3. /\ x \in Seq(Char) /\ Len(x) = IF 1 <= Len(u) THEN Len(u) - 1 + 1 ELSE 0
        /\ \A k \in 1..Len(u) - 1 + 1 : x[k] = var[1 + k - 1]
    BY <2>1, <2>2, SubSeqProperties
  <2> HIDE DEF x
  <2>4. \A k \in 1..Len(u) : k \in 1..Len(u) - 1 + 1 /\ 1 + k - 1 = k
    BY <1>1
  <2> QED BY <1>1, <2>3, <2>4
<1> HIDE DEF x
<1>7. x = u
  <2>1. u \in Seq(Char)
    BY DEF Str
  <2> QED BY <1>6, <2>1, SeqEqual
<1> QED BY <1>5, <1>7 DEF x

\* The list of the variables is what some fields say.
ListOf(list, fields) ==
    /\ list \in Variables /\ Distinct(list)
    /\ Names(list) = {FieldName(fields[i]) : i \in DOMAIN fields}
    /\ \A name : ValuesIn(list, name) = ValuesOf(fields, name)

LEMMA WrittenNothing == ListOf(<<>>, <<>>)
<1>1. <<>> \in Variables
  BY VariablesAre, EmptySeq
<1>2. Distinct(<<>>) /\ Names(<<>>) = {}
  BY DEF Distinct, Names
<1>3. {FieldName(<<>>[i]) : i \in DOMAIN <<>>} = {}
  OBVIOUS
<1>4. ASSUME NEW name PROVE ValuesIn(<<>>, name) = ValuesOf(<<>>, name)
  <2>1. ValuesIn(<<>>, name) = <<>>
    BY <1>2, NoPlace
  <2> QED BY <2>1, ValuesEmpty
<1> QED BY <1>1, <1>2, <1>3, <1>4, Zenon DEF ListOf

LEMMA WrittenGrows ==
    ASSUME NEW list, NEW fields \in Seq(Str), ListOf(list, fields), NEW f \in Str,
           NEW next \in Variables, Adds(list, FieldName(f), FieldValue(f), next)
    PROVE  ListOf(next, Append(fields, f))
<1> DEFINE more == Append(fields, f)
           N == Len(fields)
<1>1. /\ DOMAIN more = 1..N + 1 /\ DOMAIN fields = 1..N /\ N \in Nat /\ more[N + 1] = f
      /\ \A i \in 1..N : more[i] = fields[i]
  BY AppendProperties
<1>2. {FieldName(more[i]) : i \in DOMAIN more}
          = {FieldName(fields[i]) : i \in DOMAIN fields} \cup {FieldName(f)}
  <2>1. N + 1 \in 1..N + 1 /\ \A i \in 1..N : i \in 1..N + 1
    BY <1>1
  <2>2. \A i \in 1..N + 1 : i \in 1..N \/ i = N + 1
    BY <1>1
  <2> HIDE DEF more, N
  <2> QED BY <1>1, <2>1, <2>2
<1>3. Distinct(next) /\ Names(next) = Names(list) \cup {FieldName(f)}
  BY Zenon DEF Adds
<1>4. ASSUME NEW name PROVE ValuesIn(next, name) = ValuesOf(more, name)
  <2>1. ValuesIn(next, name) =
        IF name = FieldName(f) THEN Append(ValuesIn(list, name), FieldValue(f))
                               ELSE ValuesIn(list, name)
    BY Zenon DEF Adds
  <2>2. ValuesOf(more, name) = IF FieldName(f) # name THEN ValuesOf(fields, name)
                               ELSE Append(ValuesOf(fields, name), FieldValue(f))
    BY ValuesAppend
  <2>3. ValuesIn(list, name) = ValuesOf(fields, name)
    BY Zenon DEF ListOf
  <2>4. CASE name = FieldName(f)
    BY <2>1, <2>2, <2>3, <2>4, Zenon
  <2>5. CASE name # FieldName(f)
    <3>1. FieldName(f) # name
      BY <2>5
    <3> QED BY <2>1, <2>2, <2>3, <2>5, <3>1, Zenon
  <2> QED BY <2>4, <2>5
<1>5. Names(list) = {FieldName(fields[i]) : i \in DOMAIN fields}
  BY Zenon DEF ListOf
<1> HIDE DEF more
<1>6. Names(next) = {FieldName(more[i]) : i \in DOMAIN more}
  BY <1>2, <1>3, <1>5, Zenon
<1>7. ListOf(next, more)
  BY <1>3, <1>4, <1>6, Zenon DEF ListOf
<1> QED BY <1>7 DEF more

\* A state of the storing behind some complete fields, in the field c: the name
\* is in the buffer, with a NUL behind it where no earlier name has been.
Longest(done, k) == \A j \in DOMAIN done : Len(Until(done[j], Equals)) < k

StoreInv(st, done, c) ==
    /\ st.at = Len(Until(c, Equals)) + 1
    /\ \A k \in 1..Len(Until(c, Equals)) : st.var[k] = Until(c, Equals)[k]
    /\ Places(c, Equals) # {} => st.var[st.at] = NUL
    /\ \A k \in DOMAIN st.var : st.at <= k /\ Longest(done, k) => st.var[k] = NUL
    /\ st.val = ValueText(c)
    /\ Ended(done) => ListOf(st.vars, done)

LEMMA UntilText ==
    ASSUME NEW c \in Str
    PROVE  /\ Until(c, Equals) \in Str /\ Len(Until(c, Equals)) \in Nat
           /\ Len(Until(c, Equals)) <= Len(c)
<1>1. Until(c, Equals) \in Str
  <2>1. Equals \in Nat
    BY DEF Equals
  <2> QED BY <2>1, TextUntil
<1>2. PICK n \in 0..Len(c) : Until(c, Equals) = SubSeq(c, 1, n)
  BY UntilIs DEF Str
<1>3. Len(c) \in Nat /\ \A k \in 1..Len(c) : c[k] \in Char
  BY AtText
<1>4. Len(SubSeq(c, 1, n)) = n
  <2>1. n \in Int /\ \A k \in 1..n : c[k] \in Char
    BY <1>3
  <2>2. Len(SubSeq(c, 1, n)) = IF 1 <= n THEN n - 1 + 1 ELSE 0
    BY <2>1, SubSeqProperties
  <2> QED BY <1>3, <2>2
<1> QED BY <1>1, <1>2, <1>3, <1>4

\* The fields that are ended properly, one more.
LEMMA EndedGrows ==
    ASSUME NEW done \in Seq(Str), NEW c \in Str, Ended(Append(done, c))
    PROVE  /\ Ended(done)
           /\ Places(c, Equals) = {} => Longest(done, Len(c) + 1)
<1> DEFINE more == Append(done, c)
           N == Len(done)
<1>1. /\ DOMAIN more = 1..N + 1 /\ DOMAIN done = 1..N /\ N \in Nat /\ more[N + 1] = c
      /\ \A i \in 1..N : more[i] = done[i] /\ done[i] \in Str
  BY AppendProperties
<1>2. Ended(more)
  OBVIOUS
<1> HIDE DEF more
<1>3. \A i \in 1..N + 1 : Places(more[i], Equals) = {} =>
         \A j \in 1..i - 1 : Len(Until(more[j], Equals)) <= Len(more[i])
  BY <1>1, <1>2, Zenon DEF Ended
<1>4. Ended(done)
  <2> SUFFICES ASSUME NEW i \in 1..N, Places(done[i], Equals) = {}, NEW j \in 1..i - 1
               PROVE  Len(Until(done[j], Equals)) <= Len(done[i])
    BY <1>1 DEF Ended
  <2>1. i \in 1..N + 1 /\ j \in 1..N
    BY <1>1
  <2> QED BY <1>1, <1>3, <2>1
<1>5. ASSUME Places(c, Equals) = {}, NEW j \in 1..N
      PROVE  Len(Until(done[j], Equals)) < Len(c) + 1
  <2>1. N + 1 \in 1..N + 1 /\ j \in 1..(N + 1) - 1
    BY <1>1
  <2>2. Len(Until(done[j], Equals)) <= Len(c)
    BY <1>1, <1>3, <1>5, <2>1
  <2>3. Len(Until(done[j], Equals)) \in Nat /\ Len(c) \in Nat
    BY <1>1, UntilText, AtText
  <2> QED BY <2>2, <2>3
<1> QED BY <1>1, <1>4, <1>5 DEF Longest

\* A field that is complete is stored as it is written.
LEMMA FieldStored ==
    ASSUME NEW form \in Str, NEW st \in StoreState(form), NEW done \in Seq(Str), NEW c \in Str,
           StoreInv(st, done, c), st.at \in 1..Len(form) + 1, Ended(Append(done, c))
    PROVE  ListOf(Store(st), Append(done, c))
<1> DEFINE u == Until(c, Equals)
           M == Len(form) + 1
           value == IF st.val = NoValue THEN <<>> ELSE unescape(st.val)
<1>1. u \in Str /\ Len(u) \in Nat
  BY UntilText
<1>2. st.var \in Seq(Byte) /\ Len(st.var) = M /\ st.vars \in Variables
  <2>1. st.var \in [1..M -> Byte] /\ st.vars \in Variables /\ M \in Nat
    BY AtText DEF StoreState
  <2> HIDE DEF M
  <2>2. st.var \in Seq(Byte)
    BY <2>1, SeqDef
  <2>3. DOMAIN st.var = 1..M
    BY <2>1
  <2> QED BY <2>1, <2>2, <2>3, LenProperties
<1>3. /\ st.at = Len(u) + 1 /\ \A k \in 1..Len(u) : st.var[k] = u[k]
      /\ Places(c, Equals) # {} => st.var[st.at] = NUL
      /\ \A k \in DOMAIN st.var : st.at <= k /\ Longest(done, k) => st.var[k] = NUL
      /\ st.val = ValueText(c)
      /\ Ended(done) => ListOf(st.vars, done)
  BY Zenon DEF StoreInv
<1>4. Ended(done) /\ (Places(c, Equals) = {} => Longest(done, Len(c) + 1))
  BY EndedGrows
<1>5. st.var[st.at] = NUL
  <2>1. CASE Places(c, Equals) = {}
    <3>1. u = c
      BY <2>1, UntilAll
    <3>2. st.at \in DOMAIN st.var /\ st.at <= st.at
      BY <1>1, <1>2, <1>3
    <3> HIDE DEF u
    <3>3. Longest(done, st.at)
      BY <1>3, <1>4, <2>1, <3>1
    <3> QED BY <1>3, <3>2, <3>3
  <2> QED BY <1>3, <2>1
<1> HIDE DEF u
<1>6. Until(st.var, NUL) = u
  BY <1>1, <1>2, <1>3, <1>5, UntilNul
<1>7. Stripped(u) = FieldName(c) /\ value = FieldValue(c) /\ value \in Str
  <2>1. CASE Places(c, Equals) = {}
    <3>1. st.val = NoValue
      BY <1>3, <2>1 DEF ValueText
    <3>2. value = <<>> /\ FieldValue(c) = <<>>
      BY <2>1, <3>1, Zenon DEF FieldValue
    <3> QED BY <3>2, FieldTypes, Zenon DEF FieldName, u
  <2>2. CASE Places(c, Equals) # {}
    <3>1. st.val \in Str
      BY <1>3, <2>2, ValueTextType
    <3>2. st.val # NoValue
      BY <3>1, NoValueIsNoText
    <3>3. FieldValue(c) = unescape(ValueText(c))
      BY <2>2, Zenon DEF FieldValue, ValueText
    <3>4. value = FieldValue(c)
      BY <1>3, <3>2, <3>3, Zenon
    <3> QED BY <3>4, FieldTypes, Zenon DEF FieldName, u
  <2> QED BY <2>1, <2>2
<1>8. Store(st) = AddVariable(st.vars, u, value)
  BY <1>6, Zenon DEF Store
<1> HIDE DEF value
<1>9. Distinct(st.vars) /\ ListOf(st.vars, done)
  BY <1>3, <1>4, Zenon DEF ListOf
<1>10. Adds(st.vars, Stripped(u), value, AddVariable(st.vars, u, value))
  BY <1>1, <1>2, <1>7, <1>9, AddVariableAdds
<1>11. AddVariable(st.vars, u, value) \in Variables
  BY <1>1, <1>2, <1>7, AddVariableType
<1>12. ListOf(AddVariable(st.vars, u, value), Append(done, c))
  <2>1. Adds(st.vars, FieldName(c), FieldValue(c), AddVariable(st.vars, u, value))
    BY <1>7, <1>10, Zenon
  <2> QED BY <1>9, <1>11, <2>1, WrittenGrows
<1> QED BY <1>8, <1>12

\* A step: an ampersand completes the field, any other character is one of it.
LEMMA StoreStepKeeps ==
    ASSUME NEW form \in Str, NEW st \in StoreState(form), NEW done \in Seq(Str), NEW c \in Str,
           StoreInv(st, done, c), st.at \in 1..Len(form) + 1, NEW ch \in Char
    PROVE  IF ch = Amp THEN StoreInv(StoreStep(st, ch), Append(done, c), <<>>)
           ELSE StoreInv(StoreStep(st, ch), done, Append(c, ch))
<1> DEFINE next == StoreStep(st, ch)
           u == Until(c, Equals)
           w == Until(Append(c, ch), Equals)
           D == 1..Len(form) + 1
<1>1. Stores(st, ch, next) /\ next \in StoreState(form)
  BY StoreStepIs
<1>2. u \in Str /\ Len(u) \in Nat /\ st.var \in [D -> Byte] /\ st.at \in D /\ st.at \in Nat
  BY UntilText DEF StoreState
<1>3. /\ st.at = Len(u) + 1 /\ \A k \in 1..Len(u) : st.var[k] = u[k]
      /\ Places(c, Equals) # {} => st.var[st.at] = NUL
      /\ \A k \in D : st.at <= k /\ Longest(done, k) => st.var[k] = NUL
      /\ st.val = ValueText(c)
      /\ Ended(done) => ListOf(st.vars, done)
  <2>1. DOMAIN st.var = D
    BY <1>2
  <2> QED BY <2>1, Zenon DEF StoreInv
<1>4. Equals # Amp /\ NoValue \notin Str
  BY NoValueIsNoText DEF Equals, Amp
<1>5. /\ Places(Append(c, ch), Equals) = {} <=> Places(c, Equals) = {} /\ ch # Equals
      /\ w = IF Places(c, Equals) # {} THEN u ELSE IF ch = Equals THEN c ELSE Append(c, ch)
  BY UntilGrows
<1>6. ValueText(Append(c, ch)) = IF ch = Equals THEN <<>>
                                 ELSE IF Places(c, Equals) = {} THEN NoValue
                                 ELSE Append(ValueText(c), ch)
  BY ValueTextGrows
<1>7. Places(c, Equals) = {} => u = c
  BY UntilAll
<1>8. st.val = NoValue <=> Places(c, Equals) = {}
  <2>1. Places(c, Equals) # {} => st.val \in Str
    BY <1>3, ValueTextType
  <2>2. Places(c, Equals) = {} => st.val = NoValue
    BY <1>3 DEF ValueText
  <2> QED BY <1>4, <2>1, <2>2
<1>9. CASE ch = Amp
  <2> DEFINE stored == Store(st)
             all == Append(done, c)
  <2>1. next = [var |-> st.var, at |-> 1, val |-> NoValue, vars |-> stored]
    BY <1>4, <1>9, Zenon DEF StoreStep
  <2> HIDE DEF stored
  <2>2. next.var = st.var /\ next.at = 1 /\ next.val = NoValue /\ next.vars = stored
    BY <2>1
  <2>3. Places(<<>>, Equals) = {} /\ Until(<<>>, Equals) = <<>> /\ ValueText(<<>>) = NoValue
    <3>1. Places(<<>>, Equals) = {}
      BY DEF Places
    <3> QED BY <3>1, UntilAll, Zenon DEF ValueText
  <2>4. ASSUME NEW k \in D, Longest(all, k) PROVE st.var[k] = NUL
    <3> DEFINE N == Len(done)
    <3>1. /\ DOMAIN all = 1..N + 1 /\ DOMAIN done = 1..N /\ N \in Nat /\ all[N + 1] = c
          /\ \A i \in 1..N : all[i] = done[i]
      BY AppendProperties
    <3> HIDE DEF all, N
    <3>2. N + 1 \in DOMAIN all /\ \A i \in DOMAIN done : i \in DOMAIN all
      BY <3>1
    <3>3. Longest(done, k) /\ Len(u) < k
      BY <2>4, <3>1, <3>2 DEF Longest
    <3>4. k \in Nat
      OBVIOUS
    <3>5. st.at <= k
      <4> HIDE DEF D, u
      <4> QED BY <1>2, <1>3, <3>3, <3>4
    <3> QED BY <1>3, <3>3, <3>5
  <2>5. Ended(all) => ListOf(stored, all)
    BY FieldStored, Zenon DEF stored
  <2>6. DOMAIN next.var = D /\ Len(<<>>) = 0
    BY <1>2, <2>2
  <2> HIDE DEF next, all, D
  <2>7. next.at = Len(Until(<<>>, Equals)) + 1
    BY <2>2, <2>3, <2>6
  <2>8. \A k \in 1..Len(Until(<<>>, Equals)) : next.var[k] = Until(<<>>, Equals)[k]
    <3>1. Len(Until(<<>>, Equals)) = 0
      BY <2>3, <2>6, Zenon
    <3> QED BY <3>1
  <2>9. StoreInv(next, all, <<>>)
    BY <2>2, <2>3, <2>4, <2>5, <2>6, <2>7, <2>8, Zenon DEF StoreInv
  <2> QED BY <1>9, <2>9 DEF next, all
<1>10. CASE ch = Equals
  <2>1. next.var = [st.var EXCEPT ![st.at] = NUL] /\ next.at = st.at
        /\ next.val = <<>> /\ next.vars = st.vars
    BY <1>1, <1>10 DEF Stores
  <2>2. w = u
    BY <1>5, <1>7, <1>10
  <2> HIDE DEF next, u, w, D
  <2>3. /\ DOMAIN next.var = D /\ next.var[st.at] = NUL
        /\ \A k \in D : k # st.at => next.var[k] = st.var[k]
    BY <1>2, <2>1
  <2>4. \A k \in 1..Len(u) : k \in D /\ k # st.at
    BY <1>2, <1>3 DEF D
  <2>5. StoreInv(next, done, Append(c, ch))
    BY <1>3, <1>6, <1>10, <2>1, <2>2, <2>3, <2>4, ZenonT(60) DEF StoreInv, w
  <2> QED BY <1>4, <1>10, <2>5 DEF next
<1>11. CASE ch \notin {Equals, Amp} /\ Places(c, Equals) # {}
  <2>1. /\ next.var = st.var /\ next.at = st.at /\ next.vars = st.vars
        /\ next.val = Append(st.val, ch)
    BY <1>1, <1>8, <1>11 DEF Stores
  <2>2. w = u
    BY <1>5, <1>11
  <2>3. DOMAIN st.var = D
    BY <1>2
  <2> HIDE DEF next, u, w, D
  <2>4. StoreInv(next, done, Append(c, ch))
    BY <1>3, <1>6, <1>11, <2>1, <2>2, <2>3, Zenon DEF StoreInv, w
  <2> QED BY <1>11, <2>4 DEF next
<1>12. CASE ch \notin {Equals, Amp} /\ Places(c, Equals) = {}
  <2>1. /\ next.var = [st.var EXCEPT ![st.at] = ch] /\ next.at = st.at + 1
        /\ next.val = NoValue /\ next.vars = st.vars
    BY <1>1, <1>8, <1>12 DEF Stores
  <2>2. /\ w = Append(u, ch) /\ Len(w) = Len(u) + 1 /\ w[Len(u) + 1] = ch
        /\ \A k \in 1..Len(u) : w[k] = u[k]
    <3>1. w = Append(u, ch)
      BY <1>5, <1>7, <1>12
    <3> HIDE DEF w, u
    <3> QED BY <1>2, <3>1, AtAppend
  <2> HIDE DEF next, u, w, D
  <2>3. /\ DOMAIN next.var = D /\ next.var[st.at] = ch
        /\ \A k \in D : k # st.at => next.var[k] = st.var[k]
    BY <1>2, <2>1
  <2>4. ASSUME NEW k \in 1..Len(w) PROVE next.var[k] = w[k]
    <3>1. k \in 1..Len(u) \/ k = Len(u) + 1
      BY <1>2, <2>2
    <3>2. \A i \in 1..Len(u) : i \in D /\ i # st.at
      BY <1>2, <1>3 DEF D
    <3> QED BY <1>3, <2>2, <2>3, <3>1, <3>2
  <2>5. ASSUME NEW k \in D, next.at <= k, Longest(done, k) PROVE next.var[k] = NUL
    <3>1. st.at <= k /\ k # st.at
      BY <1>2, <2>1, <2>5 DEF D
    <3> QED BY <1>3, <2>3, <2>5, <3>1
  <2>6. next.at = Len(w) + 1
    BY <1>2, <1>3, <2>1, <2>2
  <2>7. StoreInv(next, done, Append(c, ch))
    BY <1>3, <1>5, <1>6, <1>12, <2>1, <2>3, <2>4, <2>5, <2>6, Zenon DEF StoreInv, w
  <2> QED BY <1>12, <2>7 DEF next
<1> QED BY <1>9, <1>10, <1>11, <1>12

\* What has been read: the complete fields, the one that is read, and what the
\* storing has made of them.
Reading(parts, st, n, done, c) ==
    /\ done \in Seq(Str) /\ c \in Str /\ Len(c) <= n
    /\ parts = Append(done, c) /\ StoreInv(st, done, c)

LEMMA StartReads ==
    ASSUME NEW form \in Str
    PROVE  Reading(<< <<>> >>, StoreStart(<<>>, form), 0, <<>>, <<>>)
<1> DEFINE st == StoreStart(<<>>, form)
           none == <<>>
<1>1. st.at = 1 /\ st.val = NoValue /\ st.vars = <<>>
      /\ \A k \in DOMAIN st.var : st.var[k] = NUL
  BY DEF StoreStart
<1>2. Places(<<>>, Equals) = {} /\ Until(<<>>, Equals) = <<>> /\ ValueText(<<>>) = NoValue
  <2>1. Places(<<>>, Equals) = {}
    BY DEF Places
  <2> QED BY <2>1, UntilAll, Zenon DEF ValueText
<1>3. Len(Until(<<>>, Equals)) = 0
  <2>1. Len(<<>>) = 0
    OBVIOUS
  <2> QED BY <1>2, <2>1, Zenon
<1>4. <<>> \in Seq(Str) /\ <<>> \in Str /\ Len(<<>>) <= 0 /\ << <<>> >> = Append(<<>>, <<>>)
  BY EmptySeq DEF Str
<1>5. ListOf(<<>>, <<>>)
  BY WrittenNothing
<1> HIDE DEF st
<1>6. StoreInv(st, <<>>, <<>>)
  <2>1. st.at = Len(Until(<<>>, Equals)) + 1
    BY <1>1, <1>3
  <2>2. \A k \in 1..Len(Until(<<>>, Equals)) : st.var[k] = Until(<<>>, Equals)[k]
    BY <1>3
  <2> QED BY <1>1, <1>2, <1>5, <2>1, <2>2, Zenon DEF StoreInv
<1> QED BY <1>4, <1>6, Zenon DEF Reading, st

LEMMA WithCharText ==
    ASSUME NEW done \in Seq(Str), NEW c \in Str, NEW ch \in Char, NEW sep
    PROVE  WithChar(Append(done, c), ch, sep) = IF ch = sep THEN Append(Append(done, c), <<>>)
                                                ELSE Append(done, Append(c, ch))
<1>1. done \in Seq(Seq(Char)) /\ c \in Seq(Char)
  BY Zenon DEF Str
<1> HIDE DEF Char
<1> QED BY <1>1, WithCharAppend, SMTT(60)

LEMMA StepReads ==
    ASSUME NEW form \in Str, NEW n \in 0..Len(form), n < Len(form), NEW st \in StoreState(form),
           NEW done, NEW c, NEW parts, Reading(parts, st, n, done, c)
    PROVE  \E d, e : Reading(WithChar(parts, form[n + 1], Amp), StoreStep(st, form[n + 1]),
                             n + 1, d, e)
<1> DEFINE ch == form[n + 1]
           next == StoreStep(st, ch)
<1>1. /\ done \in Seq(Str) /\ c \in Str /\ Len(c) <= n
      /\ parts = Append(done, c) /\ StoreInv(st, done, c)
  BY Zenon DEF Reading
<1>2. ch \in Char /\ Len(form) \in Nat /\ n \in Nat
  <2>1. n + 1 \in 1..Len(form) /\ Len(form) \in Nat
    BY AtText
  <2> QED BY <2>1, AtText
<1>3. st.at \in 1..Len(form) + 1
  <2>1. Len(Until(c, Equals)) \in Nat /\ Len(Until(c, Equals)) <= Len(c) /\ Len(c) \in Nat
    BY <1>1, UntilText, AtText
  <2>2. st.at = Len(Until(c, Equals)) + 1
    BY <1>1, Zenon DEF StoreInv
  <2> QED BY <1>1, <1>2, <2>1, <2>2
<1> HIDE DEF ch
<1>4. IF ch = Amp THEN StoreInv(next, Append(done, c), <<>>)
      ELSE StoreInv(next, done, Append(c, ch))
  BY <1>1, <1>2, <1>3, StoreStepKeeps
<1>5. WithChar(parts, ch, Amp) = IF ch = Amp THEN Append(Append(done, c), <<>>)
                                 ELSE Append(done, Append(c, ch))
  <2>1. WithChar(Append(done, c), ch, Amp) = IF ch = Amp THEN Append(Append(done, c), <<>>)
                                             ELSE Append(done, Append(c, ch))
    BY <1>1, <1>2, WithCharText
  <2> QED BY <1>1, <2>1
<1> HIDE DEF next
<1>6. CASE ch = Amp
  <2>1. Append(done, c) \in Seq(Str) /\ <<>> \in Str /\ Len(<<>>) <= n + 1
    <3>1. <<>> \in Str
      BY EmptySeq DEF Str
    <3>2. Len(<<>>) <= n + 1
      BY <1>2
    <3> QED BY <1>1, <3>1, <3>2, AppendProperties
  <2>2. Reading(WithChar(parts, ch, Amp), next, n + 1, Append(done, c), <<>>)
    BY <1>4, <1>5, <1>6, <2>1, Zenon DEF Reading
  <2> QED BY <2>2, Zenon DEF next, ch
<1>7. CASE ch # Amp
  <2>1. Append(c, ch) \in Str /\ Len(Append(c, ch)) <= n + 1
    <3>1. Append(c, ch) \in Str /\ Len(Append(c, ch)) = Len(c) + 1 /\ Len(c) \in Nat
      BY <1>1, <1>2, AtAppend
    <3> QED BY <1>1, <1>2, <3>1
  <2>2. Reading(WithChar(parts, ch, Amp), next, n + 1, done, Append(c, ch))
    BY <1>1, <1>4, <1>5, <1>7, <2>1, Zenon DEF Reading
  <2> QED BY <2>2, Zenon DEF next, ch
<1> QED BY <1>6, <1>7

\* The list is empty before a query is stored, and says behind it what the query says.
LEMMA QueryWritten ==
    ASSUME NEW form \in Str, Ended(Fields(form))
    PROVE  ListOf(storeData(<<>>, form), Fields(form))
<1> DEFINE N == Len(form)
<1>1. PICK f : StoreRun(f, <<>>, form) /\ storeData(<<>>, form) = StoreEnd(f[N])
  <2>1. <<>> \in Variables
    BY VariablesAre, EmptySeq
  <2> QED BY <2>1, StoreRuns
<1>2. PICK p : SplitRun(p, form, Char, Amp) /\ Split(form, Amp) = p[N]
  BY SplitRuns DEF Str
<1>3. /\ N \in Nat /\ f[0] = StoreStart(<<>>, form) /\ \A i \in 0..N : f[i] \in StoreState(form)
      /\ \A i \in 1..N : f[i] = StoreStep(f[i - 1], form[i])
  BY <1>1, AtText DEF StoreRun
<1>4. p[0] = << <<>> >> /\ \A i \in 1..N : p[i] = WithChar(p[i - 1], form[i], Amp)
  BY <1>2 DEF SplitRun
<1> DEFINE T == {i \in 0..N : \E d, e : Reading(p[i], f[i], i, d, e)}
<1>5. 0 \in T
  <2>1. Reading(p[0], f[0], 0, <<>>, <<>>)
    BY <1>3, <1>4, StartReads
  <2>2. 0 \in 0..N
    BY <1>3
  <2> QED BY <2>1, <2>2, Zenon
<1>6. ASSUME NEW i \in 0..N, i < N, i \in T PROVE i + 1 \in T
  <2>1. PICK d, e : Reading(p[i], f[i], i, d, e)
    BY <1>6
  <2>2. /\ i + 1 \in 1..N /\ i + 1 \in 0..N /\ (i + 1) - 1 = i /\ f[i] \in StoreState(form)
    BY <1>3, <1>6
  <2>3. p[i + 1] = WithChar(p[i], form[i + 1], Amp) /\ f[i + 1] = StoreStep(f[i], form[i + 1])
    BY <1>3, <1>4, <2>2
  <2>4. \E x, y : Reading(WithChar(p[i], form[i + 1], Amp), StoreStep(f[i], form[i + 1]),
                          i + 1, x, y)
    BY <1>6, <2>1, <2>2, StepReads
  <2>5. \E x, y : Reading(p[i + 1], f[i + 1], i + 1, x, y)
    BY <2>3, <2>4, Zenon
  <2> QED BY <2>2, <2>5, Zenon
<1>7. N \in T
  <2> HIDE DEF T
  <2>1. 0..N \subseteq T
    BY <1>3, <1>5, <1>6, SetInduction
  <2> QED BY <1>3, <2>1
<1>8. PICK done, c : Reading(p[N], f[N], N, done, c)
  BY <1>7, Zenon
<1>9. /\ done \in Seq(Str) /\ c \in Str /\ Len(c) <= N
      /\ p[N] = Append(done, c) /\ StoreInv(f[N], done, c)
  BY <1>8, Zenon DEF Reading
<1>10. f[N] \in StoreState(form)
  <2>1. N \in 0..N
    BY <1>3
  <2> QED BY <1>3, <2>1
<1> DEFINE all == Append(done, c)
           M == Len(done)
<1>11. /\ Split(form, Amp) = all /\ Len(all) = M + 1 /\ all[M + 1] = c /\ M \in Nat
       /\ SubSeq(all, 1, M) = done
  <2>1. Len(all) = M + 1 /\ all[M + 1] = c /\ M \in Nat
    BY <1>9, AppendProperties
  <2>2. SubSeq(all, 1, M) = SubSeq(done, 1, M)
    <3>1. M \in 0..Len(done)
      BY <1>9
    <3> QED BY <1>9, <3>1, PrefixKept
  <2>3. SubSeq(done, 1, M) = done
    BY <1>9, SubSeqFull
  <2> QED BY <1>2, <1>9, <2>1, <2>2, <2>3
<1> HIDE DEF all
<1>12. Fields(form) = IF Places(c, Equals) = {} THEN done ELSE all
  <2>1. Len(all) - 1 = M
    BY <1>11
  <2> HIDE DEF M
  <2> QED BY <1>11, <2>1 DEF Fields
<1>13. f[N].val = ValueText(c) /\ (Ended(done) => ListOf(f[N].vars, done))
  BY <1>9, Zenon DEF StoreInv
<1>14. CASE Places(c, Equals) = {}
  <2>1. f[N].val = NoValue
    BY <1>13, <1>14 DEF ValueText
  <2>2. storeData(<<>>, form) = f[N].vars
    BY <1>1, <2>1, Zenon DEF StoreEnd
  <2>3. Fields(form) = done
    BY <1>12, <1>14
  <2> QED BY <1>13, <2>2, <2>3, Zenon
<1>15. CASE Places(c, Equals) # {}
  <2>1. f[N].val # NoValue
    BY <1>9, <1>13, <1>15, ValueTextType, NoValueIsNoText
  <2>2. storeData(<<>>, form) = Store(f[N])
    BY <1>1, <2>1, Zenon DEF StoreEnd
  <2>3. Fields(form) = all
    BY <1>12, <1>15
  <2>4. f[N].at \in 1..Len(form) + 1
    <3>1. Len(Until(c, Equals)) \in Nat /\ Len(Until(c, Equals)) <= Len(c) /\ Len(c) \in Nat
      BY <1>9, UntilText, AtText
    <3>2. f[N].at = Len(Until(c, Equals)) + 1
      BY <1>9, Zenon DEF StoreInv
    <3> QED BY <1>3, <1>9, <3>1, <3>2
  <2>5. Ended(Append(done, c))
    BY <2>3, Zenon DEF all
  <2>6. ListOf(Store(f[N]), Append(done, c))
    BY <1>9, <1>10, <2>4, <2>5, FieldStored
  <2> QED BY <2>2, <2>3, <2>6, Zenon DEF all
<1> QED BY <1>14, <1>15

\* The variables between the parts of a request, and the page before its end.
StoredInv ==
    /\ pc \in {"line", "headers"} => variables = <<>> /\ query = <<>>
    /\ pc = "process" /\ Ended(Fields(query)) => ListOf(variables, Fields(query))
    /\ pc # "done" => answer = [status |-> "none"]

LEMMA NoQuery == Fields(<<>>) = <<>>
<1>1. Split(<<>>, Amp) = << <<>> >>
  BY SplitEmpty
<1>2. Places(<<>>, Equals) = {}
  BY DEF Places
<1>3. SubSeq(<< <<>> >>, 1, 0) = <<>>
  BY SubSeqEmpty
<1> DEFINE all == << <<>> >>
<1>4. Len(all) = 1 /\ all[1] = <<>> /\ Len(all) - 1 = 0
  OBVIOUS
<1>5. SubSeq(all, 1, 0) = <<>> /\ Split(<<>>, Amp) = all
  BY <1>1, <1>3
<1> HIDE DEF all
<1> QED BY <1>2, <1>4, <1>5, Zenon DEF Fields

LEMMA WrittenStored ==
    ASSUME NEW list, NEW fields, ListOf(list, fields)
    PROVE  /\ {list[i].name : i \in DOMAIN list} = {FieldName(fields[i]) : i \in DOMAIN fields}
           /\ \A i \in DOMAIN list : list[i].values = ValuesOf(fields, list[i].name)
<1>1. list \in Variables /\ Distinct(list)
      /\ Names(list) = {FieldName(fields[i]) : i \in DOMAIN fields}
      /\ \A name : ValuesIn(list, name) = ValuesOf(fields, name)
  BY Zenon DEF ListOf
<1>2. ASSUME NEW i \in DOMAIN list PROVE list[i].values = ValuesOf(fields, list[i].name)
  <2>1. ValuesIn(list, list[i].name) = list[i].values
    BY <1>1, OnePlace
  <2> QED BY <1>1, <2>1
<1> QED BY <1>1, <1>2, Zenon DEF Names

LEMMA StoredInductive == TypeOK /\ StoredInv /\ [Next]_vars => StoredInv'
<1> SUFFICES ASSUME TypeOK, StoredInv, [Next]_vars PROVE StoredInv'
  OBVIOUS
<1>1. CASE UNCHANGED <<pc, variables, query, answer>>
  BY <1>1 DEF StoredInv
<1>2. CASE pc \in {"line", "headers"} /\ pc' \in {"line", "headers"}
           /\ UNCHANGED <<variables, query, answer>>
  BY <1>2 DEF StoredInv
<1>3. CASE pc' = "done"
  BY <1>3 DEF StoredInv
<1>4. CASE EndHeaders
  <2>1. /\ pc \in {"line", "headers"} /\ pc' = "process" /\ UNCHANGED answer
        /\ variables = <<>> /\ query = <<>> /\ answer = [status |-> "none"]
    BY <1>4 DEF EndHeaders, StoredInv
  <2>2. CASE Places(path, Question) = {}
    <3>1. variables' = <<>> /\ query' = <<>>
      BY <1>4, <2>1, <2>2 DEF EndHeaders
    <3>2. ListOf(variables', Fields(query'))
      BY <3>1, NoQuery, WrittenNothing
    <3> QED BY <2>1, <3>2, Zenon DEF StoredInv
  <2>3. CASE Places(path, Question) # {}
    <3>1. query' = Behind(path, Question) /\ variables' = storeData(<<>>, query')
      BY <1>4, <2>1, <2>3 DEF EndHeaders
    <3>2. query' \in Str
      <4>1. path \in Str
        BY DEF TypeOK, Str
      <4> QED BY <2>3, <3>1, <4>1, TextBehind
    <3> DEFINE form == query'
    <3> HIDE DEF form
    <3>3. Ended(Fields(form)) => ListOf(storeData(<<>>, form), Fields(form))
      BY <3>2, QueryWritten DEF form
    <3>4. Ended(Fields(query')) => ListOf(variables', Fields(query'))
      BY <3>1, <3>3, Zenon DEF form
    <3> QED BY <2>1, <3>4, Zenon DEF StoredInv
  <2> QED BY <2>2, <2>3
<1> QED BY <1>1, <1>2, <1>3, <1>4 DEF Next, vars, ReadRequestLine, RejectMethod, ReadHost,
                                     ReadAuthorization, Silent, SendPage, SendRedirect

LEMMA StoredAlways == Spec => []StoredInv
<1>1. Init => StoredInv
  BY DEF Init, StoredInv
<1>2. TypeOK /\ StoredInv /\ [Next]_vars => StoredInv'
  BY StoredInductive
<1>3. Spec => []TypeOK
  BY RequestTypeTheorem
<1> QED BY <1>1, <1>2, <1>3, PTL DEF Spec

\* The variables of a request are those that its query writes, however its
\* fields lie: a short name behind a long one, a name again, equals signs in
\* a value.
THEOREM StoredTheorem == Spec => []StoredAsWritten
<1>1. StoredInv => StoredAsWritten
  <2> SUFFICES ASSUME StoredInv, pc = "process", Ended(Fields(query))
               PROVE  /\ {variables[i].name : i \in DOMAIN variables}
                             = {FieldName(Fields(query)[i]) : i \in DOMAIN Fields(query)}
                      /\ \A i \in DOMAIN variables :
                            variables[i].values = ValuesOf(Fields(query), variables[i].name)
    BY Zenon DEF StoredAsWritten
  <2>1. ListOf(variables, Fields(query))
    BY Zenon DEF StoredInv
  <2> QED BY <2>1, WrittenStored
<1> QED BY <1>1, StoredAlways, PTL

(***************************************************************************)
(* What the page shows.                                                    *)
(***************************************************************************)

LEMMA FieldsType ==
    ASSUME NEW form \in Str
    PROVE  Fields(form) \in Seq(Str)
<1> DEFINE all == Split(form, Amp)
<1>1. all \in Seq(Str) /\ Len(all) \in Nat /\ \A i \in 1..Len(all) : all[i] \in Str
  <2>1. all \in Parts(Char \ {Amp})
    <3>1. 1 \in Char
      BY DEF Char
    <3> QED BY <3>1, SplitAppend DEF Str
  <2>2. Seq(Char \ {Amp}) \subseteq Str
    BY SeqMonotonic DEF Str
  <2>3. all \in Seq(Seq(Char \ {Amp}))
    BY <2>1 DEF Parts
  <2>4. all \in Seq(Str)
    BY <2>2, <2>3, SeqMonotonic
  <2> QED BY <2>4
<1> HIDE DEF all
<1>2. SubSeq(all, 1, Len(all) - 1) \in Seq(Str)
  <2>1. \A i \in 1..Len(all) - 1 : all[i] \in Str
    BY <1>1
  <2>2. Len(all) - 1 \in Int
    BY <1>1
  <2> QED BY <2>1, <2>2, SubSeqProperties
<1> QED BY <1>1, <1>2, Zenon DEF Fields, all

LEMMA FirstOf ==
    ASSUME NEW s \in Seq(Str), NEW x \in Str, NEW y \in Str
    PROVE  /\ Append(s, x)[1] = (s \o <<x>>)[1]
           /\ Append(Append(s, x), y)[1] = (s \o <<x>>)[1]
<1>1. Append(s, x) = s \o <<x>> /\ Append(s, x) \in Seq(Str) /\ Len(Append(s, x)) = Len(s) + 1
  BY AppendIsConcat, AppendProperties
<1> DEFINE t == Append(s, x)
<1> HIDE DEF t
<1>2. t \in Seq(Str) /\ 1 \in 1..Len(t)
  BY <1>1 DEF t
<1>3. Append(t, y)[1] = t[1]
  BY <1>2, AppendProperties
<1> QED BY <1>1, <1>3 DEF t

\* The first value of a name.
LEMMA Gets ==
    ASSUME NEW list, NEW name \in Names(list)
    PROVE  GetVariableByName(list, name) = ValuesIn(list, name)[1]
<1>1. Named(list, name) # {}
  BY DEF Named, Names
<1> QED BY <1>1, Zenon DEF GetVariableByName, ValuesIn

LEMMA PageShown ==
    ASSUME NEW list, NEW fields \in Seq(Str), ListOf(list, fields),
           NEW title \in Str, NEW message \in Str
    PROVE  Shown(AddVariable(AddVariable(AddVariable(list, Title, title), Message, message),
                             NodeID, <<49, 50, 51>>))
               = [title   |-> (ValuesOf(fields, Title) \o <<title>>)[1],
                  message |-> (ValuesOf(fields, Message) \o <<message>>)[1]]
<1> DEFINE id == <<49, 50, 51>>
           one == AddVariable(list, Title, title)
           two == AddVariable(one, Message, message)
           three == AddVariable(two, NodeID, id)
<1>1. id \in Str
  BY DEF Str, Char
<1>2. /\ Title \in Str /\ Message \in Str /\ NodeID \in Str /\ Title # Message
      /\ Stripped(Title) = Title /\ Stripped(Message) = Message /\ Stripped(NodeID) = NodeID
  BY RequestAssumption DEF Str
<1>3. /\ list \in Variables /\ Distinct(list)
      /\ \A name : ValuesIn(list, name) = ValuesOf(fields, name)
  BY Zenon DEF ListOf
<1> HIDE DEF id
<1>4. one \in Variables /\ Adds(list, Title, title, one)
  <2>1. Adds(list, Stripped(Title), title, one)
    BY <1>2, <1>3, AddVariableAdds
  <2> QED BY <1>2, <1>3, <2>1, AddVariableType
<1> HIDE DEF one
<1>5. two \in Variables /\ Adds(one, Message, message, two)
  <2>1. Distinct(one)
    BY <1>4, Zenon DEF Adds
  <2>2. Adds(one, Stripped(Message), message, two)
    BY <1>2, <1>4, <2>1, AddVariableAdds
  <2> QED BY <1>2, <1>4, <2>2, AddVariableType
<1> HIDE DEF two
<1>6. Adds(two, NodeID, id, three)
  <2>1. Distinct(two)
    BY <1>5, Zenon DEF Adds
  <2>2. Adds(two, Stripped(NodeID), id, three)
    BY <1>1, <1>2, <1>5, <2>1, AddVariableAdds
  <2> QED BY <1>2, <2>2
<1> HIDE DEF three
<1>7. Title \in Names(three) /\ Message \in Names(three)
  <2>1. Title \in Names(one)
    BY <1>4 DEF Adds
  <2>2. Title \in Names(two) /\ Message \in Names(two)
    BY <1>5, <2>1 DEF Adds
  <2> QED BY <1>6, <2>2 DEF Adds
<1> DEFINE t == ValuesOf(fields, Title)
           m == ValuesOf(fields, Message)
<1>8. t \in Seq(Str) /\ m \in Seq(Str)
  BY <1>1, ValuesAppend
<1>9. ValuesIn(three, Title)[1] = (t \o <<title>>)[1]
  <2>1. ValuesIn(one, Title) = Append(t, title)
    BY <1>3, <1>4, Zenon DEF Adds
  <2>2. ValuesIn(two, Title) = Append(t, title)
    BY <1>2, <1>5, <2>1, Zenon DEF Adds
  <2>3. ValuesIn(three, Title) \in {Append(t, title), Append(Append(t, title), id)}
    <3>1. ValuesIn(three, Title) = IF Title = NodeID THEN Append(ValuesIn(two, Title), id)
                                   ELSE ValuesIn(two, Title)
      BY <1>6, Zenon DEF Adds
    <3> HIDE DEF t
    <3> QED BY <2>2, <3>1
  <2> HIDE DEF t
  <2>4. /\ Append(t, title)[1] = (t \o <<title>>)[1]
        /\ Append(Append(t, title), id)[1] = (t \o <<title>>)[1]
    BY <1>1, <1>8, FirstOf
  <2> QED BY <2>3, <2>4, Zenon
<1>10. ValuesIn(three, Message)[1] = (m \o <<message>>)[1]
  <2>1. ValuesIn(one, Message) = m
    BY <1>2, <1>3, <1>4, Zenon DEF Adds
  <2>2. ValuesIn(two, Message) = Append(m, message)
    BY <1>5, <2>1, Zenon DEF Adds
  <2>3. ValuesIn(three, Message) \in {Append(m, message), Append(Append(m, message), id)}
    <3>1. ValuesIn(three, Message) = IF Message = NodeID THEN Append(ValuesIn(two, Message), id)
                                     ELSE ValuesIn(two, Message)
      BY <1>6, Zenon DEF Adds
    <3> HIDE DEF m
    <3> QED BY <2>2, <3>1
  <2> HIDE DEF m
  <2>4. /\ Append(m, message)[1] = (m \o <<message>>)[1]
        /\ Append(Append(m, message), id)[1] = (m \o <<message>>)[1]
    BY <1>1, <1>8, FirstOf
  <2> QED BY <2>3, <2>4, Zenon
<1>11. Shown(three) = [title |-> (t \o <<title>>)[1], message |-> (m \o <<message>>)[1]]
  BY <1>7, <1>9, <1>10, Gets, Zenon DEF Shown
<1> QED BY <1>11, Zenon DEF three, two, one, id, t, m

LEMMA PageInit == Init => PageSays
  BY DEF Init, PageSays

LEMMA PageStep == TypeOK /\ StoredInv /\ PageSays /\ [Next]_vars => PageSays'
<1> SUFFICES ASSUME TypeOK, StoredInv, PageSays, [Next]_vars PROVE PageSays'
  OBVIOUS
<1>1. host \in Str /\ path \in Str /\ query \in Str
  BY RequestAssumption, EmptySeq DEF TypeOK, Str
<1>2. Text.page \in Str /\ Text.redirect \in Str /\ <<>> \in Str
  BY RequestAssumption, EmptySeq DEF Str
<1>3. Fields(query) \in Seq(Str)
  BY <1>1, FieldsType
<1>4. CASE UNCHANGED <<host, path, query, answer>>
  <2>1. UNCHANGED Address
    BY <1>4 DEF Address
  <2> QED BY <1>4, <2>1 DEF PageSays
<1>5. CASE answer' = answer /\ answer = [status |-> "none"]
  <2>1. "page" \notin DOMAIN answer'
    BY <1>5
  <2> QED BY <2>1, Zenon DEF PageSays
<1>6. CASE RejectMethod
  <2>1. answer' = [status |-> "not implemented"]
    BY <1>6 DEF RejectMethod
  <2>2. "page" \notin DOMAIN answer'
    BY <2>1
  <2> QED BY <2>2, Zenon DEF PageSays
<1> DEFINE fields == Fields(query)
           First(name, own) == (ValuesOf(fields, name) \o <<own>>)[1]
<1>7. pc = "process" /\ Ended(fields) => ListOf(variables, fields)
  BY Zenon DEF StoredInv
<1>8. CASE SendPage
  <2>1. /\ pc = "process" /\ variables' = PageVariables(Text.page, <<>>)
        /\ answer' = [status |-> "200", page |-> Shown(variables')]
        /\ UNCHANGED <<host, path, query>>
    BY <1>8, Zenon DEF SendPage
  <2> DEFINE shown == Shown(variables')
  <2>2. ASSUME Ended(fields)
        PROVE  shown = [title |-> First(Title, Text.page), message |-> First(Message, <<>>)]
    <3>1. ListOf(variables, fields)
      BY <1>7, <2>1, <2>2, Zenon
    <3> HIDE DEF fields
    <3>2. fields \in Seq(Str)
      BY <1>3 DEF fields
    <3>3. Shown(PageVariables(Text.page, <<>>))
             = [title |-> First(Title, Text.page), message |-> First(Message, <<>>)]
      <4>1. Shown(AddVariable(AddVariable(AddVariable(variables, Title, Text.page), Message, <<>>),
                              NodeID, <<49, 50, 51>>))
             = [title |-> First(Title, Text.page), message |-> First(Message, <<>>)]
        BY <1>2, <3>1, <3>2, PageShown
      <4> QED BY <4>1, Zenon DEF PageVariables
    <3> QED BY <2>1, <3>3, Zenon
  <2> HIDE DEF shown
  <2>3. answer'.status = "200" /\ answer'.page = shown /\ Fields(query') = fields
    BY <2>1 DEF shown
  <2> HIDE DEF fields
  <2> QED BY <2>2, <2>3, Zenon DEF PageSays
<1>9. CASE SendRedirect
  <2> DEFINE url == UrlEncode(Address)
  <2>1. /\ pc = "process" /\ variables' = PageVariables(Text.redirect, url)
        /\ answer'.status = "302" /\ answer'.page = Shown(variables')
        /\ UNCHANGED <<host, path, query>>
    <3> DEFINE shown == Shown(variables')
    <3>1. /\ pc = "process" /\ variables' = PageVariables(Text.redirect, url)
          /\ answer' = [status |-> "302", page |-> shown,
                        location |-> IF Len(url) <= Room THEN url ELSE SubSeq(url, 1, Room)]
          /\ UNCHANGED <<host, path, query>>
      BY <1>9, Zenon DEF SendRedirect
    <3> HIDE DEF shown, url
    <3> QED BY <3>1 DEF shown
  <2>2. url \in Str
    <3>1. Address \in Str
      BY <1>1, AddressText
    <3> QED BY <3>1, UrlEncodeType
  <2>3. UNCHANGED Address
    BY <2>1 DEF Address
  <2> DEFINE shown == Shown(variables')
  <2>4. ASSUME Ended(fields)
        PROVE  shown = [title |-> First(Title, Text.redirect), message |-> First(Message, url)]
    <3>1. ListOf(variables, fields)
      BY <1>7, <2>1, <2>4, Zenon
    <3> HIDE DEF fields, url
    <3>2. fields \in Seq(Str)
      BY <1>3 DEF fields
    <3>3. Shown(PageVariables(Text.redirect, url))
             = [title |-> First(Title, Text.redirect), message |-> First(Message, url)]
      <4>1. Shown(AddVariable(AddVariable(AddVariable(variables, Title, Text.redirect),
                                          Message, url),
                              NodeID, <<49, 50, 51>>))
             = [title |-> First(Title, Text.redirect), message |-> First(Message, url)]
        BY <1>2, <2>2, <3>1, <3>2, PageShown
      <4> QED BY <4>1, Zenon DEF PageVariables
    <3> QED BY <2>1, <3>3, Zenon
  <2>5. answer'.status # "200" /\ answer'.page = shown /\ Fields(query') = fields
        /\ UrlEncode(Address') = url
    BY <2>1, <2>3
  <2> HIDE DEF fields, url, shown
  <2> QED BY <2>4, <2>5, Zenon DEF PageSays
<1> QED BY <1>4, <1>5, <1>6, <1>8, <1>9 DEF Next, vars, ReadRequestLine, ReadHost,
                                     ReadAuthorization, EndHeaders, Silent, StoredInv

\* The page shows what the server says unless the query says otherwise, in the
\* answer to every request.
THEOREM PageTheorem == Spec => []PageSays
<1>1. Spec => []TypeOK /\ []StoredInv
  BY RequestTypeTheorem, StoredAlways
<1> QED BY <1>1, PageInit, PageStep, PTL DEF Spec

(***************************************************************************)
(* The elements of a path.                                                 *)
(***************************************************************************)

\* Elements with a slash before each of them.
LEMMA SlashedAppend ==
    ASSUME NEW C, Slash \in C, NEW els \in Seq(Seq(C)), NEW e \in Seq(C)
    PROVE  /\ Slashed(els) \in Seq(C)
           /\ Slashed(Append(els, e)) = Slashed(els) \o (<<Slash>> \o e)
<1> DEFINE N == Len(els)
           slash(x) == <<Slash>> \o x
           more == Append(els, e)
           lead == [i \in 1..N |-> slash(els[i])]
           all == [i \in 1..N + 1 |-> slash(more[i])]
<1>1. /\ N \in Nat /\ more \in Seq(Seq(C)) /\ Len(more) = N + 1
      /\ more[N + 1] = e /\ \A i \in 1..N : more[i] = els[i] /\ els[i] \in Seq(C)
      /\ DOMAIN els = 1..N
  BY AppendProperties
<1>2. DOMAIN more = 1..N + 1
  BY <1>1, LenProperties
<1>3. \A x \in Seq(C) : slash(x) \in Seq(C)
  BY ConcatProperties
<1>4. Slashed(els) = Concat(lead) /\ Slashed(more) = Concat(all)
  BY <1>1, <1>2 DEF Slashed
<1> HIDE DEF more, N, slash
<1>5. lead \in Seq(Seq(C)) /\ Len(lead) = N /\ \A i \in 1..N : lead[i] = slash(els[i])
  BY <1>1, <1>3, IsASeq
<1>6. \A i \in 1..N + 1 : more[i] \in Seq(C)
  BY <1>1, LenProperties
<1>7. all \in Seq(Seq(C)) /\ Len(all) = N + 1 /\ \A i \in 1..N + 1 : all[i] = slash(more[i])
  BY <1>1, <1>3, <1>6, IsASeq
<1> HIDE DEF lead, all
<1>8. all = Append(lead, slash(e))
  <2> DEFINE z == Append(lead, slash(e))
  <2>1. z \in Seq(Seq(C)) /\ Len(z) = N + 1 /\ z[N + 1] = slash(e)
        /\ \A i \in 1..N : z[i] = lead[i]
    BY <1>3, <1>5, AppendProperties
  <2> HIDE DEF z
  <2>2. ASSUME NEW i \in 1..N + 1 PROVE all[i] = z[i]
    <3>1. CASE i = N + 1
      BY <1>1, <1>7, <2>1, <3>1, Zenon
    <3>2. CASE i # N + 1
      <4>1. i \in 1..N
        BY <1>1, <3>2
      <4> QED BY <1>1, <1>5, <1>7, <2>1, <4>1, Zenon
    <3> QED BY <3>1, <3>2
  <2>3. all = z
    BY <1>7, <2>1, <2>2, SeqEqual
  <2> QED BY <2>3 DEF z
<1>9. slash(e) \in Seq(C)
  BY <1>3
<1>10. Concat(lead) \in Seq(C) /\ Concat(Append(lead, slash(e))) = Concat(lead) \o slash(e)
  BY <1>5, <1>9, ConcatAppend
<1> QED BY <1>4, <1>8, <1>10, Zenon DEF slash, more

\* No elements.
LEMMA SlashedEmpty == Slashed(<<>>) = <<>>
<1>1. DOMAIN <<>> = {}
  OBVIOUS
<1>2. [i \in DOMAIN <<>> |-> <<Slash>> \o <<>>[i]] = <<>>
  BY <1>1
<1>3. Slashed(<<>>) = Concat(<<>>)
  BY <1>2, Zenon DEF Slashed
<1> QED BY <1>3, ConcatEmpty

\* A character more.
LEMMA SlashedGrows ==
    ASSUME NEW C, Slash \in C, NEW els \in Seq(Seq(C)), NEW e \in Seq(C), NEW ch \in C
    PROVE  /\ Slashed(Append(els, e)) \in Seq(C)
           /\ Slashed(Append(els, <<>>)) = Append(Slashed(els), Slash)
           /\ Slashed(Append(els, Append(e, ch))) = Append(Slashed(Append(els, e)), ch)
           /\ SubSeq(Slashed(Append(els, e)), 1, Len(Slashed(els))) = Slashed(els)
           /\ Len(Slashed(els)) \in Nat
<1> DEFINE s == Slashed(els)
           tail == <<Slash>> \o e
<1>1. s \in Seq(C) /\ Slashed(Append(els, e)) = s \o tail
  BY SlashedAppend
<1>2. <<>> \in Seq(C) /\ <<Slash>> \in Seq(C) /\ tail \in Seq(C) /\ Append(e, ch) \in Seq(C)
  BY EmptySeq, ConcatProperties, AppendProperties
<1>3. Slashed(Append(els, <<>>)) = s \o (<<Slash>> \o <<>>)
  BY <1>2, SlashedAppend
<1>4. <<Slash>> \o <<>> = <<Slash>>
  BY <1>2, ConcatEmptySeq
<1>5. s \o <<Slash>> = Append(s, Slash)
  <2> HIDE DEF s
  <2> QED BY <1>1, AppendIsConcat
<1>6. Slashed(Append(els, Append(e, ch))) = s \o (<<Slash>> \o Append(e, ch))
  BY <1>2, SlashedAppend
<1>7. <<Slash>> \o Append(e, ch) = Append(tail, ch)
  BY <1>2, ConcatOne
<1>8. s \o Append(tail, ch) = Append(s \o tail, ch)
  <2> HIDE DEF s, tail
  <2> QED BY <1>1, <1>2, ConcatOne
<1>9. s \o tail \in Seq(C) /\ Joins(s \o tail, s, tail) /\ Len(s) \in Nat
  <2> HIDE DEF s, tail
  <2> QED BY <1>1, <1>2, ConcatJoins
<1>10. SubSeq(s \o tail, 1, Len(s)) = s
  <2> DEFINE u == s \o tail
  <2>1. u \in Seq(C) /\ Len(s) \in 0..Len(u) /\ \A i \in 1..Len(s) : u[i] = s[i]
    <3>1. u \in Seq(C) /\ Joins(u, s, tail)
      BY <1>9
    <3> HIDE DEF u, s, tail
    <3> QED BY <1>1, <3>1 DEF Joins
  <2> HIDE DEF u, s
  <2>2. SubSeq(u, 1, Len(s)) = s
    <3> DEFINE x == SubSeq(u, 1, Len(s))
    <3>1. \A i \in 1..Len(s) : u[i] \in C
      BY <2>1
    <3>2. x \in Seq(C) /\ Len(x) = Len(s) /\ \A i \in 1..Len(s) : x[i] = u[i]
      BY <1>1, <2>1, <3>1, SubSeqProperties
    <3> HIDE DEF x
    <3>3. x = s
      BY <1>1, <2>1, <3>2, SeqEqual
    <3> QED BY <3>3 DEF x
  <2> QED BY <2>2 DEF u
<1> HIDE DEF s, tail
<1> QED BY <1>1, <1>3, <1>4, <1>5, <1>6, <1>7, <1>8, <1>9, <1>10 DEF s
\* What stands first.
LEMMA FirstKept ==
    ASSUME NEW C, NEW s \in Seq(C), NEW t \in Seq(C), NUL \notin C, NEW ch \in C, At(s, 1) = ch
    PROVE  At(s \o t, 1) = ch
<1>1. s \o t \in Seq(C) /\ Joins(s \o t, s, t)
  BY ConcatJoins
<1>2. 1 \in 1..Len(s) /\ s[1] = ch
  <2>1. 1 \in DOMAIN s
    BY DEF At
  <2> QED BY <2>1 DEF At
<1> DEFINE u == s \o t
<1>3. u \in Seq(C) /\ Joins(u, s, t)
  BY <1>1
<1> HIDE DEF u
<1>4. Len(u) >= 1 /\ u[1] = s[1]
  BY <1>2, <1>3 DEF Joins
<1>5. 1 \in DOMAIN u
  BY <1>3, <1>4
<1>6. At(u, 1) = ch
  BY <1>2, <1>4, <1>5 DEF At
<1> QED BY <1>6 DEF u

\* Their text begins with a slash.
LEMMA SlashFirst ==
    ASSUME NEW els \in Seq(Str), NEW e \in Str
    PROVE  At(Slashed(Append(els, e)), 1) = Slash
<1> DEFINE S == {l \in Seq(Str) : \A x \in Str : At(Slashed(Append(l, x)), 1) = Slash}
<1>1. Slash \in Char /\ NUL \notin Char
  BY DEF Slash, Char, NUL
<1>2. <<>> \in S
  <2> SUFFICES ASSUME NEW x \in Str PROVE At(Slashed(Append(<<>>, x)), 1) = Slash
    BY EmptySeq
  <2> DEFINE tail == <<Slash>> \o x
  <2>1. <<>> \in Seq(Str) /\ <<Slash>> \in Str
    BY <1>1, EmptySeq DEF Str
  <2>2. Slashed(Append(<<>>, x)) = <<>> \o tail
    BY <1>1, <2>1, SlashedAppend, SlashedEmpty DEF Str
  <2>3. tail \in Str
    BY <2>1, ConcatProperties DEF Str
  <2>4. <<>> \o tail = tail
    BY <2>3, ConcatEmptySeq DEF Str
  <2>5. At(<<Slash>>, 1) = Slash
    BY DEF At
  <2>6. At(tail, 1) = Slash
    BY <1>1, <2>1, <2>5, FirstKept DEF Str
  <2> QED BY <2>2, <2>4, <2>6
<1>3. ASSUME NEW l \in Seq(Str), NEW y \in Str, l \in S PROVE Append(l, y) \in S
  <2> DEFINE more == Append(l, y)
  <2>1. more \in Seq(Str)
    BY AppendProperties
  <2> SUFFICES ASSUME NEW x \in Str PROVE At(Slashed(Append(more, x)), 1) = Slash
    BY <2>1
  <2> DEFINE tail == <<Slash>> \o x
  <2>2. At(Slashed(more), 1) = Slash
    BY <1>3
  <2>3. tail \in Str
    BY <1>1, ConcatProperties DEF Str
  <2> HIDE DEF more
  <2>4. Slashed(Append(more, x)) = Slashed(more) \o tail /\ Slashed(more) \in Str
    BY <1>1, <2>1, SlashedAppend DEF Str
  <2> HIDE DEF tail
  <2>5. At(Slashed(more) \o tail, 1) = Slash
    BY <1>1, <2>2, <2>3, <2>4, FirstKept DEF Str
  <2> QED BY <2>4, <2>5
<1>4. Seq(Str) \subseteq S
  <2> HIDE DEF S
  <2> QED BY <1>2, <1>3, SeqInduction
<1> QED BY <1>4

(***************************************************************************)
(* Going from element to element.                                          *)
(***************************************************************************)
LEMMA WalkType ==
    ASSUME NEW C
    PROVE  \A v \in Seq(C), e \in C : Walk(v, e) \in Seq(C)
<1> SUFFICES ASSUME NEW v \in Seq(C), NEW e \in C
             PROVE  Walk(v, e) \in Seq(C)
  OBVIOUS
<1>1. Append(v, e) \in Seq(C) /\ <<>> \in Seq(C)
  BY AppendProperties, EmptySeq
<1>2. CASE v # <<>>
  <2>1. Len(v) - 1 \in Int /\ \A i \in 1..Len(v) - 1 : v[i] \in C
    OBVIOUS
  <2>2. SubSeq(v, 1, Len(v) - 1) \in Seq(C)
    BY <2>1, SubSeqProperties
  <2> QED BY <1>1, <2>2 DEF Walk
<1>3. CASE v = <<>>
  BY <1>1, <1>3 DEF Walk
<1> QED BY <1>2, <1>3

\* The states of Walked.
WalkRun(f, els, C) ==
    /\ f \in [0..Len(els) -> Seq(C)]
    /\ f[0] = <<>>
    /\ \A i \in 1..Len(els) : f[i] = Walk(f[i - 1], els[i])

LEMMA WalkRuns ==
    ASSUME NEW C, NEW els \in Seq(C)
    PROVE  \E f : WalkRun(f, els, C) /\ Walked(els) = f[Len(els)]
<1> DEFINE N == Len(els)
           V == Seq(C)
           b == <<>>
           Step(v, x) == Walk(v, x)
           Rec(f) == f = [i \in 0..N |-> IF i = 0 THEN b ELSE Step(f[i - 1], els[i])]
           h == CHOOSE f : Rec(f)
           g == [p \in V \X (1..N) |-> Step(p[1], els[p[2]])]
<1>1. N \in Nat /\ b \in V /\ g \in Steps(N, V)
  <2>1. b \in V
    BY EmptySeq
  <2>2. \A v \in V, e \in C : Step(v, e) \in V
    BY WalkType
  <2>3. \A i \in 1..N : els[i] \in C
    OBVIOUS
  <2> HIDE DEF V, b, Step
  <2>4. g \in Steps(N, V)
    BY <2>2, <2>3, Zenon DEF Steps
  <2> QED BY <2>1, <2>4
<1> HIDE DEF Step
<1>2. PICK f : Iterates(f, N, V, b, g)
  <2> HIDE DEF N, V, b, g
  <2> QED BY <1>1, RecursionExists
<1>3. /\ f \in [0..N -> V] /\ f[0] = b
      /\ \A i \in 1..N : f[i] = Step(f[i - 1], els[i])
  <2>1. \A v \in V, i \in 1..N : g[<<v, i>>] = Step(v, els[i])
    <3> HIDE DEF V, b
    <3> QED BY Zenon
  <2>2. \A i \in 1..N : i - 1 \in 0..N
    BY <1>1
  <2> HIDE DEF N, V, b, g
  <2> QED BY <1>2, <2>1, <2>2 DEF Iterates
<1> HIDE DEF N, V, b
<1>4. Rec(f)
  <2>1. ASSUME NEW i \in 0..N PROVE f[i] = IF i = 0 THEN b ELSE Step(f[i - 1], els[i])
    <3>1. i # 0 => i \in 1..N
      BY <1>1
    <3> QED BY <1>3, <3>1
  <2> QED BY <1>3, <2>1
<1>5. Rec(h)
  BY <1>4
<1>6. Walked(els) = h[N]
  BY DEF Walked, N, b, Step
<1>7. h[N] = f[N]
  <2> HIDE DEF h
  <2>1. SameSteps(h, f, N)
    BY <1>1, <1>4, <1>5 DEF SameSteps
  <2> QED BY <1>1, <2>1, SameStepsAgree
<1>8. WalkRun(f, els, C)
  BY <1>3 DEF WalkRun, N, V, b, Step
<1> HIDE DEF h
<1> QED BY <1>6, <1>7, <1>8 DEF N

\* One element more.
LEMMA WalkedAppend ==
    ASSUME NEW C, NEW els \in Seq(C), NEW e \in C
    PROVE  /\ Walked(els) \in Seq(C)
           /\ Walked(Append(els, e)) = Walk(Walked(els), e)
<1> DEFINE N == Len(els)
           more == Append(els, e)
<1>1. /\ N \in Nat /\ more \in Seq(C) /\ Len(more) = N + 1
      /\ more[N + 1] = e /\ \A n \in 1..N : more[n] = els[n]
  BY AppendProperties
<1>2. PICK f : WalkRun(f, els, C) /\ Walked(els) = f[N]
  BY WalkRuns
<1>3. PICK d : WalkRun(d, more, C) /\ Walked(more) = d[N + 1]
  <2> HIDE DEF more
  <2> QED BY <1>1, WalkRuns
<1> HIDE DEF more, N
<1>4. SameSteps(d, f, N)
  <2>1. f[0] = <<>> /\ \A i \in 1..N : f[i] = Walk(f[i - 1], els[i])
    BY <1>2 DEF WalkRun, N
  <2>2. d[0] = <<>> /\ \A i \in 1..N : d[i] = Walk(d[i - 1], els[i])
    <3>1. \A i \in 1..N : i \in 1..Len(more)
      BY <1>1
    <3> QED BY <1>1, <1>3, <3>1, Zenon DEF WalkRun
  <2> QED BY <2>1, <2>2 DEF SameSteps
<1>5. d[N] = f[N]
  BY <1>1, <1>4, SameStepsAgree
<1>6. f[N] \in Seq(C)
  <2>1. N \in 0..N
    BY <1>1
  <2>2. f \in [0..N -> Seq(C)]
    BY <1>2, Zenon DEF WalkRun, N
  <2> QED BY <2>1, <2>2
<1>7. d[N + 1] = Walk(d[N], e)
  <2>1. N + 1 \in 1..Len(more) /\ (N + 1) - 1 = N
    BY <1>1
  <2> QED BY <1>1, <1>3, <2>1, Zenon DEF WalkRun
<1> QED BY <1>2, <1>3, <1>5, <1>6, <1>7, Zenon DEF more

\* Of nothing.
LEMMA WalkedEmpty ==
    ASSUME NEW C, TRUE
    PROVE  Walked(<<>>) = <<>>
<1>1. <<>> \in Seq(C) /\ Len(<<>>) = 0
  BY EmptySeq
<1>2. PICK f : WalkRun(f, <<>>, C) /\ Walked(<<>>) = f[Len(<<>>)]
  BY <1>1, WalkRuns
<1> QED BY <1>1, <1>2, Zenon DEF WalkRun

(***************************************************************************)
(* The parts of a text that begins with a slash: nothing, its elements,    *)
(* and the name that no slash follows.                                     *)
(***************************************************************************)
Rooted(els, name) == Append(<< <<>> >> \o els, name)

\* The elements and the name are found in the parts.
LEMMA RootedParts ==
    ASSUME NEW C, NEW els \in Seq(Seq(C)), NEW name \in Seq(C)
    PROVE  LET p == Rooted(els, name)
           IN  /\ p \in Seq(Seq(C))
               /\ SubSeq(p, 2, Len(p) - 1) = els
               /\ p[Len(p)] = name
<1> DEFINE root == << <<>> >>
           D == Seq(C)
           u == root \o els
           p == Append(u, name)
           n == Len(els)
<1>1. root \in Seq(D) /\ Len(root) = 1 /\ n \in Nat /\ els \in Seq(D)
  BY EmptySeq
<1>2. u \in Seq(D) /\ Joins(u, root, els)
  <2> HIDE DEF root, D
  <2> QED BY <1>1, ConcatJoins
<1> HIDE DEF root, u
<1>3. Len(u) = n + 1 /\ \A i \in 1..n : u[i + 1] = els[i]
  BY <1>1, <1>2 DEF Joins
<1>4. p \in Seq(D) /\ Len(p) = n + 2 /\ p[n + 2] = name /\ \A i \in 1..n + 1 : p[i] = u[i]
  BY <1>1, <1>2, <1>3, AppendProperties
<1> DEFINE m == SubSeq(p, 2, n + 1)
<1>5. m \in Seq(D) /\ Len(m) = n /\ \A i \in 1..n : m[i] = p[2 + i - 1]
  <2> HIDE DEF p, n, D
  <2>1. \A i \in 2..n + 1 : p[i] \in D
    BY <1>1, <1>4
  <2> QED BY <1>1, <2>1, SubSeqProperties
<1> HIDE DEF m, p
<1>6. ASSUME NEW i \in 1..n PROVE m[i] = els[i]
  <2>1. 2 + i - 1 = i + 1 /\ i + 1 \in 1..n + 1
    BY <1>1
  <2> QED BY <1>3, <1>4, <1>5, <2>1
<1>7. m = els
  BY <1>1, <1>5, <1>6, SeqEqual
<1>8. Len(p) - 1 = n + 1 /\ Len(p) = n + 2
  BY <1>1, <1>4
<1> QED BY <1>4, <1>7, <1>8 DEF Rooted, p, u, root, m

\* A character more: a slash makes an element of the name.
LEMMA RootedGrows ==
    ASSUME NEW els \in Seq(Str), NEW name \in Str, NEW ch \in Char
    PROVE  WithChar(Rooted(els, name), ch, Slash)
             = IF ch = Slash THEN Rooted(Append(els, name), <<>>)
               ELSE Rooted(els, Append(name, ch))
<1> DEFINE root == << <<>> >>
           u == root \o els
<1>1. root \in Seq(Str)
  BY EmptySeq DEF Str
<1> HIDE DEF root
<1>2. u \in Seq(Str)
  BY <1>1, ConcatProperties
<1>3. root \o Append(els, name) = Append(u, name)
  BY <1>1, ConcatOne
<1>4. WithChar(Append(u, name), ch, Slash) = IF ch = Slash THEN Append(Append(u, name), <<>>)
                                            ELSE Append(u, Append(name, ch))
  <2> HIDE DEF u
  <2> DEFINE sep == Slash
  <2> HIDE DEF sep
  <2>1. WithChar(Append(u, name), ch, sep) = IF ch = sep THEN Append(Append(u, name), <<>>)
                                             ELSE Append(u, Append(name, ch))
    BY <1>2, WithCharText
  <2> QED BY <2>1 DEF sep
<1> QED BY <1>3, <1>4, Zenon DEF Rooted, root, u

\* Behind each character: the elements that a slash has ended, and the name
\* that has begun.
Name == Seq(Char \ {Slash})

Passed == [done : Seq(Name), name : Name]

\* A character more; the first is the slash that the text begins with.
PassStep(v, ch, i) ==
    IF i = 1 THEN v
    ELSE IF ch = Slash THEN [done |-> Append(v.done, v.name), name |-> <<>>]
    ELSE [done |-> v.done, name |-> Append(v.name, ch)]

\* One character.
LEMMA PassStepType ==
    ASSUME NEW v \in Passed, NEW ch \in Char, NEW i
    PROVE  PassStep(v, ch, i) \in Passed
<1>1. v.done \in Seq(Name) /\ v.name \in Name /\ <<>> \in Name
  BY EmptySeq DEF Passed, Name
<1>2. Append(v.done, v.name) \in Seq(Name)
  BY <1>1, AppendProperties
<1>3. CASE ch = Slash
  BY <1>1, <1>2, <1>3 DEF PassStep, Passed
<1>4. CASE ch # Slash
  <2>1. Append(v.name, ch) \in Name
    BY <1>1, <1>4, AppendProperties DEF Name
  <2> QED BY <1>1, <1>4, <2>1 DEF PassStep, Passed
<1> QED BY <1>3, <1>4

Nothing == [done |-> <<>>, name |-> <<>>]

Passing(g, url) ==
    /\ g \in [0..Len(url) -> Passed]
    /\ g[0] = Nothing
    /\ \A i \in 1..Len(url) : g[i] = PassStep(g[i - 1], url[i], i)

\* There are such states.
LEMMA Passes ==
    ASSUME NEW url \in Str
    PROVE  \E g : Passing(g, url)
<1> DEFINE N == Len(url)
           g == [p \in Passed \X (1..N) |-> PassStep(p[1], url[p[2]], p[2])]
<1>1. N \in Nat /\ Nothing \in Passed
  BY EmptySeq DEF Str, Passed, Nothing, Name
<1>2. \A i \in 1..N : url[i] \in Char
  BY DEF Str
<1>3. \A v \in Passed, i \in 1..N : PassStep(v, url[i], i) \in Passed
  BY <1>2, PassStepType
<1>4. \A v \in Passed, i \in 1..N : g[<<v, i>>] = PassStep(v, url[i], i)
  BY Zenon
<1>5. g \in Steps(N, Passed)
  BY <1>3, Zenon DEF Steps
<1> HIDE DEF g, N
<1>6. PICK f : Iterates(f, N, Passed, Nothing, g)
  BY <1>1, <1>5, RecursionExists
<1>7. \A i \in 1..N : i - 1 \in 0..N
  BY <1>1
<1> QED BY <1>4, <1>6, <1>7 DEF Iterates, Passing, N

\* Which parts a text has, told by what has been passed.
LEMMA PassedParts ==
    ASSUME NEW url \in Str, At(url, 1) = Slash, NEW g, Passing(g, url)
    PROVE  Split(url, Slash) = Rooted(g[Len(url)].done, g[Len(url)].name)
<1> DEFINE N == Len(url)
<1>1. /\ N \in Nat /\ \A i \in 1..N : url[i] \in Char
      /\ 1 \in 1..N /\ url[1] = Slash /\ url \in Seq(Char)
  BY AtText DEF Slash, NUL, Str
<1>2. PICK f : SplitRun(f, url, Char, Slash) /\ Split(url, Slash) = f[N]
  BY <1>1, SplitRuns
<1>3. f[0] = << <<>> >> /\ \A i \in 1..N : f[i] = WithChar(f[i - 1], url[i], Slash)
  BY <1>2, Zenon DEF SplitRun
<1>4. /\ g \in [0..N -> Passed] /\ g[0] = Nothing
      /\ \A i \in 1..N : g[i] = PassStep(g[i - 1], url[i], i)
  BY Zenon DEF Passing
<1> HIDE DEF N
<1> DEFINE T == {i \in 0..N : i > 0 => f[i] = Rooted(g[i].done, g[i].name)}
<1>5. 0 \in T
  BY <1>1
<1>6. ASSUME NEW i \in 0..N, i < N, i \in T PROVE i + 1 \in T
  <2>1. i + 1 \in 1..N /\ (i + 1) - 1 = i /\ i + 1 \in 0..N /\ i \in Nat
    BY <1>1, <1>6
  <2>2. f[i + 1] = WithChar(f[i], url[i + 1], Slash) /\ g[i + 1] = PassStep(g[i], url[i + 1], i + 1)
        /\ url[i + 1] \in Char
    BY <1>1, <1>3, <1>4, <2>1
  <2> SUFFICES f[i + 1] = Rooted(g[i + 1].done, g[i + 1].name)
    BY <2>1
  <2>3. CASE i = 0
    <3> DEFINE one == 1
    <3>0. one \in 1..N /\ one - 1 = 0 /\ url[one] = Slash /\ i + 1 = one
      BY <1>1, <2>3
    <3>1. f[one] = WithChar(<< <<>> >>, Slash, Slash) /\ g[one] = Nothing
      <4>1. f[one] = WithChar(f[one - 1], url[one], Slash)
        BY <1>3, <3>0, Zenon
      <4>2. g[one] = PassStep(g[one - 1], url[one], one)
        BY <1>4, <3>0, Zenon
      <4>3. PassStep(g[0], url[one], one) = g[0]
        BY Zenon DEF PassStep, one
      <4> HIDE DEF one
      <4> QED BY <1>3, <1>4, <3>0, <4>1, <4>2, <4>3, Zenon
    <3>2. f[one] = Append(<< <<>> >>, <<>>)
      BY <3>1, Zenon DEF WithChar
    <3>3. << <<>> >> \o <<>> = << <<>> >>
      OBVIOUS
    <3>4. Rooted(<<>>, <<>>) = Append(<< <<>> >>, <<>>)
      BY <3>3, Zenon DEF Rooted
    <3> QED BY <3>0, <3>1, <3>2, <3>4 DEF Nothing
  <2>4. CASE i # 0
    <3> DEFINE d == g[i].done
               c == g[i].name
               ch == url[i + 1]
    <3>1. f[i] = Rooted(d, c)
      BY <1>6, <2>1, <2>4
    <3>2. d \in Seq(Str) /\ c \in Str
      <4>1. g[i] \in Passed
        BY <1>4
      <4>2. Name \subseteq Str
        BY DEF Name, Str
      <4>3. d \in Seq(Name) /\ c \in Name
        BY <4>1 DEF Passed
      <4> HIDE DEF d, c
      <4> QED BY <4>2, <4>3
    <3>3. g[i + 1] = IF ch = Slash THEN [done |-> Append(d, c), name |-> <<>>]
                     ELSE [done |-> d, name |-> Append(c, ch)]
      BY <2>1, <2>2, <2>4 DEF PassStep
    <3> HIDE DEF d, c, ch
    <3>4. ch \in Char
      BY <2>2 DEF ch
    <3>5. WithChar(Rooted(d, c), ch, Slash) = IF ch = Slash THEN Rooted(Append(d, c), <<>>)
                                             ELSE Rooted(d, Append(c, ch))
      BY <3>2, <3>4, RootedGrows
    <3>6. f[i + 1] = WithChar(Rooted(d, c), ch, Slash)
      BY <2>2, <3>1, Zenon DEF ch
    <3>7. CASE ch = Slash
      <4>1. g[i + 1].done = Append(d, c) /\ g[i + 1].name = <<>>
        BY <3>3, <3>7
      <4> QED BY <3>5, <3>6, <3>7, <4>1, Zenon
    <3>8. CASE ch # Slash
      <4>1. g[i + 1].done = d /\ g[i + 1].name = Append(c, ch)
        BY <3>3, <3>8
      <4> QED BY <3>5, <3>6, <3>8, <4>1, Zenon
    <3> QED BY <3>7, <3>8
  <2> QED BY <2>3, <2>4
<1>7. N \in T
  <2> HIDE DEF T
  <2>1. 0..N \subseteq T
    BY <1>1, <1>5, <1>6, SetInduction
  <2> QED BY <1>1, <2>1
<1>8. f[N] = Rooted(g[N].done, g[N].name)
  BY <1>1, <1>7
<1> QED BY <1>2, <1>8 DEF N

\* Names are texts.
LEMMA NameText == Name \subseteq Str /\ Seq(Name) \subseteq Seq(Str) /\ <<>> \in Name
                  /\ \A c \in Char : c # Slash => c \in Char \ {Slash}
<1>1. Name \subseteq Str
  BY DEF Name, Str
<1>2. <<>> \in Name
  BY EmptySeq DEF Name
<1> QED BY <1>1, <1>2

\* Behind a slash a name is the last part.
LEMMA SplitName ==
    ASSUME NEW els \in Seq(Name), NEW s \in Str, Split(s, Slash) = Rooted(els, <<>>),
           NEW name \in Name
    PROVE  Split(s \o name, Slash) = Rooted(els, name)
<1> DEFINE C == Char \ {Slash}
           S == {t \in Seq(C) : Split(s \o t, Slash) = Rooted(els, t)}
<1>1. C \subseteq Char /\ Slash \notin C /\ els \in Seq(Str) /\ Seq(C) \subseteq Str
  BY NameText DEF Name
<1> HIDE DEF C
<1>2. <<>> \in S
  <2>1. s \o <<>> = s
    BY ConcatEmptySeq DEF Str
  <2>2. <<>> \in Seq(C)
    BY EmptySeq
  <2>3. Split(s \o <<>>, Slash) = Rooted(els, <<>>)
    BY <2>1, Zenon
  <2> QED BY <2>2, <2>3
<1>3. ASSUME NEW t \in Seq(C), NEW c \in C, t \in S PROVE Append(t, c) \in S
  <2> DEFINE u == s \o t
  <2>1. t \in Str /\ c \in Char /\ c # Slash
    BY <1>1
  <2>2. u \in Str
    BY <2>1, ConcatProperties DEF Str
  <2>3. s \o Append(t, c) = Append(u, c)
    BY <2>1, ConcatOne DEF Str
  <2>4. Split(u, Slash) = Rooted(els, t)
    BY <1>3
  <2> HIDE DEF u
  <2>5. Split(Append(u, c), Slash) = WithChar(Split(u, Slash), c, Slash)
    BY <2>1, <2>2, SplitAppend DEF Str
  <2>6. WithChar(Rooted(els, t), c, Slash) = Rooted(els, Append(t, c))
    BY <1>1, <2>1, RootedGrows, Zenon
  <2>7. Append(t, c) \in Seq(C)
    BY AppendProperties
  <2>8. Split(s \o Append(t, c), Slash) = Rooted(els, Append(t, c))
    BY <2>3, <2>4, <2>5, <2>6, Zenon
  <2> QED BY <2>7, <2>8
<1>4. Seq(C) \subseteq S
  <2> HIDE DEF S
  <2> QED BY <1>2, <1>3, SeqInduction
<1> QED BY <1>4 DEF C, Name

\* A text has the parts it was put together from.
LEMMA SlashedSplit ==
    ASSUME NEW els \in Seq(Name), NEW name \in Name
    PROVE  Split(Slashed(Append(els, name)), Slash) = Rooted(els, name)
<1> DEFINE Apart(l) == Split(Slashed(Append(l, <<>>)), Slash) = Rooted(l, <<>>)
           S == {l \in Seq(Name) : Apart(l)}
<1>1. Slash \in Char
  BY DEF Slash, Char
<1>2. \A l \in Seq(Name) : /\ Slashed(l) \in Str
                           /\ Slashed(Append(l, <<>>)) = Append(Slashed(l), Slash)
  <2> TAKE l \in Seq(Name)
  <2>1. l \in Seq(Seq(Char)) /\ <<>> \in Seq(Char)
    BY NameText DEF Str
  <2> HIDE DEF Apart
  <2> QED BY <1>1, <2>1, SlashedAppend, SlashedGrows DEF Str
<1>3. ASSUME NEW l \in Seq(Name), Apart(l), NEW x \in Name
      PROVE  Split(Slashed(Append(l, x)), Slash) = Rooted(l, x)
  <2> DEFINE s == Slashed(l)
             slash == <<Slash>>
             t == Slashed(Append(l, <<>>))
  <2>1. l \in Seq(Str) /\ x \in Str
    BY NameText
  <2>2. Slashed(Append(l, x)) = s \o (slash \o x)
    BY <1>1, <2>1, SlashedAppend DEF Str
  <2>3. s \in Str /\ t = Append(s, Slash)
    BY <1>2
  <2>4. slash \in Str
    BY <1>1 DEF Str
  <2> HIDE DEF s, t, slash
  <2>5. t \in Str /\ t = s \o slash
    <3>1. t \in Str
      BY <1>1, <2>3, AppendProperties DEF Str
    <3>2. Append(s, Slash) = s \o <<Slash>>
      BY <1>1, <2>3, AppendIsConcat DEF Str
    <3> QED BY <2>3, <3>1, <3>2, Zenon DEF slash
  <2>6. (s \o slash) \o x = s \o (slash \o x)
    BY <2>1, <2>3, <2>4, ConcatAssociative DEF Str
  <2>7. Split(t, Slash) = Rooted(l, <<>>)
    BY <1>3 DEF t
  <2>8. Split(t \o x, Slash) = Rooted(l, x)
    BY <2>5, <2>7, SplitName
  <2> QED BY <2>2, <2>5, <2>6, <2>8
<1>4. <<>> \in S
  <2>1. <<>> \in Seq(Name)
    BY EmptySeq
  <2>2. Slashed(Append(<<>>, <<>>)) = Append(<<>>, Slash)
    BY <1>2, <2>1, SlashedEmpty, Zenon
  <2>3. Split(Append(<<>>, Slash), Slash) = WithChar(Split(<<>>, Slash), Slash, Slash)
    BY <1>1, EmptySeq, SplitAppend
  <2>4. Split(<<>>, Slash) = << <<>> >>
    BY SplitEmpty, Zenon
  <2>5. WithChar(<< <<>> >>, Slash, Slash) = Append(<< <<>> >>, <<>>)
    BY Zenon DEF WithChar
  <2>6. << <<>> >> \o <<>> = << <<>> >>
    OBVIOUS
  <2>7. Rooted(<<>>, <<>>) = Append(<< <<>> >>, <<>>)
    BY <2>6, Zenon DEF Rooted
  <2>8. Apart(<<>>)
    BY <2>2, <2>3, <2>4, <2>5, <2>7, Zenon
  <2> QED BY <2>1, <2>8
<1>5. ASSUME NEW l \in Seq(Name), NEW x \in Name, l \in S PROVE Append(l, x) \in S
  <2> DEFINE more == Append(l, x)
             t == Slashed(more)
  <2>1. more \in Seq(Name) /\ l \in Seq(Str) /\ x \in Str
    BY NameText, AppendProperties
  <2>2. Split(t, Slash) = Rooted(l, x)
    BY <1>3, <1>5
  <2>3. t \in Str /\ Slashed(Append(more, <<>>)) = Append(t, Slash)
    <3> HIDE DEF more
    <3> QED BY <1>2, <2>1
  <2>4. Split(Append(t, Slash), Slash) = WithChar(Split(t, Slash), Slash, Slash)
    <3> HIDE DEF t
    <3> QED BY <1>1, <2>3, SplitAppend DEF Str
  <2>5. WithChar(Rooted(l, x), Slash, Slash) = Rooted(more, <<>>)
    BY <1>1, <2>1, RootedGrows, Zenon
  <2>6. Apart(more)
    BY <2>2, <2>3, <2>4, <2>5, Zenon
  <2> QED BY <2>1, <2>6
<1>6. Seq(Name) \subseteq S
  <2> HIDE DEF S
  <2> QED BY <1>4, <1>5, SeqInduction
<1> QED BY <1>3, <1>6

\* A character more, of texts put together from names.
LEMMA NamesGrow ==
    ASSUME NEW els \in Seq(Name), NEW name \in Name
    PROVE  /\ Slashed(els) \in Str /\ Slashed(Append(els, name)) \in Str
           /\ Slashed(Append(els, <<>>)) = Append(Slashed(els), Slash)
           /\ \A ch \in Char :
                 Slashed(Append(els, Append(name, ch))) = Append(Slashed(Append(els, name)), ch)
           /\ SubSeq(Slashed(Append(els, name)), 1, Len(Slashed(els))) = Slashed(els)
           /\ Len(Slashed(els)) \in Nat
           /\ At(Slashed(Append(els, name)), 1) = Slash
<1>1. Slash \in Char /\ els \in Seq(Seq(Char)) /\ name \in Seq(Char) /\ <<>> \in Seq(Char)
  BY NameText DEF Slash, Char, Str
<1>2. Slashed(els) \in Str
  BY <1>1, SlashedAppend DEF Str
<1>3. At(Slashed(Append(els, name)), 1) = Slash
  BY NameText, SlashFirst
<1>4. ASSUME NEW ch \in Char
      PROVE  /\ Slashed(Append(els, name)) \in Seq(Char)
             /\ Slashed(Append(els, <<>>)) = Append(Slashed(els), Slash)
             /\ Slashed(Append(els, Append(name, ch))) = Append(Slashed(Append(els, name)), ch)
             /\ SubSeq(Slashed(Append(els, name)), 1, Len(Slashed(els))) = Slashed(els)
             /\ Len(Slashed(els)) \in Nat
  BY <1>1, SlashedGrows
<1> QED BY <1>1, <1>2, <1>3, <1>4 DEF Str

\* Names less those that do not count.
LEMMA NamesKept ==
    ASSUME NEW els \in Seq(Name), NEW name \in Name, NEW out
    PROVE  /\ Without(els, out) \in Seq(Name)
           /\ Without(Append(els, name), out) = KeptWith(Without(els, out), name, out)
<1> DEFINE C == Name
<1> HIDE DEF C
<1>1. \A els_1 \in Seq(C), x \in C : /\ Without(els_1, out) \in Seq(C \ out)
           /\ Without(Append(els_1, x), out) = KeptWith(Without(els_1, out), x, out)
  BY WithoutAppend
<1>2. Seq(C \ out) \subseteq Seq(C)
  OBVIOUS
<1> QED BY <1>1, <1>2 DEF C

\* What has been passed at the end of a text put together from names.
LEMMA PassedNames ==
    ASSUME NEW els \in Seq(Name), NEW name \in Name, NEW url, url = Slashed(Append(els, name))
    PROVE  /\ url \in Str /\ Len(url) \in Nat \ {0} /\ url[1] = Slash
           /\ \E g : /\ Passing(g, url)
                     /\ g[Len(url)].done = els /\ g[Len(url)].name = name
<1>1. url \in Str /\ At(url, 1) = Slash
  BY NamesGrow
<1>2. Len(url) \in Nat /\ 1 \in 1..Len(url) /\ url[1] = Slash
  BY <1>1, AtText DEF Slash, NUL
<1>3. PICK g : Passing(g, url)
  BY <1>1, Passes
<1> DEFINE d == g[Len(url)].done
           c == g[Len(url)].name
<1>4. Split(url, Slash) = Rooted(d, c) /\ Split(url, Slash) = Rooted(els, name)
  BY <1>1, <1>3, PassedParts, SlashedSplit
<1>5. d \in Seq(Name) /\ c \in Name
  <2>1. g[Len(url)] \in Passed
    BY <1>2, <1>3 DEF Passing
  <2> QED BY <2>1 DEF Passed
<1> HIDE DEF d, c
<1>6. \A l \in Seq(Name), x \in Name : /\ SubSeq(Rooted(l, x), 2, Len(Rooted(l, x)) - 1) = l
                                       /\ Rooted(l, x)[Len(Rooted(l, x))] = x
  BY RootedParts DEF Name
<1>7. d = els /\ c = name
  <2>1. Rooted(d, c) = Rooted(els, name)
    BY <1>4, Zenon
  <2>2. d = SubSeq(Rooted(d, c), 2, Len(Rooted(d, c)) - 1) /\ c = Rooted(d, c)[Len(Rooted(d, c))]
    BY <1>5, <1>6, Zenon
  <2>3. /\ els = SubSeq(Rooted(els, name), 2, Len(Rooted(els, name)) - 1)
        /\ name = Rooted(els, name)[Len(Rooted(els, name))]
    BY <1>6, Zenon
  <2> QED BY <2>1, <2>2, <2>3, Zenon
<1> QED BY <1>1, <1>2, <1>3, <1>7 DEF d, c

\* The first pass: a name that has not begun is left out when a slash follows.
SlashReads(to, v, url, i) ==
    LET left == Without(v.done, {<<>>})
    IN  to = IF v.name = <<>> /\ At(url, i + 1) = Slash THEN Slashed(left)
             ELSE Slashed(Append(left, v.name))

\* A step of the first pass keeps it.
LEMMA SlashReadsOn ==
    ASSUME NEW url \in Str, NEW i \in 1..Len(url), i > 1, NEW to \in Str, NEW v \in Passed,
           SlashReads(to, v, url, i - 1)
    PROVE  SlashReads(SlashStep(to, url, i), PassStep(v, url[i], i), url, i)
<1> DEFINE ch == url[i]
           d == v.done
           c == v.name
           out == {<<>>}
           w == Without(d, out)
           w2 == Without(Append(d, c), out)
           more == Append(c, ch)
<1>1. ch \in Char /\ At(url, i) = ch /\ (i - 1) + 1 = i /\ i # 1
  BY AtText
<1>2. d \in Seq(Name) /\ c \in Name /\ <<>> \in Name
  BY NameText DEF Passed
<1>3. to = IF c = <<>> /\ ch = Slash THEN Slashed(w) ELSE Slashed(Append(w, c))
  BY <1>1, Zenon DEF SlashReads
<1>4. w \in Seq(Name) /\ w2 = KeptWith(w, c, out)
  BY <1>2, NamesKept, Zenon
<1>5. PassStep(v, ch, i) = IF ch = Slash THEN [done |-> Append(d, c), name |-> <<>>]
                           ELSE [done |-> d, name |-> more]
  BY <1>1 DEF PassStep
<1> HIDE DEF d, c, w, w2, more
<1>6. CASE ch = Slash
  <2>1. PassStep(v, ch, i).done = Append(d, c) /\ PassStep(v, ch, i).name = <<>>
    BY <1>5, <1>6
  <2>2. to = Slashed(w2) /\ w2 \in Seq(Name)
    <3>1. CASE c = <<>>
      BY <1>3, <1>4, <1>6, <3>1, Zenon DEF KeptWith, out
    <3>2. CASE c # <<>>
      <4>1. w2 = Append(w, c)
        BY <1>4, <3>2 DEF KeptWith, out
      <4>2. w2 \in Seq(Name)
        <5>1. w \in Seq(Name) /\ c \in Name
          BY <1>2, <1>4
        <5>2. Append(w, c) \in Seq(Name)
          BY <5>1, AppendProperties
        <5> QED BY <4>1, <5>2, Zenon
      <4> QED BY <1>3, <1>6, <3>2, <4>1, <4>2, Zenon
    <3> QED BY <3>1, <3>2
  <2>3. Slashed(Append(w2, <<>>)) = Append(to, ch)
    BY <1>2, <1>6, <2>2, NamesGrow
  <2>4. SlashStep(to, url, i) = IF At(url, i + 1) = Slash THEN to ELSE Append(to, ch)
    BY <1>6, Zenon DEF SlashStep
  <2> QED BY <2>1, <2>2, <2>3, <2>4, Zenon DEF SlashReads, w2, out
<1>7. CASE ch # Slash
  <2>1. PassStep(v, ch, i).done = d /\ PassStep(v, ch, i).name = more
    BY <1>5, <1>7
  <2>2. more # <<>>
    BY <1>1, <1>2, AppendProperties DEF more, Name
  <2>3. Slashed(Append(w, more)) = Append(to, ch)
    BY <1>1, <1>2, <1>3, <1>4, <1>7, NamesGrow, Zenon DEF more
  <2>4. SlashStep(to, url, i) = Append(to, ch)
    BY <1>7, Zenon DEF SlashStep
  <2> QED BY <2>1, <2>2, <2>3, <2>4, Zenon DEF SlashReads, w, out
<1> QED BY <1>6, <1>7

\* The first pass leaves out the elements that are empty.
LEMMA OneSlashIs ==
    ASSUME NEW els \in Seq(Name), NEW name \in Name
    PROVE  OneSlash(Slashed(Append(els, name))) = Slashed(Append(Without(els, {<<>>}), name))
<1> DEFINE url == Slashed(Append(els, name))
           N == Len(url)
<1>1. /\ url \in Str /\ N \in Nat \ {0} /\ url[1] = Slash
      /\ \E g : Passing(g, url) /\ g[N].done = els /\ g[N].name = name
  BY PassedNames
<1> HIDE DEF url
<1>2. PICK g : Passing(g, url) /\ g[N].done = els /\ g[N].name = name
  BY <1>1
<1>3. PICK f : SlashRun(f, url) /\ OneSlash(url) = f[N]
  BY <1>1, SlashRuns
<1>4. /\ g \in [0..N -> Passed] /\ g[0] = Nothing
      /\ \A i \in 1..N : g[i] = PassStep(g[i - 1], url[i], i)
  BY <1>2, Zenon DEF Passing
<1>5. f \in [0..N -> Str] /\ f[0] = <<>> /\ \A i \in 1..N : f[i] = SlashStep(f[i - 1], url, i)
  BY <1>3, Zenon DEF SlashRun
<1> HIDE DEF N
<1> DEFINE T == {i \in 0..N : i > 0 => SlashReads(f[i], g[i], url, i)}
<1>6. 0 \in T
  BY <1>1
<1>7. ASSUME NEW i \in 0..N, i < N, i \in T PROVE i + 1 \in T
  <2>1. i + 1 \in 1..N /\ (i + 1) - 1 = i /\ i + 1 \in 0..N /\ i \in Nat
    BY <1>1, <1>7
  <2>2. f[i + 1] = SlashStep(f[i], url, i + 1) /\ g[i + 1] = PassStep(g[i], url[i + 1], i + 1)
    BY <1>4, <1>5, <2>1
  <2> SUFFICES SlashReads(f[i + 1], g[i + 1], url, i + 1)
    BY <2>1
  <2>3. CASE i = 0
    <3> DEFINE one == i + 1
    <3>1. g[one] = Nothing /\ f[one] = SlashStep(<<>>, url, one) /\ url[one] = Slash
      BY <1>1, <1>4, <1>5, <2>2, <2>3 DEF PassStep
    <3> HIDE DEF one
    <3>2. /\ Without(<<>>, {<<>>}) = <<>> /\ Slashed(<<>>) = <<>>
          /\ <<>> \in Seq(Name) /\ <<>> \in Name
      BY WithoutEmpty, SlashedEmpty, NameText, EmptySeq, Zenon
    <3>3. Slashed(Append(<<>>, <<>>)) = Append(<<>>, Slash)
      BY <3>2, NamesGrow, Zenon
    <3>4. g[one].done = <<>> /\ g[one].name = <<>>
      BY <3>1 DEF Nothing
    <3>5. f[one] = IF At(url, one + 1) = Slash THEN <<>> ELSE Append(<<>>, Slash)
      BY <3>1, Zenon DEF SlashStep
    <3>6. SlashReads(f[one], g[one], url, one)
      BY <3>2, <3>3, <3>4, <3>5, Zenon DEF SlashReads
    <3> QED BY <3>6 DEF one
  <2>4. CASE i # 0
    <3>1. SlashReads(f[i], g[i], url, i)
      BY <1>7, <2>1, <2>4
    <3>2. i + 1 > 1 /\ f[i] \in Str /\ g[i] \in Passed
      BY <1>4, <1>5, <2>1, <2>4
    <3>3. SlashReads(SlashStep(f[i], url, i + 1), PassStep(g[i], url[i + 1], i + 1), url, i + 1)
      BY <1>1, <2>1, <3>1, <3>2, SlashReadsOn DEF N
    <3> QED BY <2>2, <3>3
  <2> QED BY <2>3, <2>4
<1>8. N \in T
  <2> HIDE DEF T
  <2>1. 0..N \subseteq T
    BY <1>1, <1>6, <1>7, SetInduction
  <2> QED BY <1>1, <2>1
<1>9. SlashReads(f[N], g[N], url, N)
  BY <1>1, <1>8
<1>10. At(url, N + 1) # Slash
  <2>1. DOMAIN url = 1..N /\ N + 1 \notin 1..N
    BY <1>1 DEF N, Str
  <2> QED BY <2>1 DEF At, Slash, NUL
<1> QED BY <1>2, <1>3, <1>9, <1>10, Zenon DEF SlashReads, url

\* Names of one dot and of two, read character by character.
LEMMA DotsRead ==
    ASSUME NEW c \in Str, NEW ch \in Char
    PROVE  /\ Append(c, ch) = <<Dot>> <=> c = <<>> /\ ch = Dot
           /\ Append(c, ch) = <<Dot, Dot>> <=> c = <<Dot>> /\ ch = Dot
           /\ Append(c, ch) # <<>>
           /\ <<Dot>> # <<>> /\ <<Dot, Dot>> # <<>> /\ <<Dot, Dot>> # <<Dot>>
<1>1. Dot \in Char /\ <<>> \in Str /\ <<Dot>> \in Str
  BY EmptySeq DEF Dot, Char, Str
<1>2. Append(<<>>, Dot) = <<Dot>> /\ Append(<<Dot>>, Dot) = <<Dot, Dot>>
  <2>1. ASSUME NEW d \in Char PROVE Append(<<>>, d) = <<d>> /\ Append(<<d>>, d) = <<d, d>>
    <3> DEFINE u == Append(<<>>, d)
               w == Append(<<d>>, d)
    <3>1. u \in Seq(Char) /\ Len(u) = 1 /\ u[1] = d
      BY EmptySeq, AppendProperties
    <3>2. w \in Seq(Char) /\ Len(w) = 2 /\ w[1] = d /\ w[2] = d
      BY AppendProperties
    <3>3. <<d>> \in Seq(Char) /\ <<d, d>> \in Seq(Char)
      OBVIOUS
    <3> HIDE DEF u, w
    <3>4. u = <<d>>
      BY <3>1, <3>3, SeqEqual
    <3>5. w = <<d, d>>
      BY <3>2, <3>3, SeqEqual
    <3> QED BY <3>4, <3>5 DEF u, w
  <2> QED BY <1>1, <2>1, Zenon
<1>3. \A t \in Str, x \in Char : Append(c, ch) = Append(t, x) => c = t /\ ch = x
  BY LastOf DEF Str
<1>4. Append(c, ch) = <<Dot>> <=> c = <<>> /\ ch = Dot
  BY <1>1, <1>2, <1>3, Zenon
<1>5. Append(c, ch) = <<Dot, Dot>> <=> c = <<Dot>> /\ ch = Dot
  BY <1>1, <1>2, <1>3, Zenon
<1>6. Append(c, ch) # <<>>
  BY AppendProperties DEF Str
<1>7. Len(<<Dot>>) = 1 /\ Len(<<Dot, Dot>>) = 2 /\ Len(<<>>) = 0
  OBVIOUS
<1>8. <<Dot>> # <<>> /\ <<Dot, Dot>> # <<>> /\ <<Dot, Dot>> # <<Dot>>
  BY <1>7
<1> QED BY <1>4, <1>5, <1>6, <1>8

\* A name that is a dot, or will be one, before a slash.
DotAhead(c, url, i) ==
    \/ c = <<>> /\ At(url, i + 1) = Dot /\ At(url, i + 2) = Slash
    \/ c = <<Dot>> /\ At(url, i + 1) = Slash

\* The second pass.
DotReads(st, v, url, i) ==
    LET left  == Without(v.done, {<<Dot>>})
        ahead == DotAhead(v.name, url, i)
    IN  /\ st.to = IF ahead THEN Slashed(left) ELSE Slashed(Append(left, v.name))
        /\ st.skip = IF ahead /\ v.name = <<>> THEN 1 ELSE 0

\* A step of the second pass keeps it.
LEMMA DotReadsOn ==
    ASSUME NEW url \in Str, NEW i \in 1..Len(url), i > 1, NEW st \in DotState, NEW v \in Passed,
           DotReads(st, v, url, i - 1)
    PROVE  DotReads(DotStep(st, url, i), PassStep(v, url[i], i), url, i)
<1> DEFINE ch == url[i]
           d == v.done
           c == v.name
           to == st.to
           out == {<<Dot>>}
           w == Without(d, out)
           w2 == Without(Append(d, c), out)
           more == Append(c, ch)
           next == DotStep(st, url, i)
           pass == PassStep(v, ch, i)
<1>1. /\ ch \in Char /\ At(url, i) = ch /\ (i - 1) + 1 = i /\ i # 1 /\ (i - 1) + 2 = i + 1
      /\ Slash \in Char /\ Slash # Dot
  BY AtText DEF Slash, Char, Dot
<1>2. d \in Seq(Name) /\ c \in Name /\ <<>> \in Name /\ c \in Str
  BY NameText DEF Passed
<1>3. DotAhead(c, url, i - 1) <=> \/ c = <<>> /\ ch = Dot /\ At(url, i + 1) = Slash
                                  \/ c = <<Dot>> /\ ch = Slash
  BY <1>1, Zenon DEF DotAhead
<1>4. /\ to = IF DotAhead(c, url, i - 1) THEN Slashed(w) ELSE Slashed(Append(w, c))
      /\ st.skip = IF DotAhead(c, url, i - 1) /\ c = <<>> THEN 1 ELSE 0
  BY Zenon DEF DotReads
<1>5. w \in Seq(Name) /\ w2 = KeptWith(w, c, out)
  BY <1>2, NamesKept, Zenon
<1>6. pass = IF ch = Slash THEN [done |-> Append(d, c), name |-> <<>>]
             ELSE [done |-> d, name |-> more]
  BY <1>1 DEF PassStep
<1>7. /\ st.skip > 0 => next = [st EXCEPT !.skip = @ - 1]
      /\ ~(st.skip > 0) /\ IsDot(url, i) => next = [st EXCEPT !.skip = 1]
      /\ ~(st.skip > 0) /\ ~IsDot(url, i) => next = [st EXCEPT !.to = Append(to, ch)]
  BY Zenon DEF DotStep
<1>8. IsDot(url, i) <=> ch = Slash /\ At(url, i + 1) = Dot /\ At(url, i + 2) = Slash
  BY DEF IsDot
<1>9. st = [to |-> to, skip |-> st.skip]
  BY DEF DotState
<1>10. /\ more = <<Dot>> <=> c = <<>> /\ ch = Dot
       /\ more # <<>> /\ <<Dot>> # <<>>
  BY <1>1, <1>2, DotsRead
<1> HIDE DEF d, c, w, w2, more, to, next, pass, ch
<1>11. CASE ch = Slash
  <2>1. pass.done = Append(d, c) /\ pass.name = <<>>
    BY <1>6, <1>11
  <2>2. st.skip = 0
    BY <1>1, <1>3, <1>4, <1>10, <1>11
  <2>3. to = Slashed(w2) /\ w2 \in Seq(Name)
    <3>1. CASE c = <<Dot>>
      <4>1. w2 = w
        BY <1>5, <3>1, Zenon DEF KeptWith, out
      <4> QED BY <1>3, <1>4, <1>5, <1>11, <3>1, <4>1, Zenon
    <3>2. CASE c # <<Dot>>
      <4>1. w2 = Append(w, c)
        BY <1>5, <3>2 DEF KeptWith, out
      <4>2. w2 \in Seq(Name)
        <5>1. w \in Seq(Name) /\ c \in Name
          BY <1>2, <1>5
        <5>2. Append(w, c) \in Seq(Name)
          BY <5>1, AppendProperties
        <5> QED BY <4>1, <5>2, Zenon
      <4>3. ~DotAhead(c, url, i - 1)
        BY <1>1, <1>3, <1>11, <3>2
      <4> QED BY <1>4, <4>1, <4>2, <4>3, Zenon
    <3> QED BY <3>1, <3>2
  <2>4. Slashed(Append(w2, <<>>)) = Append(to, ch)
    BY <1>2, <1>11, <2>3, NamesGrow, Zenon
  <2>5. DotAhead(<<>>, url, i) <=> IsDot(url, i)
    BY <1>8, <1>10, <1>11, Zenon DEF DotAhead
  <2>6. CASE IsDot(url, i)
    <3>1. next.to = to /\ next.skip = 1
      <4>1. next = [st EXCEPT !.skip = 1]
        BY <1>7, <2>2, <2>6
      <4> QED BY <1>9, <4>1
    <3> QED BY <2>1, <2>3, <2>5, <2>6, <3>1, Zenon DEF DotReads, w2, out, next, pass, ch
  <2>7. CASE ~IsDot(url, i)
    <3>1. next.to = Append(to, ch) /\ next.skip = 0
      <4>1. next = [st EXCEPT !.to = Append(to, ch)]
        BY <1>7, <2>2, <2>7
      <4> QED BY <1>9, <2>2, <4>1
    <3> QED BY <2>1, <2>4, <2>5, <2>7, <3>1, Zenon DEF DotReads, w2, out, next, pass, ch
  <2> QED BY <2>6, <2>7
<1>12. CASE ch # Slash
  <2>1. pass.done = d /\ pass.name = more
    BY <1>6, <1>12
  <2>2. ~IsDot(url, i)
    BY <1>8, <1>12
  <2>3. DotAhead(more, url, i) <=> c = <<>> /\ ch = Dot /\ At(url, i + 1) = Slash
    BY <1>10, Zenon DEF DotAhead
  <2>4. DotAhead(more, url, i) <=> DotAhead(c, url, i - 1)
    BY <1>3, <1>12, <2>3, Zenon
  <2>5. Slashed(Append(w, more)) = Append(Slashed(Append(w, c)), ch)
    BY <1>1, <1>2, <1>5, NamesGrow, Zenon DEF more
  <2>6. CASE DotAhead(c, url, i - 1)
    <3>1. c = <<>>
      BY <1>3, <1>12, <2>6
    <3>2. next.to = to /\ next.skip = 0
      <4>1. st.skip = 1
        BY <1>4, <2>6, <3>1
      <4>2. next = [st EXCEPT !.skip = @ - 1]
        BY <1>7, <4>1
      <4> QED BY <1>9, <4>1, <4>2
    <3>3. to = Slashed(w)
      BY <1>4, <2>6
    <3> QED BY <1>10, <2>1, <2>4, <2>6, <3>2, <3>3, Zenon DEF DotReads, w, out, next, pass, ch
  <2>7. CASE ~DotAhead(c, url, i - 1)
    <3>1. next.to = Append(to, ch) /\ next.skip = 0
      <4>1. st.skip = 0
        BY <1>4, <2>7
      <4>2. next = [st EXCEPT !.to = Append(to, ch)]
        BY <1>7, <2>2, <4>1
      <4> QED BY <1>9, <4>1, <4>2
    <3>2. to = Slashed(Append(w, c))
      BY <1>4, <2>7
    <3> QED BY <2>1, <2>4, <2>5, <2>7, <3>1, <3>2, Zenon DEF DotReads, w, out, next, pass, ch
  <2> QED BY <2>6, <2>7
<1> QED BY <1>11, <1>12

\* The second pass leaves out the elements that are a dot.
LEMMA NoDotsIs ==
    ASSUME NEW els \in Seq(Name), NEW name \in Name
    PROVE  NoDots(Slashed(Append(els, name))) = Slashed(Append(Without(els, {<<Dot>>}), name))
<1> DEFINE url == Slashed(Append(els, name))
           N == Len(url)
<1>1. /\ url \in Str /\ N \in Nat \ {0} /\ url[1] = Slash
      /\ \E g : Passing(g, url) /\ g[N].done = els /\ g[N].name = name
  BY PassedNames
<1> HIDE DEF url
<1>2. PICK g : Passing(g, url) /\ g[N].done = els /\ g[N].name = name
  BY <1>1
<1>3. PICK f : DotRun(f, url) /\ NoDots(url) = f[N].to
  BY <1>1, DotRuns
<1>4. /\ g \in [0..N -> Passed] /\ g[0] = Nothing
      /\ \A i \in 1..N : g[i] = PassStep(g[i - 1], url[i], i)
  BY <1>2, Zenon DEF Passing
<1>5. /\ f \in [0..N -> DotState] /\ f[0] = [to |-> <<>>, skip |-> 0]
      /\ \A i \in 1..N : f[i] = DotStep(f[i - 1], url, i)
  BY <1>3, Zenon DEF DotRun
<1> HIDE DEF N
<1> DEFINE T == {i \in 0..N : i > 0 => DotReads(f[i], g[i], url, i)}
<1>6. 0 \in T
  BY <1>1
<1>7. ASSUME NEW i \in 0..N, i < N, i \in T PROVE i + 1 \in T
  <2>1. i + 1 \in 1..N /\ (i + 1) - 1 = i /\ i + 1 \in 0..N /\ i \in Nat
    BY <1>1, <1>7
  <2>2. f[i + 1] = DotStep(f[i], url, i + 1) /\ g[i + 1] = PassStep(g[i], url[i + 1], i + 1)
    BY <1>4, <1>5, <2>1
  <2> SUFFICES DotReads(f[i + 1], g[i + 1], url, i + 1)
    BY <2>1
  <2>3. CASE i = 0
    <3> DEFINE one == i + 1
               st == [to |-> <<>>, skip |-> 0]
    <3>1. g[one] = Nothing /\ f[one] = DotStep(st, url, one) /\ url[one] = Slash
      BY <1>1, <1>4, <1>5, <2>2, <2>3 DEF PassStep
    <3> HIDE DEF one
    <3>2. /\ Without(<<>>, {<<Dot>>}) = <<>> /\ Slashed(<<>>) = <<>>
          /\ <<>> \in Seq(Name) /\ <<>> \in Name
      BY WithoutEmpty, SlashedEmpty, NameText, EmptySeq, Zenon
    <3>3. Slashed(Append(<<>>, <<>>)) = Append(<<>>, Slash)
      BY <3>2, NamesGrow, Zenon
    <3>4. g[one].done = <<>> /\ g[one].name = <<>>
      BY <3>1 DEF Nothing
    <3>5. f[one] = IF IsDot(url, one) THEN [to |-> <<>>, skip |-> 1]
                   ELSE [to |-> Append(<<>>, Slash), skip |-> 0]
      BY <3>1 DEF DotStep
    <3>6. DotAhead(<<>>, url, one) <=> IsDot(url, one)
      <4>1. <<Dot>> # <<>>
        OBVIOUS
      <4> QED BY <3>1, <4>1 DEF DotAhead, IsDot
    <3>7. CASE IsDot(url, one)
      <4>1. f[one].to = <<>> /\ f[one].skip = 1
        BY <3>5, <3>7
      <4> QED BY <3>2, <3>3, <3>4, <3>6, <3>7, <4>1, Zenon DEF DotReads, one
    <3>8. CASE ~IsDot(url, one)
      <4>1. f[one].to = Append(<<>>, Slash) /\ f[one].skip = 0
        BY <3>5, <3>8
      <4> QED BY <3>2, <3>3, <3>4, <3>6, <3>8, <4>1, Zenon DEF DotReads, one
    <3> QED BY <3>7, <3>8
  <2>4. CASE i # 0
    <3>1. DotReads(f[i], g[i], url, i)
      BY <1>7, <2>1, <2>4
    <3>2. i + 1 > 1 /\ f[i] \in DotState /\ g[i] \in Passed
      BY <1>4, <1>5, <2>1, <2>4
    <3>3. DotReads(DotStep(f[i], url, i + 1), PassStep(g[i], url[i + 1], i + 1), url, i + 1)
      BY <1>1, <2>1, <3>1, <3>2, DotReadsOn DEF N
    <3> QED BY <2>2, <3>3
  <2> QED BY <2>3, <2>4
<1>8. N \in T
  <2> HIDE DEF T
  <2>1. 0..N \subseteq T
    BY <1>1, <1>6, <1>7, SetInduction
  <2> QED BY <1>1, <2>1
<1>9. DotReads(f[N], g[N], url, N)
  BY <1>1, <1>8
<1>10. At(url, N + 1) = NUL /\ Slash # NUL /\ Dot # NUL
  <2>1. DOMAIN url = 1..N /\ N + 1 \notin 1..N
    BY <1>1 DEF N, Str
  <2> QED BY <2>1 DEF At, Slash, NUL, Dot
<1>11. ~DotAhead(g[N].name, url, N)
  BY <1>10 DEF DotAhead
<1> QED BY <1>2, <1>3, <1>9, <1>11, Zenon DEF DotReads, url

(***************************************************************************)
(* Two climbs in a row.                                                    *)
(***************************************************************************)
Climb == <<Dot, Dot>>
Twice(els) == Holds(els, <<Climb, Climb>>)

\* Where they stand.
LEMMA TwiceAt ==
    ASSUME NEW els \in Seq(Name)
    PROVE  Twice(els) <=> \E i \in 1..Len(els) - 1 : els[i] = Climb /\ els[i + 1] = Climb
<1> DEFINE t == <<Climb, Climb>>
           n == Len(els)
<1>1. Len(t) = 2 /\ n \in Nat /\ t[1] = Climb /\ t[2] = Climb /\ t \in Seq({Climb})
  OBVIOUS
<1> HIDE DEF t
<1>2. ASSUME NEW i \in 0..n - 2
      PROVE  SubSeq(els, i + 1, i + 2) = t <=> els[i + 1] = Climb /\ els[i + 2] = Climb
  <2> DEFINE u == SubSeq(els, i + 1, i + 2)
  <2>1. \A k \in i + 1..i + 2 : els[k] \in Name
    BY <1>1
  <2>2. /\ u \in Seq(Name) /\ Len(u) = 2
        /\ \A k \in 1..(i + 2) - (i + 1) + 1 : u[k] = els[(i + 1) + k - 1]
    <3>1. i + 1 \in Int /\ i + 2 \in Int /\ i + 1 <= i + 2 /\ (i + 2) - (i + 1) + 1 = 2
      BY <1>1
    <3> QED BY <2>1, <3>1, SubSeqProperties
  <2> HIDE DEF u
  <2>3. u[1] = els[i + 1] /\ u[2] = els[i + 2]
    BY <1>1, <2>2
  <2>4. ASSUME u[1] = t[1], u[2] = t[2] PROVE u = t
    <3>1. \A k \in 1..Len(u) : u[k] = t[k]
      BY <2>2, <2>4
    <3> QED BY <1>1, <2>2, <3>1, SeqEqual
  <2> QED BY <1>1, <2>3, <2>4 DEF u
<1>3. Twice(els) <=> \E i \in 0..n - 2 : SubSeq(els, i + 1, i + 2) = t
  BY <1>1 DEF Twice, Holds, t
<1>4. Twice(els) <=> \E i \in 0..n - 2 : els[i + 1] = Climb /\ els[i + 2] = Climb
  BY <1>2, <1>3
<1>5. ASSUME NEW i \in 0..n - 2, els[i + 1] = Climb, els[i + 2] = Climb
      PROVE  \E k \in 1..n - 1 : els[k] = Climb /\ els[k + 1] = Climb
  <2>1. i + 1 \in 1..n - 1 /\ (i + 1) + 1 = i + 2
    BY <1>1
  <2> QED BY <1>5, <2>1
<1>6. ASSUME NEW k \in 1..n - 1, els[k] = Climb, els[k + 1] = Climb
      PROVE  \E i \in 0..n - 2 : els[i + 1] = Climb /\ els[i + 2] = Climb
  <2>1. k - 1 \in 0..n - 2 /\ (k - 1) + 1 = k /\ (k - 1) + 2 = k + 1
    BY <1>1
  <2> QED BY <1>6, <2>1
<1> QED BY <1>4, <1>5, <1>6

\* An element more.
LEMMA TwiceGrows ==
    ASSUME NEW els \in Seq(Name), NEW e \in Name
    PROVE  /\ Twice(els) => Twice(Append(els, e))
           /\ Twice(Append(els, e)) => Twice(els) \/ e = Climb
           /\ e = Climb => Twice(Append(Append(els, e), Climb))
<1> DEFINE n == Len(els)
           more == Append(els, e)
           last == Append(more, Climb)
<1>1. n \in Nat /\ more \in Seq(Name) /\ Len(more) = n + 1 /\ more[n + 1] = e
      /\ \A i \in 1..n : more[i] = els[i]
  BY AppendProperties
<1>2. Climb \in Name
  BY DEF Climb, Dot, Slash, Char, Name
<1>3. last \in Seq(Name) /\ Len(last) = n + 2 /\ last[n + 2] = Climb
      /\ \A i \in 1..n + 1 : last[i] = more[i]
  <2> HIDE DEF more
  <2> QED BY <1>1, <1>2, AppendProperties
<1> HIDE DEF more, last, n
<1>4. /\ Twice(els) <=> \E i \in 1..n - 1 : els[i] = Climb /\ els[i + 1] = Climb
      /\ Twice(more) <=> \E i \in 1..n : more[i] = Climb /\ more[i + 1] = Climb
      /\ Twice(last) <=> \E i \in 1..n + 1 : last[i] = Climb /\ last[i + 1] = Climb
  <2>1. Len(more) - 1 = n /\ Len(last) - 1 = n + 1
    BY <1>1, <1>3
  <2> QED BY <1>1, <1>3, <2>1, TwiceAt DEF n
<1>5. Twice(els) => Twice(more)
  <2> SUFFICES ASSUME NEW i \in 1..n - 1, els[i] = Climb, els[i + 1] = Climb
               PROVE  more[i] = Climb /\ more[i + 1] = Climb /\ i \in 1..n
    BY <1>4
  <2>1. i \in 1..n /\ i + 1 \in 1..n
    BY <1>1
  <2> QED BY <1>1, <2>1
<1>6. Twice(more) => Twice(els) \/ e = Climb
  <2> SUFFICES ASSUME NEW i \in 1..n, more[i] = Climb, more[i + 1] = Climb, e # Climb
               PROVE  i \in 1..n - 1 /\ els[i] = Climb /\ els[i + 1] = Climb
    BY <1>4
  <2>1. i + 1 # n + 1
    BY <1>1
  <2>2. i \in 1..n - 1 /\ i + 1 \in 1..n
    BY <1>1, <2>1
  <2> QED BY <1>1, <2>2
<1>7. e = Climb => Twice(last)
  <2>1. n + 1 \in 1..n + 1 /\ (n + 1) + 1 = n + 2
    BY <1>1
  <2> QED BY <1>1, <1>3, <1>4, <2>1
<1> QED BY <1>5, <1>6, <1>7 DEF more, last

\* What one element does to those that have been walked.
LEMMA WalkIs ==
    ASSUME NEW w \in Seq(Name), NEW c \in Name
    PROVE  /\ c # Climb => Walk(w, c) = Append(w, c)
           /\ Walk(Append(w, c), Climb) = w
           /\ Walk(<<>>, Climb) = <<>>
           /\ Append(w, c) \in Seq(Name) /\ Walk(w, c) \in Seq(Name)
<1> DEFINE more == Append(w, c)
           n == Len(w)
<1>1. c # Climb => Walk(w, c) = Append(w, c)
  BY Zenon DEF Walk, Climb
<1>2. Walk(<<>>, Climb) = <<>>
  BY Zenon DEF Walk, Climb
<1>3. more \in Seq(Name) /\ more # <<>> /\ Len(more) = n + 1 /\ n \in Nat
  BY AppendProperties
<1>4. Walk(more, Climb) = SubSeq(more, 1, Len(more) - 1)
  <2> HIDE DEF more
  <2> QED BY <1>3, Zenon DEF Walk, Climb
<1>5. SubSeq(more, 1, n) = w
  <2>1. SubSeq(more, 1, n) = SubSeq(w, 1, n)
    BY <1>3, PrefixKept
  <2>2. SubSeq(w, 1, n) = w
    <3> DEFINE x == SubSeq(w, 1, n)
    <3>1. \A i \in 1..n : w[i] \in Name
      OBVIOUS
    <3>2. x \in Seq(Name) /\ Len(x) = n /\ \A i \in 1..n : x[i] = w[i]
      BY <1>3, <3>1, SubSeqProperties
    <3> HIDE DEF x
    <3> QED BY <3>2, SeqEqual DEF x
  <2> QED BY <2>1, <2>2
<1>6. Len(more) - 1 = n
  BY <1>3
<1>7. Walk(w, c) \in Seq(Name)
  BY WalkType
<1> QED BY <1>1, <1>2, <1>3, <1>4, <1>5, <1>6, <1>7, Zenon DEF more

\* A name that is two dots, or will be, before a slash.
ClimbAhead(c, url, i) ==
    \/ c = <<>> /\ At(url, i + 1) = Dot /\ At(url, i + 2) = Dot /\ At(url, i + 3) = Slash
    \/ c = <<Dot>> /\ At(url, i + 1) = Dot /\ At(url, i + 2) = Slash
    \/ c = Climb /\ At(url, i + 1) = Slash

\* The third pass.  It goes back as soon as a climb is ahead; the place it goes
\* back to is right unless the element before was a climb too.
ClimbReads(st, v, url, i) ==
    LET w     == Walked(v.done)
        ahead == ClimbAhead(v.name, url, i)
    IN  /\ ahead => /\ st.skip = 2 - Len(v.name)
                    /\ ~Twice(Append(v.done, Climb)) => st.to = Slashed(Walk(w, Climb))
        /\ ~ahead => /\ st.skip = 0
                     /\ ~Twice(v.done) => /\ st.to = Slashed(Append(w, v.name))
                                          /\ st.last = Len(Slashed(w))

\* A step of the third pass keeps it, unless it climbs twice in a row.
LEMMA ClimbReadsOn ==
    ASSUME NEW url \in Str, NEW i \in 1..Len(url), i > 1, NEW st \in ClimbState, NEW v \in Passed,
           ClimbReads(st, v, url, i - 1)
    PROVE  ClimbReads(ClimbStep(st, url, i), PassStep(v, url[i], i), url, i)
<1> DEFINE ch == url[i]
           d == v.done
           c == v.name
           to == st.to
           skip == st.skip
           last == st.last
           w == Walked(d)
           d2 == Append(d, c)
           w2 == Walked(d2)
           more == Append(c, ch)
           next == ClimbStep(st, url, i)
           pass == PassStep(v, ch, i)
           was == ClimbAhead(c, url, i - 1)
           climb == IsClimb(url, i)
<1>1. /\ ch \in Char /\ At(url, i) = ch /\ (i - 1) + 1 = i /\ i # 1
      /\ (i - 1) + 2 = i + 1 /\ (i - 1) + 3 = i + 2
      /\ Slash \in Char /\ Slash # Dot
  BY AtText DEF Slash, Char, Dot
<1>2. d \in Seq(Name) /\ c \in Name /\ <<>> \in Name /\ c \in Str /\ Climb \in Name
  BY NameText DEF Passed, Climb, Name, Dot, Slash, Char
<1>3. was <=> \/ c = <<>> /\ ch = Dot /\ At(url, i + 1) = Dot /\ At(url, i + 2) = Slash
              \/ c = <<Dot>> /\ ch = Dot /\ At(url, i + 1) = Slash
              \/ c = Climb /\ ch = Slash
  BY <1>1, Zenon DEF ClimbAhead
<1>4. /\ was => /\ skip = 2 - Len(c)
                /\ ~Twice(Append(d, Climb)) => to = Slashed(Walk(w, Climb))
      /\ ~was => /\ skip = 0
                 /\ ~Twice(d) => to = Slashed(Append(w, c)) /\ last = Len(Slashed(w))
  BY Zenon DEF ClimbReads
<1>5. w \in Seq(Name) /\ w2 = Walk(w, c) /\ d2 \in Seq(Name) /\ w2 \in Seq(Name)
  <2>1. w \in Seq(Name) /\ w2 = Walk(w, c)
    BY <1>2, WalkedAppend
  <2>2. d2 \in Seq(Name)
    BY <1>2, AppendProperties
  <2>3. Walk(w, c) \in Seq(Name)
    BY <1>2, <2>1, WalkIs
  <2> QED BY <2>1, <2>2, <2>3, Zenon
<1>6. pass = IF ch = Slash THEN [done |-> d2, name |-> <<>>] ELSE [done |-> d, name |-> more]
  BY <1>1 DEF PassStep
<1>7. /\ skip > 0 => next = [st EXCEPT !.skip = @ - 1]
      /\ ~(skip > 0) /\ climb => next = [to |-> SubSeq(to, 1, last), skip |-> 2, last |-> last]
      /\ ~(skip > 0) /\ ~climb => next = [to |-> Append(to, ch), skip |-> 0,
                                          last |-> IF ch = Slash THEN Len(to) ELSE last]
  BY Zenon DEF ClimbStep
<1>8. climb <=> ch = Slash /\ At(url, i + 1) = Dot /\ At(url, i + 2) = Dot /\ At(url, i + 3) = Slash
  BY DEF IsClimb
<1>9. st = [to |-> to, last |-> last, skip |-> skip] /\ skip \in 0..2
  BY DEF ClimbState
<1>10. /\ more = <<Dot>> <=> c = <<>> /\ ch = Dot
       /\ more = Climb <=> c = <<Dot>> /\ ch = Dot
       /\ more # <<>> /\ <<Dot>> # <<>> /\ Climb # <<>> /\ Climb # <<Dot>>
       /\ Len(<<>>) = 0 /\ Len(<<Dot>>) = 1 /\ Len(Climb) = 2
  BY <1>1, <1>2, DotsRead DEF Climb
<1>11. Len(more) = Len(c) + 1
  BY <1>1, <1>2, AppendProperties DEF Str
<1> HIDE DEF d, c, d2, w, w2, more, to, skip, last, next, pass, ch, was, climb
<1>12. CASE ch = Slash
  <2>1. pass.done = d2 /\ pass.name = <<>>
    BY <1>6, <1>12
  <2>2. skip = 0
    <3>1. was => c = Climb
      BY <1>1, <1>3, <1>12
    <3>2. was => Len(c) = 2
      BY <1>10, <3>1, Zenon
    <3>3. was => skip = 2 - Len(c)
      BY <1>4, Zenon
    <3>4. was => skip = 0
      BY <3>2, <3>3
    <3> QED BY <1>4, <3>4, Zenon
  <2>3. ClimbAhead(<<>>, url, i) <=> climb
    BY <1>8, <1>10, <1>12, Zenon DEF ClimbAhead
  <2>4. ~Twice(d2) => to = Slashed(w2)
    <3>1. CASE c = Climb
      <4>1. was
        BY <1>3, <1>12, <3>1
      <4>2. d2 = Append(d, Climb)
        BY <3>1 DEF d2
      <4> QED BY <1>4, <1>5, <3>1, <4>1, <4>2, Zenon
    <3>2. CASE c # Climb
      <4>1. ~was
        BY <1>1, <1>3, <1>12, <3>2
      <4>2. ~Twice(d2) => ~Twice(d)
        BY <1>2, TwiceGrows DEF d2
      <4>3. w2 = Append(w, c)
        BY <1>2, <1>5, <3>2, WalkIs, Zenon
      <4> QED BY <1>4, <4>1, <4>2, <4>3, Zenon
    <3> QED BY <3>1, <3>2
  <2>5. CASE climb
    <3>1. next.to = SubSeq(to, 1, last) /\ next.skip = 2
      <4>1. next = [to |-> SubSeq(to, 1, last), skip |-> 2, last |-> last]
        BY <1>7, <2>2, <2>5
      <4> QED BY <4>1
    <3>2. ~Twice(Append(d2, Climb)) => next.to = Slashed(Walk(w2, Climb))
      <4> SUFFICES ASSUME ~Twice(Append(d2, Climb)) PROVE next.to = Slashed(Walk(w2, Climb))
        OBVIOUS
      <4>1. c # Climb
        BY <1>2, TwiceGrows DEF d2
      <4>2. ~Twice(d2) /\ ~Twice(d)
        <5>1. Twice(d2) => Twice(Append(d2, Climb))
          BY <1>2, <1>5, TwiceGrows
        <5>2. Twice(d) => Twice(d2)
          BY <1>2, TwiceGrows DEF d2
        <5> QED BY <5>1, <5>2
      <4>3. ~was
        BY <1>1, <1>3, <1>12, <4>1
      <4>4. to = Slashed(Append(w, c)) /\ last = Len(Slashed(w))
        BY <1>4, <4>2, <4>3
      <4>5. w2 = Append(w, c) /\ Walk(Append(w, c), Climb) = w
        BY <1>2, <1>5, <4>1, WalkIs, Zenon
      <4>6. SubSeq(Slashed(Append(w, c)), 1, Len(Slashed(w))) = Slashed(w)
        BY <1>2, <1>5, NamesGrow
      <4> QED BY <3>1, <4>4, <4>5, <4>6, Zenon
    <3>3. next.skip = 2 - Len(<<>>)
      BY <1>10, <3>1
    <3> QED BY <2>1, <2>3, <2>5, <3>2, <3>3, Zenon DEF ClimbReads, w2, d2, next, pass, ch
  <2>6. CASE ~climb
    <3>1. next.to = Append(to, ch) /\ next.skip = 0 /\ next.last = Len(to)
      <4>1. next = [to |-> Append(to, ch), skip |-> 0, last |-> Len(to)]
        BY <1>7, <1>12, <2>2, <2>6
      <4> QED BY <4>1
    <3>2. Slashed(Append(w2, <<>>)) = Append(Slashed(w2), ch)
      BY <1>2, <1>5, <1>12, NamesGrow, Zenon
    <3>3. ~Twice(d2) => next.to = Slashed(Append(w2, <<>>)) /\ next.last = Len(Slashed(w2))
      BY <2>4, <3>1, <3>2, Zenon
    <3> QED BY <2>1, <2>3, <2>6, <3>1, <3>3, Zenon DEF ClimbReads, w2, d2, next, pass, ch
  <2> QED BY <2>5, <2>6
<1>13. CASE ch # Slash
  <2>1. pass.done = d /\ pass.name = more
    BY <1>6, <1>13
  <2>2. ~climb
    BY <1>8, <1>13
  <2>3. ClimbAhead(more, url, i) <=> was
    <3>1. ClimbAhead(more, url, i) <=>
              \/ c = <<>> /\ ch = Dot /\ At(url, i + 1) = Dot /\ At(url, i + 2) = Slash
              \/ c = <<Dot>> /\ ch = Dot /\ At(url, i + 1) = Slash
      BY <1>10, Zenon DEF ClimbAhead
    <3> QED BY <1>3, <1>13, <3>1, Zenon
  <2>4. CASE was
    <3>1. Len(c) \in {0, 1}
      BY <1>3, <1>10, <1>13, <2>4
    <3>2. skip > 0
      <4>1. skip = 2 - Len(c)
        BY <1>4, <2>4, Zenon
      <4>2. \A n \in {0, 1} : 2 - n > 0
        OBVIOUS
      <4> QED BY <3>1, <4>1, <4>2, Zenon
    <3>3. next.to = to /\ next.skip = skip - 1
      <4>1. next = [st EXCEPT !.skip = @ - 1]
        BY <1>7, <3>2, Zenon
      <4>2. st.skip = skip
        BY DEF skip
      <4> QED BY <1>9, <4>1, <4>2
    <3>4. next.skip = 2 - Len(more)
      BY <1>4, <1>11, <2>4, <3>1, <3>3
    <3>5. ~Twice(Append(d, Climb)) => next.to = Slashed(Walk(w, Climb))
      BY <1>4, <2>4, <3>3
    <3> QED BY <2>1, <2>3, <2>4, <3>4, <3>5, Zenon DEF ClimbReads, w, next, pass, ch
  <2>5. CASE ~was
    <3>1. next.to = Append(to, ch) /\ next.skip = 0 /\ next.last = last
      <4>1. next = [to |-> Append(to, ch), skip |-> 0, last |-> last]
        BY <1>4, <1>7, <1>13, <2>2, <2>5
      <4> QED BY <4>1
    <3>2. Slashed(Append(w, more)) = Append(Slashed(Append(w, c)), ch)
      BY <1>1, <1>2, <1>5, NamesGrow, Zenon DEF more
    <3>3. ~Twice(d) => next.to = Slashed(Append(w, more)) /\ next.last = Len(Slashed(w))
      BY <1>4, <2>5, <3>1, <3>2, Zenon
    <3> QED BY <2>1, <2>3, <2>5, <3>1, <3>3, Zenon DEF ClimbReads, w, next, pass, ch
  <2> QED BY <2>4, <2>5
<1> QED BY <1>12, <1>13

\* The third pass walks from element to element.
LEMMA NoClimbsIs ==
    ASSUME NEW els \in Seq(Name), NEW name \in Name, ~Twice(els)
    PROVE  NoClimbs(Slashed(Append(els, name))) = Slashed(Append(Walked(els), name))
<1> DEFINE url == Slashed(Append(els, name))
           N == Len(url)
           start == [to |-> <<>>, last |-> 0, skip |-> 0]
<1>1. /\ url \in Str /\ N \in Nat \ {0} /\ url[1] = Slash
      /\ \E g : Passing(g, url) /\ g[N].done = els /\ g[N].name = name
  BY PassedNames
<1> HIDE DEF url
<1>2. PICK g : Passing(g, url) /\ g[N].done = els /\ g[N].name = name
  BY <1>1
<1>3. PICK f : ClimbRun(f, url) /\ NoClimbs(url) = f[N].to
  BY <1>1, ClimbRuns
<1>4. /\ g \in [0..N -> Passed] /\ g[0] = Nothing
      /\ \A i \in 1..N : g[i] = PassStep(g[i - 1], url[i], i)
  BY <1>2, Zenon DEF Passing
<1>5. /\ f \in [0..N -> ClimbState] /\ f[0] = start
      /\ \A i \in 1..N : f[i] = ClimbStep(f[i - 1], url, i)
  BY <1>3, Zenon DEF ClimbRun
<1> HIDE DEF N
<1> DEFINE T == {i \in 0..N : i > 0 => ClimbReads(f[i], g[i], url, i)}
<1>6. 0 \in T
  BY <1>1
<1>7. ASSUME NEW i \in 0..N, i < N, i \in T PROVE i + 1 \in T
  <2>1. i + 1 \in 1..N /\ (i + 1) - 1 = i /\ i + 1 \in 0..N /\ i \in Nat
    BY <1>1, <1>7
  <2>2. f[i + 1] = ClimbStep(f[i], url, i + 1) /\ g[i + 1] = PassStep(g[i], url[i + 1], i + 1)
    BY <1>4, <1>5, <2>1
  <2> SUFFICES ClimbReads(f[i + 1], g[i + 1], url, i + 1)
    BY <2>1
  <2>3. CASE i = 0
    <3> DEFINE one == i + 1
    <3>1. g[one] = Nothing /\ f[one] = ClimbStep(start, url, one) /\ url[one] = Slash
      <4>1. f[i] = start /\ g[i] = Nothing /\ url[one] = Slash /\ one = 1
        BY <1>1, <1>4, <1>5, <2>3
      <4>2. PassStep(g[i], url[one], one) = g[i]
        BY <4>1, Zenon DEF PassStep
      <4> HIDE DEF start, one
      <4> QED BY <2>2, <4>1, <4>2, Zenon DEF one
    <3> HIDE DEF one
    <3>2. Walked(<<>>) = <<>> /\ Slashed(<<>>) = <<>> /\ <<>> \in Seq(Name) /\ <<>> \in Name
      BY WalkedEmpty, SlashedEmpty, NameText, EmptySeq, Zenon
    <3>3. Slashed(Append(<<>>, <<>>)) = Append(<<>>, Slash)
      BY <3>2, NamesGrow, Zenon
    <3>4. g[one].done = <<>> /\ g[one].name = <<>>
      BY <3>1 DEF Nothing
    <3>5. f[one] = IF IsClimb(url, one) THEN [to |-> SubSeq(<<>>, 1, 0), skip |-> 2, last |-> 0]
                   ELSE [to |-> Append(<<>>, Slash), skip |-> 0, last |-> Len(<<>>)]
      <4>1. start.to = <<>> /\ start.last = 0 /\ start.skip = 0
        OBVIOUS
      <4>2. ~(start.skip > 0)
        BY <4>1
      <4> HIDE DEF start
      <4> QED BY <3>1, <4>1, <4>2, Zenon DEF ClimbStep
    <3>6. ClimbAhead(<<>>, url, one) <=> IsClimb(url, one)
      <4>1. <<Dot>> # <<>> /\ Climb # <<>>
        BY DEF Climb
      <4> QED BY <3>1, <4>1 DEF ClimbAhead, IsClimb
    <3>7. Len(<<>>) = 0 /\ SubSeq(<<>>, 1, 0) = <<>>
      OBVIOUS
    <3>8. CASE IsClimb(url, one)
      <4>1. f[one].to = <<>> /\ f[one].skip = 2 - Len(<<>>)
        BY <3>5, <3>7, <3>8
      <4>2. Walk(<<>>, Climb) = <<>>
        BY <3>2, WalkIs, Zenon
      <4> QED BY <3>2, <3>4, <3>6, <3>8, <4>1, <4>2, Zenon DEF ClimbReads, one
    <3>9. CASE ~IsClimb(url, one)
      <4>1. f[one].to = Append(<<>>, Slash) /\ f[one].skip = 0 /\ f[one].last = Len(<<>>)
        BY <3>5, <3>9
      <4> QED BY <3>2, <3>3, <3>4, <3>6, <3>9, <4>1, Zenon DEF ClimbReads, one
    <3> QED BY <3>8, <3>9
  <2>4. CASE i # 0
    <3>1. ClimbReads(f[i], g[i], url, i)
      BY <1>7, <2>1, <2>4
    <3>2. i + 1 > 1 /\ f[i] \in ClimbState /\ g[i] \in Passed
      BY <1>4, <1>5, <2>1, <2>4
    <3>3. ClimbReads(ClimbStep(f[i], url, i + 1), PassStep(g[i], url[i + 1], i + 1), url, i + 1)
      BY <1>1, <2>1, <3>1, <3>2, ClimbReadsOn DEF N
    <3> QED BY <2>2, <3>3
  <2> QED BY <2>3, <2>4
<1>8. N \in T
  <2> HIDE DEF T
  <2>1. 0..N \subseteq T
    BY <1>1, <1>6, <1>7, SetInduction
  <2> QED BY <1>1, <2>1
<1>9. ClimbReads(f[N], g[N], url, N)
  BY <1>1, <1>8
<1>10. At(url, N + 1) = NUL /\ Slash # NUL /\ Dot # NUL
  <2>1. DOMAIN url = 1..N /\ N + 1 \notin 1..N
    BY <1>1 DEF N, Str
  <2> QED BY <2>1 DEF At, Slash, NUL, Dot
<1>11. ~ClimbAhead(g[N].name, url, N)
  BY <1>10 DEF ClimbAhead
<1> QED BY <1>2, <1>3, <1>9, <1>11, Zenon DEF ClimbReads, url

\* What the first two passes leave out, one after the other.
LEMMA WithoutBoth ==
    ASSUME NEW els \in Seq(Name)
    PROVE  Without(Without(els, {<<>>}), {<<Dot>>}) = Without(els, {<<>>, <<Dot>>})
<1> DEFINE a == {<<>>}
           b == {<<Dot>>}
           both == {<<>>, <<Dot>>}
           Same(l) == Without(Without(l, a), b) = Without(l, both)
           S == {l \in Seq(Name) : Same(l)}
<1>1. <<>> \in S
  <2>1. <<>> \in Seq(Name)
    BY EmptySeq
  <2>2. Same(<<>>)
    BY WithoutEmpty, Zenon
  <2> QED BY <2>1, <2>2
<1>2. ASSUME NEW l \in Seq(Name), NEW e \in Name, l \in S PROVE Append(l, e) \in S
  <2> DEFINE x == Without(l, a)
             more == Append(l, e)
  <2>1. more \in Seq(Name)
    BY AppendProperties
  <2>2. x \in Seq(Name) /\ Without(more, a) = KeptWith(x, e, a)
    BY NamesKept, Zenon
  <2>3. Without(more, both) = KeptWith(Without(l, both), e, both)
    BY NamesKept, Zenon
  <2>4. Without(x, b) = Without(l, both)
    BY <1>2
  <2>5. Without(Append(x, e), b) = KeptWith(Without(x, b), e, b)
    BY <2>2, NamesKept, Zenon
  <2> HIDE DEF x, more
  <2>6. CASE e = <<>>
    <3>1. e \in a /\ e \in both
      BY <2>6
    <3>2. Without(more, a) = x
      BY <2>2, <3>1, Zenon DEF KeptWith
    <3>3. Without(more, both) = Without(l, both)
      BY <2>3, <3>1, Zenon DEF KeptWith
    <3>4. Same(more)
      BY <2>4, <3>2, <3>3, Zenon
    <3> QED BY <2>1, <3>4, Zenon DEF more
  <2>7. CASE e # <<>>
    <3>1. Without(more, a) = Append(x, e)
      BY <2>2, <2>7, Zenon DEF KeptWith
    <3>2. KeptWith(Without(x, b), e, b) = KeptWith(Without(l, both), e, both)
      BY <2>4, <2>7, Zenon DEF KeptWith
    <3> QED BY <2>1, <2>3, <2>5, <3>1, <3>2, Zenon DEF more
  <2> QED BY <2>6, <2>7 DEF more
<1>3. Seq(Name) \subseteq S
  <2> HIDE DEF S
  <2> QED BY <1>1, <1>2, SeqInduction
<1> QED BY <1>3

\* What sanitiseUrl makes of a text put together from names.
LEMMA SanitiseIs ==
    ASSUME NEW els \in Seq(Name), NEW name \in Name, ~Twice(Without(els, {<<>>, <<Dot>>}))
    PROVE  sanitiseUrl(Slashed(Append(els, name)))
             = Slashed(Append(Walked(Without(els, {<<>>, <<Dot>>})), name))
<1> DEFINE one == Without(els, {<<>>})
           two == Without(one, {<<Dot>>})
<1>1. one \in Seq(Name) /\ OneSlash(Slashed(Append(els, name))) = Slashed(Append(one, name))
  BY NamesKept, OneSlashIs
<1>2. two = Without(els, {<<>>, <<Dot>>})
  BY WithoutBoth
<1> HIDE DEF one
<1>3. two \in Seq(Name) /\ NoDots(Slashed(Append(one, name))) = Slashed(Append(two, name))
  BY <1>1, NamesKept, NoDotsIs
<1>4. ~Twice(two)
  BY <1>2
<1> HIDE DEF two
<1>5. NoClimbs(Slashed(Append(two, name))) = Slashed(Append(Walked(two), name))
  BY <1>3, <1>4, NoClimbsIs
<1> QED BY <1>1, <1>2, <1>3, <1>5, Zenon DEF sanitiseUrl

\* Every text that begins with a slash is put together from names.
LEMMA NamesOf ==
    ASSUME NEW url \in Str, At(url, 1) = Slash
    PROVE  \E els \in Seq(Name), name \in Name :
              url = Slashed(Append(els, name)) /\ Split(url, Slash) = Rooted(els, name)
<1> DEFINE N == Len(url)
<1>1. N \in Nat \ {0} /\ url[1] = Slash /\ Slash \in Char /\ \A i \in 1..N : url[i] \in Char
  <2>1. 1 \in 1..N /\ url[1] = Slash /\ N \in Nat
    BY AtText DEF Slash, NUL
  <2> QED BY <2>1, AtText DEF Slash, Char
<1>2. PICK g : Passing(g, url)
  BY Passes
<1>3. Split(url, Slash) = Rooted(g[N].done, g[N].name)
  BY <1>2, PassedParts
<1>4. /\ g \in [0..N -> Passed] /\ g[0] = Nothing
      /\ \A i \in 1..N : g[i] = PassStep(g[i - 1], url[i], i)
  BY <1>2, Zenon DEF Passing
<1>5. \A i \in 0..N : g[i].done \in Seq(Name) /\ g[i].name \in Name
  <2> SUFFICES ASSUME NEW i \in 0..N PROVE g[i].done \in Seq(Name) /\ g[i].name \in Name
    OBVIOUS
  <2>1. g[i] \in Passed
    BY <1>4
  <2> QED BY <2>1 DEF Passed
<1> DEFINE head(i) == SubSeq(url, 1, i)
<1>6. ASSUME NEW i \in 0..N, i < N PROVE head(i + 1) = Append(head(i), url[i + 1])
  BY <1>6, PrefixGrows DEF Str
<1>7. head(0) = <<>> /\ head(N) = url
  <2>1. head(0) = <<>>
    BY <1>1
  <2>2. head(N) = url
    <3> DEFINE x == head(N)
    <3>1. x \in Seq(Char) /\ Len(x) = N /\ \A i \in 1..N : x[i] = url[i]
      <4>1. \A i \in 1..N : url[i] \in Char
        BY <1>1
      <4> QED BY <1>1, <4>1, SubSeqProperties
    <3> HIDE DEF x
    <3> QED BY <3>1, SeqEqual DEF Str, x
  <2> QED BY <2>1, <2>2
<1> HIDE DEF head, N
<1> DEFINE T == {i \in 0..N : i > 0 => head(i) = Slashed(Append(g[i].done, g[i].name))}
<1>8. 0 \in T
  BY <1>1
<1>9. ASSUME NEW i \in 0..N, i < N, i \in T PROVE i + 1 \in T
  <2> DEFINE n == i + 1
             ch == url[n]
             d == g[i].done
             c == g[i].name
  <2>1. n \in 1..N /\ n - 1 = i /\ n \in 0..N /\ i \in Nat
    BY <1>1, <1>9
  <2>2. g[n] = PassStep(g[i], ch, n) /\ ch \in Char
    BY <1>1, <1>4, <2>1
  <2>3. head(n) = Append(head(i), ch)
    BY <1>6, <1>9
  <2>4. d \in Seq(Name) /\ c \in Name
    BY <1>5
  <2> SUFFICES head(n) = Slashed(Append(g[n].done, g[n].name))
    BY <2>1
  <2>5. CASE i = 0
    <3>1. g[n] = Nothing
      BY <1>4, <2>2, <2>5 DEF PassStep
    <3>2. g[n].done = <<>> /\ g[n].name = <<>>
      BY <3>1 DEF Nothing
    <3>3. head(n) = Append(<<>>, Slash)
      <4>1. ch = Slash
        BY <1>1, <2>5
      <4>2. head(i) = <<>>
        BY <1>7, <2>5
      <4> QED BY <2>3, <4>1, <4>2, Zenon
    <3>4. Slashed(<<>>) = <<>> /\ <<>> \in Seq(Name) /\ <<>> \in Name
      BY SlashedEmpty, NameText, EmptySeq, Zenon
    <3>5. Slashed(Append(<<>>, <<>>)) = Append(<<>>, Slash)
      BY <3>4, NamesGrow, Zenon
    <3> HIDE DEF n
    <3> QED BY <3>2, <3>3, <3>5, Zenon
  <2>6. CASE i # 0
    <3>1. head(i) = Slashed(Append(d, c))
      BY <1>9, <2>1, <2>6
    <3>2. g[n] = IF ch = Slash THEN [done |-> Append(d, c), name |-> <<>>]
                 ELSE [done |-> d, name |-> Append(c, ch)]
      BY <2>1, <2>2, <2>6 DEF PassStep
    <3> HIDE DEF d, c, ch, n
    <3>3. CASE ch = Slash
      <4>1. g[n].done = Append(d, c) /\ g[n].name = <<>>
        BY <3>2, <3>3
      <4>2. Append(d, c) \in Seq(Name) /\ <<>> \in Name
        BY <2>4, NameText, AppendProperties
      <4>3. Slashed(Append(Append(d, c), <<>>)) = Append(Slashed(Append(d, c)), Slash)
        BY <4>2, NamesGrow, Zenon
      <4> QED BY <2>3, <3>1, <3>3, <4>1, <4>3, Zenon
    <3>4. CASE ch # Slash
      <4>1. g[n].done = d /\ g[n].name = Append(c, ch)
        BY <3>2, <3>4
      <4>2. Slashed(Append(d, Append(c, ch))) = Append(Slashed(Append(d, c)), ch)
        BY <2>2, <2>4, NamesGrow, Zenon
      <4> QED BY <2>3, <3>1, <4>1, <4>2, Zenon
    <3> QED BY <3>3, <3>4
  <2> QED BY <2>5, <2>6
<1>10. N \in T
  <2> HIDE DEF T
  <2>1. 0..N \subseteq T
    BY <1>1, <1>8, <1>9, SetInduction
  <2> QED BY <1>1, <2>1
<1>11. url = Slashed(Append(g[N].done, g[N].name))
  BY <1>1, <1>7, <1>10
<1>12. g[N].done \in Seq(Name) /\ g[N].name \in Name
  BY <1>1, <1>5
<1> QED BY <1>3, <1>11, <1>12 DEF N

\* The path resolved, from its elements and its name.
LEMMA ResolvedIs ==
    ASSUME NEW p, NEW els \in Seq(Name), NEW name \in Name, Split(p, Slash) = Rooted(els, name)
    PROVE  /\ Elements(p) = Without(els, {<<>>, <<Dot>>})
           /\ Resolved(p) = Slashed(Append(Walked(Elements(p)), name))
           /\ ClimbsTwice(p) <=> Twice(Elements(p))
<1> DEFINE parts == Rooted(els, name)
<1>1. SubSeq(parts, 2, Len(parts) - 1) = els /\ parts[Len(parts)] = name
  BY RootedParts DEF Name
<1>2. Split(p, Slash) = parts
  OBVIOUS
<1> HIDE DEF parts
<1>3. Elements(p) = Without(els, {<<>>, <<Dot>>})
  BY <1>1, <1>2, Zenon DEF Elements
<1>4. Resolved(p) = Slashed(Append(Walked(Elements(p)), name))
  BY <1>1, <1>2, Zenon DEF Resolved
<1>5. ClimbsTwice(p) <=> Twice(Elements(p))
  BY Zenon DEF ClimbsTwice, Twice, Climb
<1> QED BY <1>3, <1>4, <1>5

\* A whole text that begins with a slash and never climbs twice in a row.
LEMMA SanitiseResolves ==
    ASSUME NEW url \in Str, At(url, 1) = Slash, ~ClimbsTwice(url)
    PROVE  sanitiseUrl(url) = Resolved(url)
<1>1. PICK els \in Seq(Name), name \in Name :
          url = Slashed(Append(els, name)) /\ Split(url, Slash) = Rooted(els, name)
  BY NamesOf
<1>2. /\ Elements(url) = Without(els, {<<>>, <<Dot>>})
      /\ Resolved(url) = Slashed(Append(Walked(Elements(url)), name))
      /\ ~Twice(Elements(url))
  BY <1>1, ResolvedIs
<1>3. ~Twice(Without(els, {<<>>, <<Dot>>}))
  BY <1>2, Zenon
<1>4. sanitiseUrl(Slashed(Append(els, name)))
        = Slashed(Append(Walked(Without(els, {<<>>, <<Dot>>})), name))
  BY <1>3, SanitiseIs
<1> QED BY <1>1, <1>2, <1>4, Zenon

\* A text is held where its characters are found.
LEMMA HoldsIs ==
    ASSUME NEW s \in Str, NEW t \in Str
    PROVE  Holds(s, t) <=> \E i \in 0..Len(s) - Len(t) : \A k \in 1..Len(t) : s[i + k] = t[k]
<1> DEFINE m == Len(t)
           n == Len(s)
<1>1. n \in Nat /\ m \in Nat /\ \A k \in 1..n : s[k] \in Char
  BY AtText
<1>2. ASSUME NEW i \in 0..n - m
      PROVE  SubSeq(s, i + 1, i + m) = t <=> \A k \in 1..m : s[i + k] = t[k]
  <2> DEFINE u == SubSeq(s, i + 1, i + m)
  <2>1. \A k \in i + 1..i + m : s[k] \in Char
    BY <1>1
  <2>2. i + 1 \in Int /\ i + m \in Int /\ (i + m) - (i + 1) + 1 = m
    BY <1>1
  <2>3. u \in Str /\ Len(u) = m /\ \A k \in 1..m : u[k] = s[i + k]
    <3>1. u \in Seq(Char) /\ Len(u) = m /\ \A k \in 1..m : u[k] = s[(i + 1) + k - 1]
      <4>1. CASE i + 1 <= i + m
        BY <1>1, <2>1, <2>2, <4>1, SubSeqProperties
      <4>2. CASE ~(i + 1 <= i + m)
        BY <1>1, <2>1, <2>2, <4>2, SubSeqProperties
      <4> QED BY <4>1, <4>2
    <3>2. \A k \in 1..m : (i + 1) + k - 1 = i + k
      BY <1>1
    <3> QED BY <3>1, <3>2 DEF Str
  <2> HIDE DEF u
  <2>4. u = t <=> \A k \in 1..m : u[k] = t[k]
    BY <2>3, SeqEqual DEF Str
  <2> QED BY <2>3, <2>4 DEF u
<1> QED BY <1>2 DEF Holds

\* What a text holds a longer one holds too.
LEMMA HoldsOn ==
    ASSUME NEW s \in Str, NEW ch \in Char, NEW t \in Str, Holds(s, t)
    PROVE  Holds(Append(s, ch), t)
<1> DEFINE u == Append(s, ch)
           n == Len(s)
           m == Len(t)
<1>1. n \in Nat /\ m \in Nat /\ u \in Str /\ Len(u) = n + 1 /\ \A k \in 1..n : u[k] = s[k]
  BY AtAppend, AtText
<1>2. PICK i \in 0..n - m : \A k \in 1..m : s[i + k] = t[k]
  BY HoldsIs
<1> HIDE DEF u, n, m
<1>3. i \in 0..(n + 1) - m /\ \A k \in 1..m : i + k \in 1..n
  BY <1>1
<1>4. \A k \in 1..m : u[i + k] = t[k]
  BY <1>1, <1>2, <1>3
<1> QED BY <1>1, <1>3, <1>4, HoldsIs DEF u, m

\* In what is left of a query the name begun stands behind a slash, unless the
\* question mark is in it.
Tailed(q, c) == \/ Places(c, Question) # {}
                \/ /\ Len(q) - Len(c) \in 1..Len(q) /\ q[Len(q) - Len(c)] = Slash
                   /\ \A k \in 1..Len(c) : q[Len(q) - Len(c) + k] = c[k]

\* A character more of the query.
LEMMA TailedOn ==
    ASSUME NEW q \in Str, NEW c \in Name, Tailed(q, c), NEW ch \in Char
    PROVE  IF ch = Slash THEN Tailed(Append(q, ch), <<>>) ELSE Tailed(Append(q, ch), Append(c, ch))
<1> DEFINE u == Append(q, ch)
           v == Append(c, ch)
           n == Len(q)
           m == Len(c)
<1>1. c \in Str
  BY NameText
<1>2. /\ n \in Nat /\ m \in Nat /\ Len(u) = n + 1 /\ Len(v) = m + 1
      /\ u[n + 1] = ch /\ v[m + 1] = ch
      /\ \A k \in 1..n : u[k] = q[k]
      /\ \A k \in 1..m : v[k] = c[k]
  BY <1>1, AtAppend
<1>3. CASE ch = Slash
  <2>1. Len(<<>>) = 0
    OBVIOUS
  <2> HIDE DEF u
  <2>2. Len(u) - Len(<<>>) = n + 1 /\ n + 1 \in 1..n + 1 /\ \A k \in 1..Len(<<>>) : FALSE
    BY <1>2, <2>1
  <2>3. Tailed(u, <<>>)
    BY <1>2, <1>3, <2>2 DEF Tailed
  <2> QED BY <1>3, <2>3 DEF u
<1>4. CASE ch # Slash
  <2>1. CASE Places(c, Question) # {}
    <3>1. Places(v, Question) # {}
      BY <1>1, <2>1, UntilGrows
    <3> QED BY <1>4, <3>1 DEF Tailed
  <2>2. CASE /\ n - m \in 1..n /\ q[n - m] = Slash
             /\ \A k \in 1..m : q[n - m + k] = c[k]
    <3> HIDE DEF u, v, n, m
    <3>1. (n + 1) - (m + 1) = n - m /\ n - m \in 1..n + 1 /\ u[n - m] = Slash
      BY <1>2, <2>2
    <3>2. \A k \in 1..m + 1 : u[n - m + k] = v[k]
      <4> SUFFICES ASSUME NEW k \in 1..m + 1 PROVE u[n - m + k] = v[k]
        OBVIOUS
      <4>1. CASE k \in 1..m
        <5>1. n - m + k \in 1..n
          BY <1>2, <2>2, <4>1
        <5> QED BY <1>2, <2>2, <4>1, <5>1
      <4>2. CASE k = m + 1
        <5>1. n - m + k = n + 1
          BY <1>2, <2>2, <4>2
        <5> QED BY <1>2, <4>2, <5>1
      <4> QED BY <1>2, <4>1, <4>2
    <3>3. Len(u) - Len(v) = n - m
      BY <1>2, <3>1
    <3>4. Tailed(u, v)
      BY <1>2, <3>1, <3>2, <3>3 DEF Tailed
    <3> QED BY <1>4, <3>4 DEF u, v
  <2> QED BY <2>1, <2>2 DEF Tailed, n, m
<1> QED BY <1>3, <1>4

\* The sequences are texts.
LEMMA OddTexts == Odd \subseteq Str
<1>1. Slash \in Char /\ Dot \in Char
  BY DEF Slash, Dot, Char
<1> QED BY <1>1 DEF Odd, Str

\* A slash behind such a name makes none of the sequences: it is no empty one, no
\* dot and no climb.
LEMMA TailNotOdd ==
    ASSUME NEW q \in Str, NEW c \in Name, Tailed(q, c),
           \A s \in Odd : ~Holds(Append(q, Slash), s)
    PROVE  c \notin {<<>>, <<Dot>>, Climb}
<1> DEFINE u == Append(q, Slash)
           n == Len(q)
<1>1. Slash \in Char /\ Dot \in Char /\ Dot # Question /\ c \in Str
  BY NameText DEF Slash, Dot, Char, Question
<1>2. n \in Nat /\ u \in Str /\ Len(u) = n + 1 /\ u[n + 1] = Slash /\ \A k \in 1..n : u[k] = q[k]
  BY <1>1, AtAppend
<1> HIDE DEF u
<1>3. ASSUME c \in {<<>>, <<Dot>>, Climb} PROVE Places(c, Question) = {}
  BY <1>1, <1>3 DEF Places, Climb
<1>4. ASSUME c = <<>> PROVE FALSE
  <2> DEFINE s == <<Slash, Slash>>
  <2>1. n \in 1..n /\ q[n] = Slash
    BY <1>2, <1>3, <1>4 DEF Tailed
  <2>2. Len(s) = 2 /\ s[1] = Slash /\ s[2] = Slash /\ s \in Str /\ s \in Odd
    BY <1>1 DEF Odd, Str
  <2> HIDE DEF s
  <2>3. n - 1 \in 0..Len(u) - Len(s) /\ (n - 1) + 1 = n /\ (n - 1) + 2 = n + 1
    BY <1>2, <2>1, <2>2
  <2>4. \A k \in 1..Len(s) : u[(n - 1) + k] = s[k]
    BY <1>2, <2>1, <2>2, <2>3
  <2> QED BY <1>2, <2>2, <2>3, <2>4, HoldsIs DEF u
<1>5. ASSUME c = <<Dot>> PROVE FALSE
  <2> DEFINE s == <<Slash, Dot, Slash>>
  <2>1. Len(c) = 1 /\ c[1] = Dot
    BY <1>5
  <2>2. n - 1 \in 1..n /\ q[n - 1] = Slash /\ q[n - 1 + 1] = Dot
    BY <1>2, <1>3, <1>5, <2>1 DEF Tailed
  <2>3. Len(s) = 3 /\ s[1] = Slash /\ s[2] = Dot /\ s[3] = Slash /\ s \in Str /\ s \in Odd
    BY <1>1 DEF Odd, Str
  <2> HIDE DEF s
  <2>4. /\ n - 2 \in 0..Len(u) - Len(s)
        /\ (n - 2) + 1 = n - 1 /\ (n - 2) + 2 = n /\ (n - 2) + 3 = n + 1 /\ n - 1 + 1 = n
    BY <1>2, <2>2, <2>3
  <2>5. \A k \in 1..Len(s) : u[(n - 2) + k] = s[k]
    BY <1>2, <2>2, <2>3, <2>4
  <2> QED BY <1>2, <2>3, <2>4, <2>5, HoldsIs DEF u
<1>6. ASSUME c = Climb PROVE FALSE
  <2> DEFINE s == <<Slash, Dot, Dot, Slash>>
  <2>1. Len(c) = 2 /\ c[1] = Dot /\ c[2] = Dot
    BY <1>6 DEF Climb
  <2>2. n - 2 \in 1..n /\ q[n - 2] = Slash /\ q[n - 2 + 1] = Dot /\ q[n - 2 + 2] = Dot
    BY <1>2, <1>3, <1>6, <2>1 DEF Tailed
  <2>3. /\ Len(s) = 4 /\ s[1] = Slash /\ s[2] = Dot /\ s[3] = Dot /\ s[4] = Slash
        /\ s \in Str /\ s \in Odd
    BY <1>1 DEF Odd, Str
  <2> HIDE DEF s
  <2>4. /\ n - 3 \in 0..Len(u) - Len(s)
        /\ (n - 3) + 1 = n - 2 /\ (n - 3) + 2 = n - 1 /\ (n - 3) + 3 = n /\ (n - 3) + 4 = n + 1
        /\ n - 2 + 1 = n - 1 /\ n - 2 + 2 = n
    BY <1>2, <2>2, <2>3
  <2>5. \A k \in 1..Len(s) : u[(n - 3) + k] = s[k]
    BY <1>2, <2>2, <2>3, <2>4
  <2> QED BY <1>2, <2>3, <2>4, <2>5, HoldsIs DEF u
<1> QED BY <1>4, <1>5, <1>6

Both == {<<>>, <<Dot>>}

\* The query q behind the text u, of which r is left: the elements and the name
\* begun when all of it is read.
Carries(u, r, q, d, c) ==
    LET w == Without(d, Both)
    IN  /\ d \in Seq(Name) /\ c \in Name
        /\ u \o q = Slashed(Append(d, c))
        /\ ~Twice(w)
        /\ Slashed(Append(Walked(w), c)) = r \o q
        /\ Tailed(q, c)

\* Going from name to name.
LEMMA NamesWalked ==
    ASSUME NEW els \in Seq(Name), NEW name \in Name
    PROVE  /\ Walked(els) \in Seq(Name)
           /\ Walked(Append(els, name)) = Walk(Walked(els), name)
<1> DEFINE C == Name
<1>1. els \in Seq(C) /\ name \in C
  OBVIOUS
<1> HIDE DEF C
<1>2. Walked(els) \in Seq(C) /\ Walked(Append(els, name)) = Walk(Walked(els), name)
  BY <1>1, WalkedAppend
<1> QED BY <1>2 DEF C

\* A character more of the query, which completes none of the sequences.
LEMMA CarriesOn ==
    ASSUME NEW u \in Str, NEW r \in Str, NEW q \in Str, NEW ch \in Char, NEW d, NEW c,
           Carries(u, r, q, d, c), \A s \in Odd : ~Holds(Append(q, ch), s)
    PROVE  IF ch = Slash THEN Carries(u, r, Append(q, ch), Append(d, c), <<>>)
           ELSE Carries(u, r, Append(q, ch), d, Append(c, ch))
<1> DEFINE w == Without(d, Both)
           to == Walked(w)
           more == Append(q, ch)
<1>1. /\ d \in Seq(Name) /\ c \in Name
      /\ u \o q = Slashed(Append(d, c))
      /\ ~Twice(w)
      /\ Slashed(Append(to, c)) = r \o q
      /\ Tailed(q, c)
  BY DEF Carries
<1>2. u \o more = Append(u \o q, ch) /\ r \o more = Append(r \o q, ch)
  BY ConcatOne DEF Str
<1>3. w \in Seq(Name) /\ Without(Append(d, c), Both) = KeptWith(w, c, Both)
  BY <1>1, NamesKept, Zenon
<1>4. to \in Seq(Name)
  <2> HIDE DEF w
  <2> QED BY <1>1, <1>3, NamesWalked
<1>5. CASE ch = Slash
  <2>1. c \notin {<<>>, <<Dot>>, Climb}
    BY <1>1, <1>5, TailNotOdd
  <2>2. Without(Append(d, c), Both) = Append(w, c)
    BY <1>3, <2>1, Zenon DEF KeptWith, Both
  <2> HIDE DEF w
  <2>3. ~Twice(Append(w, c))
    BY <1>1, <1>3, <2>1, TwiceGrows, Zenon
  <2>4. Walked(Append(w, c)) = Append(to, c)
    <3>1. Walked(Append(w, c)) = Walk(to, c)
      BY <1>1, <1>3, NamesWalked
    <3>2. Walk(to, c) = Append(to, c)
      BY <1>1, <1>4, <2>1, WalkIs, Zenon
    <3> QED BY <3>1, <3>2, Zenon
  <2> HIDE DEF to
  <2>5. Append(d, c) \in Seq(Name) /\ Append(to, c) \in Seq(Name) /\ <<>> \in Name
    BY <1>1, <1>4, NameText, AppendProperties
  <2>6. /\ Slashed(Append(Append(d, c), <<>>)) = Append(Slashed(Append(d, c)), Slash)
        /\ Slashed(Append(Append(to, c), <<>>)) = Append(Slashed(Append(to, c)), Slash)
    BY <2>5, NamesGrow, Zenon
  <2>7. Tailed(more, <<>>)
    BY <1>1, <1>5, TailedOn
  <2> HIDE DEF more
  <2>8. u \o more = Slashed(Append(Append(d, c), <<>>))
    BY <1>1, <1>2, <1>5, <2>6, Zenon
  <2>9. Slashed(Append(Append(to, c), <<>>)) = r \o more
    BY <1>1, <1>2, <1>5, <2>6, Zenon
  <2>10. Carries(u, r, more, Append(d, c), <<>>)
    BY <2>2, <2>3, <2>4, <2>5, <2>7, <2>8, <2>9, Zenon DEF Carries
  <2> QED BY <1>5, <2>10 DEF more
<1>6. CASE ch # Slash
  <2> DEFINE name == Append(c, ch)
  <2>1. name \in Name
    <3>1. ch \in Char \ {Slash}
      BY <1>6
    <3> QED BY <1>1, <3>1, AppendProperties DEF Name
  <2>2. /\ Slashed(Append(d, name)) = Append(Slashed(Append(d, c)), ch)
        /\ Slashed(Append(to, name)) = Append(Slashed(Append(to, c)), ch)
    BY <1>1, <1>4, NamesGrow, Zenon
  <2>3. Tailed(more, name)
    BY <1>1, <1>6, TailedOn
  <2> HIDE DEF more, name
  <2>4. u \o more = Slashed(Append(d, name)) /\ Slashed(Append(to, name)) = r \o more
    BY <1>1, <1>2, <2>2, Zenon
  <2>5. Carries(u, r, more, d, name)
    BY <1>1, <2>1, <2>3, <2>4, Zenon DEF Carries
  <2> QED BY <1>6, <2>5 DEF more, name
<1> QED BY <1>5, <1>6

\* All of the query.
LEMMA QueryCarried ==
    ASSUME NEW u \in Str, NEW r \in Str, NEW els, NEW name, Carries(u, r, <<>>, els, name),
           NEW q \in Str, \A s \in Odd : ~Holds(q, s)
    PROVE  \E d, c : Carries(u, r, q, d, c)
<1> DEFINE Fine(t) == (\A s \in Odd : ~Holds(t, s)) => \E d, c : Carries(u, r, t, d, c)
           S == {t \in Str : Fine(t)}
<1>1. <<>> \in S
  <2>1. <<>> \in Str /\ Fine(<<>>)
    BY EmptySeq, Zenon DEF Str
  <2> QED BY <2>1
<1>2. ASSUME NEW t \in Str, NEW ch \in Char, t \in S PROVE Append(t, ch) \in S
  <2> DEFINE more == Append(t, ch)
  <2>1. more \in Str /\ Odd \subseteq Str
    BY AtAppend, OddTexts
  <2>2. ASSUME \A s \in Odd : ~Holds(more, s) PROVE \E d, c : Carries(u, r, more, d, c)
    <3>1. \A s \in Odd : ~Holds(t, s)
      BY <2>1, <2>2, HoldsOn
    <3>2. PICK d, c : Carries(u, r, t, d, c)
      BY <1>2, <3>1
    <3>3. IF ch = Slash THEN Carries(u, r, more, Append(d, c), <<>>)
          ELSE Carries(u, r, more, d, Append(c, ch))
      BY <2>2, <3>2, CarriesOn
    <3> HIDE DEF more
    <3> QED BY <3>3, Zenon
  <2>3. Fine(more)
    BY <2>2, Zenon
  <2> QED BY <2>1, <2>3 DEF more
<1>3. Str \subseteq S
  <2> HIDE DEF S
  <2> QED BY <1>1, <1>2, SeqInduction DEF Str
<1>4. Fine(q)
  BY <1>3
<1> QED BY <1>4, Zenon

\* A path with a query: what is left of the path is the path resolved, and the
\* query is as it was.
LEMMA SanitiseQuery ==
    ASSUME NEW a \in Str, At(a, 1) = Slash, ~ClimbsTwice(a),
           NEW q \in Str, \A s \in Odd : ~Holds(q, s)
    PROVE  sanitiseUrl(Append(a, Question) \o q) = Append(Resolved(a), Question) \o q
<1> DEFINE u == Append(a, Question)
           r == Append(Resolved(a), Question)
           t == u \o q
<1>1. PICK els \in Seq(Name), name \in Name :
          a = Slashed(Append(els, name)) /\ Split(a, Slash) = Rooted(els, name)
  BY NamesOf
<1> DEFINE w == Without(els, Both)
           to == Walked(w)
           c == Append(name, Question)
<1>2. /\ Elements(a) = w
      /\ Resolved(a) = Slashed(Append(to, name))
      /\ ~Twice(w)
  BY <1>1, ResolvedIs DEF Both
<1>3. w \in Seq(Name) /\ to \in Seq(Name)
  BY NamesKept, NamesWalked
<1>4. Question \in Char /\ Question # Slash /\ name \in Str
  BY NameText DEF Question, Slash, Char
<1>5. c \in Name
  BY <1>4, AppendProperties DEF Name
<1>6. Slashed(Append(els, c)) = u /\ Slashed(Append(to, c)) = r
  BY <1>1, <1>2, <1>3, <1>4, NamesGrow, Zenon
<1>7. u \in Str /\ r \in Str
  <2>1. u \in Str
    BY <1>4, AtAppend
  <2>2. Slashed(Append(to, c)) \in Str
    BY <1>3, <1>5, NamesGrow
  <2> QED BY <1>6, <2>1, <2>2, Zenon
<1>8. Tailed(<<>>, c)
  <2>1. Places(c, Question) # {}
    BY <1>4, UntilGrows
  <2> QED BY <2>1, Zenon DEF Tailed
<1>9. u \o <<>> = u /\ r \o <<>> = r
  BY <1>7, ConcatEmptySeq DEF Str
<1> HIDE DEF u, r, c, to, w
<1>10. Carries(u, r, <<>>, els, c)
  <2>1. /\ u \o <<>> = Slashed(Append(els, c))
        /\ Slashed(Append(to, c)) = r \o <<>>
    BY <1>6, <1>9, Zenon
  <2> QED BY <1>2, <1>5, <1>8, <2>1, Zenon DEF Carries, w, to
<1>11. PICK d, e : Carries(u, r, q, d, e)
  BY <1>7, <1>10, QueryCarried
<1>12. /\ d \in Seq(Name) /\ e \in Name
       /\ t = Slashed(Append(d, e))
       /\ ~Twice(Without(d, {<<>>, <<Dot>>}))
       /\ Slashed(Append(Walked(Without(d, {<<>>, <<Dot>>})), e)) = r \o q
  BY <1>11, Zenon DEF Carries, Both
<1>13. sanitiseUrl(Slashed(Append(d, e)))
         = Slashed(Append(Walked(Without(d, {<<>>, <<Dot>>})), e))
  BY <1>12, SanitiseIs
<1>14. sanitiseUrl(t) = r \o q
  BY <1>12, <1>13, Zenon
<1> QED BY <1>14 DEF u, r

\* No element comes from elsewhere.
LEMMA WalkedType ==
    ASSUME NEW C, NEW els \in Seq(C)
    PROVE  Walked(els) \in Seq(C)
<1> DEFINE N == Len(els)
<1>1. PICK f : WalkRun(f, els, C) /\ Walked(els) = f[N]
  BY WalkRuns
<1>2. f \in [0..N -> Seq(C)]
  BY <1>1, Zenon DEF WalkRun
<1>3. N \in 0..N
  OBVIOUS
<1> HIDE DEF N
<1> QED BY <1>1, <1>2, <1>3

\* No character is in a path resolved that is not in the path.
LEMMA ResolvedType ==
    ASSUME NEW D, Slash \in D, NEW p \in Seq(D)
    PROVE  Resolved(p) \in Seq(D)
<1> DEFINE sep == Slash
           C == D \ {sep}
           B == Seq(C)
           parts == Split(p, sep)
           n == Len(parts)
           els == SubSeq(parts, 2, n - 1)
           name == parts[n]
           out == {<<>>, <<Dot>>}
           w == Without(els, out)
           to == Walked(w)
           more == Append(to, name)
<1>1. B \subseteq Seq(D) /\ Seq(B) \subseteq Seq(Seq(D))
  <2>1. C \subseteq D
    OBVIOUS
  <2>2. B \subseteq Seq(D)
    BY <2>1
  <2> HIDE DEF B
  <2> QED BY <2>2
<1>2. parts \in Parts(C)
  <2> HIDE DEF sep
  <2> QED BY SplitAppend DEF sep
<1> HIDE DEF C, parts
<1>3. parts \in Seq(B) /\ n \in Nat \ {0} /\ \A k \in 1..n : parts[k] \in B
  <2>1. parts \in Seq(B) /\ parts # <<>>
    BY <1>2 DEF Parts
  <2> HIDE DEF B
  <2> QED BY <2>1
<1> HIDE DEF B
<1>4. els \in Seq(B) /\ name \in B
  <2>1. \A k \in 2..n - 1 : parts[k] \in B
    BY <1>3
  <2>2. 2 \in Int /\ n - 1 \in Int /\ n \in 1..n
    BY <1>3
  <2> HIDE DEF n
  <2> QED BY <1>3, <2>1, <2>2, SubSeqProperties
<1> HIDE DEF els, out, name
<1>5. w \in Seq(B)
  BY <1>4, WithoutType
<1> HIDE DEF w
<1>6. to \in Seq(B)
  BY <1>5, WalkedType
<1> HIDE DEF to
<1>7. more \in Seq(Seq(D)) /\ name \in Seq(D)
  <2>1. more \in Seq(B)
    BY <1>4, <1>6, AppendProperties
  <2> QED BY <1>1, <1>4, <2>1
<1> HIDE DEF more
<1>8. Slashed(more) \in Seq(D)
  BY <1>7, SlashedAppend
<1> QED BY <1>8, Zenon DEF Resolved, Elements, more, to, w, out, name, els, n, parts, sep

\* A target as it is cleaned: what the first question mark divides it into.
Leaves(p, a, q, asks) ==
    IF asks THEN Places(p, Question) # {} /\ Until(p, Question) = a /\ Behind(p, Question) = q
    ELSE Places(p, Question) = {} /\ p = a /\ q = <<>>

\* What the path is divided into at the end of the headers.
LEMMA TargetResolved ==
    ASSUME NEW t \in Str, Absolute(t), ~ClimbsTwice(Asked(t))
    PROVE  Leaves(sanitiseUrl(t), Resolved(Asked(t)), Queried(t), Places(t, Question) # {})
<1> DEFINE a == Asked(t)
           q == Queried(t)
           D == Char \ {Question}
           r == Resolved(a)
<1>1. /\ At(t, 1) = Slash /\ \A s \in Odd : ~Holds(q, s)
  BY DEF Absolute
<1>2. a \in Seq(D) /\ Slash \in D /\ Question \in Char /\ Question # Slash
  BY UntilType DEF Asked, Str, Question, Slash, Char
<1>3. a \in Str
  BY <1>2 DEF Str
<1>4. r \in Seq(D)
  <2> HIDE DEF D, a
  <2> QED BY <1>2, ResolvedType
<1>5. Places(r, Question) = {} /\ r \in Str
  <2> HIDE DEF r
  <2> QED BY <1>4 DEF Places, Str
<1>6. CASE Places(t, Question) = {}
  <2>1. a = t /\ q = <<>>
    BY <1>6, UntilAll DEF Asked, Queried
  <2>2. sanitiseUrl(t) = r
    BY <1>1, <2>1, SanitiseResolves
  <2> HIDE DEF r
  <2> QED BY <1>5, <1>6, <2>1, <2>2, Zenon DEF Leaves, r
<1>7. CASE Places(t, Question) # {}
  <2>1. q = Behind(t, Question) /\ q \in Str
    BY <1>7, TextBehind DEF Queried
  <2>2. t = Append(a, Question) \o q
    BY <1>7, <2>1, Rejoined DEF Asked, Str
  <2>3. At(a, 1) = Slash
    <3> DEFINE n == Least(Places(t, Question))
    <3>1. n \in 1..Len(t) /\ t[n] = Question /\ t[1] = Slash /\ Len(t) \in Nat
          /\ \A k \in 1..Len(t) : t[k] \in Char
      BY <1>1, <1>7, LeastPlace, AtText DEF Str, Slash, NUL
    <3>2. a = SubSeq(t, 1, n - 1)
      BY <1>7 DEF Asked, Until
    <3> HIDE DEF n
    <3>3. n > 1
      BY <1>2, <3>1
    <3> HIDE DEF a
    <3>4. /\ 1 \in Int /\ n - 1 \in Int /\ 1 <= n - 1 /\ (n - 1) - 1 + 1 = n - 1
          /\ \A k \in 1..n - 1 : t[k] \in Char
      BY <3>1, <3>3
    <3>5. a \in Seq(Char) /\ Len(a) = n - 1 /\ \A k \in 1..n - 1 : a[k] = t[1 + k - 1]
      BY <3>2, <3>4, SubSeqProperties
    <3>6. 1 \in DOMAIN a /\ a[1] = t[1]
      BY <3>4, <3>5
    <3> QED BY <3>1, <3>6 DEF At
  <2>4. sanitiseUrl(Append(a, Question) \o q) = Append(r, Question) \o q
    BY <1>1, <1>3, <2>1, <2>3, SanitiseQuery
  <2>5. Append(r, Question) = r \o <<Question>>
    BY <1>2, <1>5, AppendIsConcat DEF Str
  <2>6. sanitiseUrl(t) = r \o <<Question>> \o q
    BY <2>2, <2>4, <2>5, Zenon
  <2> HIDE DEF r, a, q
  <2>7. LET all == r \o <<Question>> \o q
        IN  /\ Places(all, Question) # {}
            /\ Until(all, Question) = r
            /\ Behind(all, Question) = q
    BY <1>2, <1>5, <2>1, Parted DEF Str
  <2> QED BY <1>7, <2>6, <2>7, Zenon DEF Leaves, r, a, q
<1> QED BY <1>6, <1>7

\* While the headers are read the path is the whole target, cleaned.
ResolvedInv ==
    /\ pc = "line" => path = <<>> /\ target = <<>> /\ query = <<>>
    /\ pc = "headers" => path = sanitiseUrl(target) /\ query = <<>>
    /\ PathResolved

\* Every step keeps it.
LEMMA ResolvedInductive == TypeOK /\ ResolvedInv /\ [Next]_vars => ResolvedInv'
<1> SUFFICES ASSUME TypeOK, ResolvedInv, [Next]_vars PROVE ResolvedInv'
  OBVIOUS
<1>1. CASE UNCHANGED <<pc, target, path, query>>
  BY <1>1 DEF ResolvedInv, PathResolved
<1>2. CASE pc' = "done"
  BY <1>2 DEF ResolvedInv, PathResolved
<1>3. ASSUME NEW t \in Target, ReadRequestLine(t) PROVE ResolvedInv'
  BY <1>3 DEF ReadRequestLine, ResolvedInv, PathResolved
<1>4. CASE EndHeaders
  <2>1. /\ pc \in {"line", "headers"} /\ pc' = "process" /\ target' = target
        /\ IF Places(path, Question) = {} THEN path' = path /\ query' = query
           ELSE path' = Until(path, Question) /\ query' = Behind(path, Question)
    BY <1>4 DEF EndHeaders
  <2>2. SUFFICES ASSUME Absolute(target), ~ClimbsTwice(Asked(target))
                 PROVE  path' = Resolved(Asked(target)) /\ query' = Queried(target)
    BY <2>1, Zenon DEF ResolvedInv, PathResolved
  <2>3. target \in Str
    BY RequestAssumption, EmptySeq DEF TypeOK, Str
  <2>4. CASE pc = "line"
    <3>1. At(<<>>, 1) # Slash
      BY DEF At, NUL, Slash
    <3> QED BY <2>2, <2>4, <3>1, Zenon DEF ResolvedInv, Absolute
  <2>5. CASE pc = "headers"
    <3> DEFINE r == Resolved(Asked(target))
               q == Queried(target)
               asks == Places(target, Question) # {}
    <3>1. path = sanitiseUrl(target) /\ query = <<>>
      BY <2>5 DEF ResolvedInv
    <3>2. Leaves(path, r, q, asks)
      BY <2>2, <2>3, <3>1, TargetResolved
    <3> HIDE DEF r, q, asks
    <3>3. ASSUME asks PROVE path' = r /\ query' = q
      <4>1. Places(path, Question) # {} /\ Until(path, Question) = r /\ Behind(path, Question) = q
        BY <3>2, <3>3, Zenon DEF Leaves
      <4> QED BY <2>1, <4>1, Zenon
    <3>4. ASSUME ~asks PROVE path' = r /\ query' = q
      <4>1. Places(path, Question) = {} /\ path = r /\ q = <<>>
        BY <3>2, <3>4, Zenon DEF Leaves
      <4> QED BY <2>1, <3>1, <4>1, Zenon
    <3>5. path' = r /\ query' = q
      BY <3>3, <3>4, Zenon
    <3> QED BY <3>5, Zenon DEF r, q
  <2> QED BY <2>1, <2>4, <2>5
<1> QED BY <1>1, <1>2, <1>3, <1>4 DEF Next, vars, RejectMethod, ReadHost, ReadAuthorization,
                                     Silent, SendPage, SendRedirect

\* The path that a request is processed with is the one its target names, element by
\* element, and the query is the one that was sent: three passes over both at once,
\* each looking ahead, come to the same, unless two climbs follow each other.
THEOREM ResolvedTheorem == Spec => []PathResolved
<1>1. Init => ResolvedInv
  BY DEF Init, ResolvedInv, PathResolved
<1>2. TypeOK /\ ResolvedInv /\ [Next]_vars => ResolvedInv'
  BY ResolvedInductive
<1>3. ResolvedInv => PathResolved
  BY DEF ResolvedInv
<1>4. Spec => []TypeOK
  BY RequestTypeTheorem
<1> QED BY <1>1, <1>2, <1>3, <1>4, PTL DEF Spec
=========================================================================
