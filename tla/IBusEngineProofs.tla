-------------------------- MODULE IBusEngineProofs --------------------------
(* What the IBus engine shows and commits, for any characters, triggers and *)
(* length of the text.                                                      *)
EXTENDS IBusEngine, FiniteSetTheorems, SequenceTheorems, TLAPS

Pending(step) == \E i \in DOMAIN call : call[i] = step

(* The preedit text is sent first, if it is sent at all. *)
CallInv == call \in Seq(Steps) /\ \A i \in DOMAIN call : call[i] = "preedit" => i = 1

(* The preedit text and the candidates are stale only while their signal is *)
(* pending, or when the bus is gone.                                        *)
PreeditInv == connected /\ ~Pending("preedit") => preedit = [text |-> text, cursor |-> cursor_pos]

TableInv ==
  connected /\ engine # "none" /\ ~Pending("candidates") /\ fuzzy_match(text) # {} => table = text

(* A call that has still to commit has cleared the text, and clears the *)
(* display before it commits, even if the bus goes away meanwhile.      *)
CommitInv ==
  Pending("commit") => text = <<>> /\ (Pending("preedit") \/ preedit.text = <<>>)

UnstartedInv == engine = "none" => text = <<>> /\ table = <<>>

IInv == CallInv /\ PreeditInv /\ TableInv /\ CommitInv /\ UnstartedInv

-----------------------------------------------------------------------------
(* The calls *)

IsUpdate(c) ==
  /\ c \in Seq(Steps) /\ 1 \in DOMAIN c /\ 2 \in DOMAIN c
  /\ c[1] = "preedit" /\ c[2] = "candidates"
  /\ \A i \in DOMAIN c : c[i] = "preedit" => i = 1

LEMMA UpdateTextIs ==
  /\ IsUpdate(update_text)
  /\ \A i \in DOMAIN update_text : update_text[i] # "commit"
BY DEF IsUpdate, update_text, Steps

LEMMA UpdateThen ==
  ASSUME NEW rest \in Seq(Steps), \A i \in DOMAIN rest : rest[i] # "preedit"
  PROVE  /\ IsUpdate(update_text \o rest)
         /\ (\A i \in DOMAIN rest : rest[i] # "commit") =>
              \A i \in DOMAIN (update_text \o rest) : (update_text \o rest)[i] # "commit"
BY DEF IsUpdate, update_text, Steps

LEMMA UpdateExitIs ==
  /\ IsUpdate(update_text \o <<"exit">>)
  /\ \A i \in DOMAIN (update_text \o <<"exit">>) : (update_text \o <<"exit">>)[i] # "commit"
<1>1. <<"exit">> \in Seq(Steps) /\ \A i \in DOMAIN <<"exit">> : <<"exit">>[i] = "exit"
  BY DEF Steps
<1> QED BY <1>1, UpdateThen

LEMMA Concatenated ==
  ASSUME NEW s \in Seq(Steps), NEW t \in Seq(Steps), NEW step,
         \A i \in DOMAIN s : s[i] # step,
         \A i \in DOMAIN t : t[i] # step
  PROVE  s \o t \in Seq(Steps) /\ \A i \in DOMAIN (s \o t) : (s \o t)[i] # step
OBVIOUS

LEMMA CommitCallIs ==
  ASSUME NEW output \in {<<"commit">>, <<>>}
  PROVE  IsUpdate(CommitCall(output))
<1> DEFINE rest == output \o <<"exit">>
<1>1. rest \in Seq(Steps) /\ \A i \in DOMAIN rest : rest[i] # "preedit"
  <2>1. output \in Seq(Steps) /\ \A i \in DOMAIN output : output[i] = "commit"
    <3>1. CASE output = <<>>
      BY <3>1
    <3>2. CASE output = <<"commit">>
      BY <3>2 DEF Steps
    <3> QED BY <3>1, <3>2
  <2>2. <<"exit">> \in Seq(Steps) /\ \A i \in DOMAIN <<"exit">> : <<"exit">>[i] = "exit"
    BY DEF Steps
  <2> QED BY <2>1, <2>2, Concatenated
<1>2. CommitCall(output) = update_text \o rest
  BY DEF CommitCall, update_text
<1> QED BY <1>1, <1>2, UpdateThen

(* A step that schedules an update of the display keeps the invariant, *)
(* whatever it does to the text.                                       *)
LEMMA ScheduleUpdate ==
  ASSUME IInv, IsUpdate(call'), engine' = engine, engine # "none",
         text' = <<>> \/ \A i \in DOMAIN call' : call'[i] # "commit"
  PROVE  IInv'
BY DEF IInv, CallInv, PreeditInv, TableInv, CommitInv, UnstartedInv, Pending, IsUpdate

(* A step that leaves the text and the display alone keeps it, too, if it *)
(* starts no call but one that forwards a key or ends the program.        *)
LEMMA LeaveText ==
  ASSUME IInv, UNCHANGED <<field, shown>>, connected' => connected,
         engine' # "none" \/ engine = "none",
         engine = "none" => text = <<>>,
         call' = call \/ call' = <<"forward">> \/ call' = <<"exit">>,
         call' # call => call = <<>>
  PROVE  IInv'
<1>1. \A step \in {"preedit", "candidates", "commit"} : Pending(step)' <=> Pending(step)
  BY DEF Pending
<1>2. CallInv'
  <2>1. CASE call' = call
    BY <2>1 DEF IInv, CallInv
  <2>2. CASE call' = <<"forward">>
    BY <2>2 DEF CallInv, Steps
  <2>3. CASE call' = <<"exit">>
    BY <2>3 DEF CallInv, Steps
  <2> QED BY <2>1, <2>2, <2>3
<1> QED BY <1>1, <1>2 DEF IInv, PreeditInv, TableInv, CommitInv, UnstartedInv, field, shown

-----------------------------------------------------------------------------
(* The signals of a call *)

LEMMA ContinueStep ==
  ASSUME IInv, Continue
  PROVE  IInv'
<1>1. /\ call \in Seq(Steps) /\ call # <<>> /\ call' = Tail(call)
      /\ UNCHANGED <<engine, text, cursor_pos, connected>>
      /\ UpdatePreedit \/ UpdateTable \/ Emit \/ exit
  BY DEF IInv, CallInv, Continue, field
<1>2. /\ Len(call') = Len(call) - 1 /\ call' \in Seq(Steps)
      /\ \A i \in DOMAIN call' : i + 1 \in DOMAIN call /\ call'[i] = call[i + 1]
      /\ \A i \in DOMAIN call : i = 1 \/ (i - 1 \in DOMAIN call' /\ call'[i - 1] = call[i])
      /\ 1 \in DOMAIN call /\ Head(call) = call[1]
  BY <1>1
<1>3. \A step \in {"preedit", "candidates", "commit"} :
        Pending(step) <=> Head(call) = step \/ Pending(step)'
  <2> SUFFICES ASSUME NEW step \in {"preedit", "candidates", "commit"}
               PROVE  Pending(step) <=> Head(call) = step \/ Pending(step)'
    OBVIOUS
  <2>1. Pending(step) => Head(call) = step \/ Pending(step)'
    BY <1>2 DEF Pending
  <2>2. Head(call) = step \/ Pending(step)' => Pending(step)
    BY <1>2 DEF Pending
  <2> QED BY <2>1, <2>2
<1>4. CallInv' /\ ~Pending("preedit")'
  <2>1. \A i \in DOMAIN call' : i + 1 # 1
    BY <1>2
  <2>2. \A i \in DOMAIN call' : call'[i] # "preedit"
    BY <1>2, <2>1 DEF IInv, CallInv
  <2> QED BY <1>2, <2>2 DEF CallInv, Pending
<1>5. CASE UpdatePreedit
  BY <1>1, <1>3, <1>4, <1>5
     DEF UpdatePreedit, IInv, PreeditInv, TableInv, CommitInv, UnstartedInv
<1>6. CASE UpdateTable
  <2>1. PreeditInv' /\ CommitInv'
    BY <1>1, <1>3, <1>4, <1>6 DEF UpdateTable, IInv, PreeditInv, CommitInv
  <2>2. TableInv' /\ UnstartedInv'
    BY <1>1, <1>6 DEF UpdateTable, IInv, TableInv, UnstartedInv, fuzzy_match
  <2> QED BY <1>4, <2>1, <2>2 DEF IInv
<1>7. CASE Emit \/ exit
  <2>1. UNCHANGED shown /\ Head(call) \notin {"preedit", "candidates"}
    BY <1>7 DEF Emit, exit
  <2>2. PreeditInv' /\ TableInv' /\ CommitInv' /\ UnstartedInv'
    BY <1>1, <1>3, <1>4, <2>1
       DEF IInv, PreeditInv, TableInv, CommitInv, UnstartedInv, shown, fuzzy_match
  <2> QED BY <1>4, <2>2 DEF IInv
<1> QED BY <1>1, <1>5, <1>6, <1>7

-----------------------------------------------------------------------------
(* Key presses *)

LEMMA PressStep ==
  ASSUME IInv, process_key_event
  PROVE  IInv'
<1>1. CASE Release
  <2>1. /\ engine = "ready" /\ call = <<>> /\ call' = <<"forward">>
        /\ UNCHANGED <<engine, field, shown, connected>>
    BY <1>1 DEF Release, Serves
  <2> QED BY <2>1, LeaveText
<1> SUFFICES ASSUME Press PROVE IInv'
  BY <1>1 DEF process_key_event, BackSpace, Delete, Move, OtherKey, Return, Escape, Type
<1>2. /\ engine = "ready" /\ call = <<>>
      /\ UNCHANGED <<shown, connected>>
  BY DEF Press, Serves
<1>3. CASE engine' = engine /\ IsUpdate(call') /\
           (text' = <<>> \/ \A i \in DOMAIN call' : call'[i] # "commit")
  BY <1>2, <1>3, ScheduleUpdate
<1>4. CASE engine' \in {"index", "trigger"} /\ UNCHANGED <<field, call>>
  BY <1>2, <1>4, LeaveText
<1>5. CASE BackSpace \/ Delete
  <2>1. CASE engine' = engine
    <3>1. call' = update_text
      BY <1>2, <1>5, <2>1 DEF BackSpace, Delete, RemoveByte
    <3> QED BY <3>1, <2>1, <1>3, UpdateTextIs
  <2>2. CASE engine' # engine
    <3>1. engine' = "index" /\ UNCHANGED <<field, call>>
      BY <1>2, <1>5, <2>2 DEF BackSpace, Delete, RemoveByte, field
    <3> QED BY <3>1, <1>4
  <2> QED BY <2>1, <2>2
<1>6. CASE Move
  BY <1>3, <1>6, UpdateTextIs DEF Move
<1>7. ASSUME NEW c \in Chars, Type(c) PROVE IInv'
  <2>1. CASE engine' = engine /\ call' = update_text
    BY <2>1, <1>3, UpdateTextIs
  <2>2. CASE Panic("index")
    BY <2>2, <1>4 DEF Panic
  <2> QED BY <1>7, <2>1, <2>2 DEF Type
<1>8. CASE OtherKey
  <2>1. UNCHANGED <<engine, field, call>>
    BY <1>8 DEF OtherKey
  <2> QED BY <1>2, <2>1, LeaveText
<1>9. CASE Return
  <2>1. CASE /\ \E output \in {<<"commit">>, <<>>} : call' = CommitCall(output)
             /\ clear_text /\ UNCHANGED engine
    BY <2>1, <1>3, CommitCallIs DEF clear_text
  <2>2. CASE Panic("trigger")
    BY <2>2, <1>4 DEF Panic
  <2>3. CASE call' = <<"exit">> /\ UNCHANGED <<engine, field>>
    BY <2>3, <1>2, LeaveText
  <2> QED BY <1>9, <2>1, <2>2, <2>3 DEF Return
<1>10. CASE Escape
  BY <1>3, <1>10, UpdateExitIs DEF Escape, ClearAndExit, clear_text
<1> QED BY <1>1, <1>5, <1>6, <1>7, <1>8, <1>9, <1>10 DEF process_key_event

-----------------------------------------------------------------------------
(* Every step keeps the invariant. *)
LEMMA Inductive == Spec => []IInv
<1>1. Init => IInv
  BY DEF Init, IInv, CallInv, PreeditInv, TableInv, CommitInv, UnstartedInv, Pending
<1>2. IInv /\ [Next]_vars => IInv'
  <2> SUFFICES ASSUME IInv, [Next]_vars PROVE IInv'
    OBVIOUS
  <2>1. CASE create_engine
    <3>1. /\ engine = "none" /\ engine' = "ready"
          /\ UNCHANGED <<field, call, shown, connected>>
      BY <2>1 DEF create_engine
    <3>2. text = <<>>
      BY <3>1 DEF IInv, UnstartedInv
    <3> QED BY <3>1, <3>2, LeaveText
  <2>2. CASE process_key_event
    BY <2>2, PressStep
  <2>3. CASE Reset \/ FocusOut
    <3>1. engine = "ready" /\ engine' = engine /\ text' = <<>> /\ call' = update_text \o <<"exit">>
      BY <2>3 DEF Reset, FocusOut, Serves, ClearAndExit, clear_text
    <3> QED BY <3>1, UpdateExitIs, ScheduleUpdate
  <2>4. CASE Continue
    BY <2>4, ContinueStep
  <2>5. CASE SignalFails
    BY <2>5 DEF SignalFails, IInv, CallInv, PreeditInv, TableInv, CommitInv, UnstartedInv,
                Pending, field, shown
  <2>6. CASE Enable \/ Destroy \/ Elapse \/ Disconnect \/ Exit \/ UNCHANGED vars
    <3>1. UNCHANGED <<engine, field, call, shown>> /\ (connected' => connected)
      BY <2>6 DEF Enable, Destroy, Elapse, Disconnect, Exit, vars, field, shown
    <3>2. engine = "none" => text = <<>>
      BY DEF IInv, UnstartedInv
    <3> QED BY <3>1, <3>2, LeaveText
  <2> QED BY <2>1, <2>2, <2>3, <2>4, <2>5, <2>6 DEF Next
<1> QED BY <1>1, <1>2, PTL DEF Spec

(* The expansion is committed only when the application has been told to   *)
(* take the trigger off the display (clear_text and commit of              *)
(* process_key_event).                                                     *)
THEOREM CommitIsAfterClear == Spec => []CommitAfterClear
<1>1. IInv => CommitAfterClear
  <2> SUFFICES ASSUME IInv, call # <<>>, Head(call) = "commit"
               PROVE  preedit.text = <<>> /\ text = <<>>
    BY DEF CommitAfterClear
  <2>1. 1 \in DOMAIN call /\ call[1] = "commit"
    BY DEF IInv, CallInv
  <2>2. ~Pending("preedit")
    BY <2>1 DEF IInv, CallInv, Pending
  <2> QED BY <2>1, <2>2 DEF IInv, CommitInv, Pending
<1> QED BY <1>1, Inductive, PTL

(* Between two calls the display shows the line and the candidates of it,  *)
(* unless the bus is gone (update_text).                                   *)
THEOREM DisplayStaysCurrent == Spec => []DisplayIsCurrent
<1>1. IInv => DisplayIsCurrent
  <2> SUFFICES ASSUME IInv, connected, call = <<>>
               PROVE  /\ preedit = [text |-> text, cursor |-> cursor_pos]
                      /\ engine # "none" /\ fuzzy_match(text) # {} => table = text
    BY DEF DisplayIsCurrent
  <2>1. ~Pending("preedit") /\ ~Pending("candidates")
    BY DEF Pending
  <2> QED BY <2>1 DEF IInv, PreeditInv, TableInv
<1> QED BY <1>1, Inductive, PTL


-----------------------------------------------------------------------------
(* Bytes and characters *)

WideAt(s) == {i \in DOMAIN s : s[i] \in Wide}

LEMMA ByteLenFacts ==
  ASSUME NEW s \in Seq(Chars)
  PROVE  /\ IsFiniteSet(WideAt(s)) /\ Cardinality(WideAt(s)) \in Nat
         /\ ByteLen(s) = Len(s) + Cardinality(WideAt(s))
         /\ ByteLen(s) \in Nat /\ ByteLen(s) >= Len(s)
         /\ WideAt(s) = {} => ByteLen(s) = Len(s)
<1>1. IsFiniteSet(1 .. Len(s))
  BY FS_Interval
<1>2. IsFiniteSet(WideAt(s))
  <2>1. WideAt(s) \in SUBSET (1 .. Len(s))
    BY DEF WideAt
  <2> QED BY <1>1, <2>1, FS_Subset
<1>3. Cardinality(WideAt(s)) \in Nat /\ (WideAt(s) = {} => Cardinality(WideAt(s)) = 0)
  BY <1>2, FS_CardinalityType, FS_EmptySet
<1>4. ByteLen(s) = Len(s) + Cardinality(WideAt(s))
  BY DEF ByteLen, WideAt
<1>5. Len(s) \in Nat
  OBVIOUS
<1> QED BY <1>2, <1>3, <1>4, <1>5

LEMMA ByteLenConcat ==
  ASSUME NEW s \in Seq(Chars), NEW t \in Seq(Chars)
  PROVE  /\ s \o t \in Seq(Chars)
         /\ ByteLen(s \o t) = ByteLen(s) + ByteLen(t)
<1> DEFINE st == s \o t
           n == Len(s)
           later == {i \in WideAt(st) : i > n}
           shift == [i \in WideAt(t) |-> i + n]
<1>1. /\ st \in Seq(Chars) /\ n \in Nat /\ Len(t) \in Nat /\ Len(st) = n + Len(t)
      /\ \A i \in 1 .. Len(st) : st[i] = IF i <= n THEN s[i] ELSE t[i - n]
      /\ DOMAIN st = 1 .. Len(st) /\ DOMAIN s = 1 .. n /\ DOMAIN t = 1 .. Len(t)
  OBVIOUS
<1>2. WideAt(st) = WideAt(s) \cup later /\ WideAt(s) \cap later = {}
  <2> HIDE DEF st, n
  <2> QED BY <1>1 DEF WideAt
<1>3. IsFiniteSet(WideAt(s)) /\ IsFiniteSet(WideAt(t)) /\ IsFiniteSet(WideAt(st)) /\ IsFiniteSet(later)
  <2>1. IsFiniteSet(WideAt(s)) /\ IsFiniteSet(WideAt(t)) /\ IsFiniteSet(WideAt(st))
    BY <1>1, ByteLenFacts
  <2>2. later \in SUBSET WideAt(st)
    OBVIOUS
  <2> QED BY <2>1, <2>2, FS_Subset
<1>4. Cardinality(later) = Cardinality(WideAt(t))
  <2>1. shift \in [WideAt(t) -> later]
    <3> HIDE DEF st, n
    <3>1. ASSUME NEW i \in WideAt(t) PROVE i + n \in later
      BY <1>1 DEF WideAt
    <3> QED BY <3>1
  <2>2. \A i, j \in WideAt(t) : shift[i] = shift[j] => i = j
    <3> HIDE DEF st, n
    <3> QED BY <1>1 DEF WideAt
  <2>3. \A k \in later : \E i \in WideAt(t) : shift[i] = k
    <3> HIDE DEF st, n
    <3> TAKE k \in later
    <3>1. k - n \in WideAt(t) /\ (k - n) + n = k
      BY <1>1 DEF WideAt
    <3> QED BY <3>1
  <2> HIDE DEF shift, later
  <2>4. ExistsBijection(WideAt(t), later)
    <3>1. shift \in Injection(WideAt(t), later)
      BY <2>1, <2>2 DEF Injection, IsInjective
    <3>2. shift \in Surjection(WideAt(t), later)
      BY <2>1, <2>3 DEF Surjection
    <3> QED BY <3>1, <3>2 DEF ExistsBijection, Bijection
  <2> QED BY <1>3, <2>4, FS_Bijection
<1>5. Cardinality(WideAt(st)) = Cardinality(WideAt(s)) + Cardinality(later)
  <2>1. Cardinality(WideAt(s) \cup later)
          = Cardinality(WideAt(s)) + Cardinality(later) - Cardinality(WideAt(s) \cap later)
    <3> HIDE DEF later
    <3> QED BY <1>3, FS_Union
  <2>2. Cardinality({}) = 0 /\ Cardinality(WideAt(s)) \in Nat /\ Cardinality(later) \in Nat
    BY <1>3, FS_EmptySet, FS_CardinalityType
  <2> HIDE DEF later
  <2>3. Cardinality(WideAt(s) \cap later) = 0
    BY <1>2, <2>2, Zenon
  <2>4. Cardinality(WideAt(st)) = Cardinality(WideAt(s) \cup later)
    BY <1>2, Zenon
  <2> QED BY <2>1, <2>2, <2>3, <2>4
<1> HIDE DEF st, n, later
<1>6. ByteLen(st) = n + Len(t) + Cardinality(WideAt(s)) + Cardinality(WideAt(t))
  <2>1. ByteLen(st) = Len(st) + Cardinality(WideAt(st))
    BY <1>1, ByteLenFacts
  <2>2. Len(st) = n + Len(t) /\ n \in Nat /\ Len(t) \in Nat
    BY <1>1
  <2>3. Cardinality(WideAt(s)) \in Nat /\ Cardinality(WideAt(t)) \in Nat
    BY ByteLenFacts
  <2> QED BY <1>4, <1>5, <2>1, <2>2, <2>3
<1>7. /\ ByteLen(s) = n + Cardinality(WideAt(s)) /\ Cardinality(WideAt(s)) \in Nat
      /\ ByteLen(t) = Len(t) + Cardinality(WideAt(t)) /\ Cardinality(WideAt(t)) \in Nat
  BY ByteLenFacts DEF n
<1> QED BY <1>1, <1>6, <1>7 DEF st

LEMMA PrefixFacts ==
  ASSUME NEW s \in Seq(Chars), NEW i \in 0 .. Len(s)
  PROVE  /\ SubSeq(s, 1, i) \in Seq(Chars) /\ Len(SubSeq(s, 1, i)) = i
         /\ ByteLen(SubSeq(s, 1, i)) \in Nat /\ ByteLen(SubSeq(s, 1, i)) <= ByteLen(s)
         /\ i = Len(s) => ByteLen(SubSeq(s, 1, i)) = ByteLen(s)
         /\ WideAt(s) = {} => ByteLen(SubSeq(s, 1, i)) = i
<1> DEFINE pre == SubSeq(s, 1, i)
           post == SubSeq(s, i + 1, Len(s))
<1>1. /\ pre \in Seq(Chars) /\ Len(pre) = i /\ post \in Seq(Chars)
      /\ \A k \in 1 .. i : pre[k] = s[k] /\ k \in DOMAIN s
      /\ DOMAIN pre = 1 .. i
  OBVIOUS
<1>2. s = pre \o post
  <2>1. /\ Len(post) = Len(s) - i /\ i \in Nat /\ Len(s) \in Nat
        /\ \A k \in 1 .. Len(post) : post[k] = s[i + k]
    OBVIOUS
  <2>2. /\ Len(pre \o post) = Len(pre) + Len(post)
        /\ \A k \in 1 .. Len(pre) + Len(post) :
             (pre \o post)[k] = IF k <= Len(pre) THEN pre[k] ELSE post[k - Len(pre)]
        /\ pre \o post \in Seq(Chars)
    <3> HIDE DEF pre, post
    <3> QED BY <1>1
  <2> HIDE DEF pre, post
  <2>3. ASSUME NEW k \in 1 .. Len(s) PROVE s[k] = (pre \o post)[k]
    <3>1. CASE k <= i
      BY <1>1, <2>1, <2>2, <3>1
    <3>2. CASE k > i
      <4>1. k - i \in 1 .. Len(post) /\ i + (k - i) = k
        BY <2>1, <3>2
      <4> QED BY <1>1, <2>1, <2>2, <3>2, <4>1
    <3>3. k <= i \/ k > i
      OBVIOUS
    <3> QED BY <3>1, <3>2, <3>3, Zenon
  <2>4. Len(s) = Len(pre \o post)
    BY <1>1, <2>1, <2>2
  <2> QED BY <2>2, <2>3, <2>4, SeqEqual
<1>3. i = Len(s) => pre = s
  OBVIOUS
<1>4. WideAt(s) = {} => WideAt(pre) = {}
  BY <1>1 DEF WideAt
<1>5. ByteLen(s) = ByteLen(pre) + ByteLen(post)
  <2> HIDE DEF pre, post
  <2> QED BY <1>1, <1>2, ByteLenConcat
<1>6. ByteLen(pre) \in Nat /\ ByteLen(post) \in Nat /\ (WideAt(pre) = {} => ByteLen(pre) = Len(pre))
  <2> HIDE DEF pre, post
  <2> QED BY <1>1, ByteLenFacts
<1> HIDE DEF pre, post
<1>7. ByteLen(pre) <= ByteLen(s)
  BY <1>5, <1>6
<1> QED BY <1>1, <1>3, <1>4, <1>6, <1>7 DEF pre


(* A position before the end of the line is before a character. *)
LEMMA IndexFacts ==
  ASSUME NEW s \in Seq(Chars), NEW b \in Nat, IsBoundary(s, b)
  PROVE  /\ Index(s, b) \in 0 .. Len(s)
         /\ ByteLen(SubSeq(s, 1, Index(s, b))) = b
         /\ b < ByteLen(s) => Index(s, b) < Len(s)
<1>1. Index(s, b) \in 0 .. Len(s) /\ ByteLen(SubSeq(s, 1, Index(s, b))) = b
  BY DEF Index, IsBoundary
<1>2. Index(s, b) = Len(s) => b = ByteLen(s)
  BY <1>1, PrefixFacts
<1>3. Len(s) \in Nat /\ ByteLen(s) \in Nat
  BY ByteLenFacts
<1> QED BY <1>1, <1>2, <1>3

(* Without a character of two bytes a position is its own index. *)
LEMMA NarrowIndex ==
  ASSUME NEW s \in Seq(Chars), WideAt(s) = {}, NEW b \in 0 .. Len(s)
  PROVE  IsBoundary(s, b) /\ Index(s, b) = b
<1>1. \A i \in 0 .. Len(s) : ByteLen(SubSeq(s, 1, i)) = i
  BY PrefixFacts
<1>2. IsBoundary(s, b)
  BY <1>1 DEF IsBoundary
<1>3. Index(s, b) \in 0 .. Len(s) /\ ByteLen(SubSeq(s, 1, Index(s, b))) = b
  BY <1>2, IndexFacts
<1> QED BY <1>1, <1>2, <1>3

LEMMA RemoveAtIs ==
  ASSUME NEW s, NEW i
  PROVE  RemoveAt(s, i) = SubSeq(s, 1, i - 1) \o SubSeq(s, i + 1, Len(s))
BY DEF RemoveAt

LEMMA InsertAtIs ==
  ASSUME NEW s, NEW i, NEW c
  PROVE  InsertAt(s, i, c) = (SubSeq(s, 1, i - 1) \o <<c>>) \o SubSeq(s, i, Len(s))
BY DEF InsertAt

(* The bytes before character i stay when it goes. *)
LEMMA RemoveFacts ==
  ASSUME NEW s \in Seq(Chars), NEW i \in 0 .. Len(s) - 1
  PROVE  /\ RemoveAt(s, i + 1) \in Seq(Chars)
         /\ Len(RemoveAt(s, i + 1)) = Len(s) - 1
         /\ ByteLen(SubSeq(s, 1, i)) <= ByteLen(RemoveAt(s, i + 1))
<1> DEFINE pre == SubSeq(s, 1, i)
           post == SubSeq(s, i + 2, Len(s))
<1>1. /\ i \in 0 .. Len(s) /\ i \in Nat /\ Len(s) \in Nat
      /\ (i + 1) - 1 = i /\ (i + 1) + 1 = i + 2
  OBVIOUS
<1>2. RemoveAt(s, i + 1) = pre \o post
  <2>1. RemoveAt(s, i + 1) = SubSeq(s, 1, (i + 1) - 1) \o SubSeq(s, (i + 1) + 1, Len(s))
    BY RemoveAtIs
  <2>2. SubSeq(s, 1, (i + 1) - 1) = pre
    BY <1>1
  <2>3. SubSeq(s, (i + 1) + 1, Len(s)) = post
    BY <1>1
  <2> QED BY <2>1, <2>2, <2>3, Zenon
<1>3. post \in Seq(Chars) /\ Len(post) = Len(s) - i - 1
  BY <1>1
<1>4. pre \in Seq(Chars) /\ Len(pre) = i
  BY <1>1, PrefixFacts
<1> HIDE DEF pre, post
<1>5. /\ Len(pre \o post) = Len(pre) + Len(post)
      /\ ByteLen(pre \o post) = ByteLen(pre) + ByteLen(post)
      /\ pre \o post \in Seq(Chars)
  <2>1. Len(pre \o post) = Len(pre) + Len(post)
    BY <1>3, <1>4, ConcatProperties
  <2> QED BY <1>3, <1>4, <2>1, ByteLenConcat, Zenon
<1>6. ByteLen(pre) \in Nat /\ ByteLen(post) \in Nat
  BY <1>3, <1>4, ByteLenFacts
<1>7. Len(pre \o post) = Len(s) - 1 /\ ByteLen(pre) <= ByteLen(pre \o post)
  BY <1>1, <1>3, <1>4, <1>5, <1>6
<1> QED BY <1>2, <1>5, <1>7 DEF pre

(* A character of any width moves the end of its bytes by one at least. *)
LEMMA InsertFacts ==
  ASSUME NEW s \in Seq(Chars), NEW i \in 0 .. Len(s), NEW c \in Chars
  PROVE  /\ InsertAt(s, i + 1, c) \in Seq(Chars)
         /\ Len(InsertAt(s, i + 1, c)) = Len(s) + 1
         /\ ByteLen(SubSeq(s, 1, i)) + 1 <= ByteLen(InsertAt(s, i + 1, c))
         /\ i = Len(s) => Append(s, c) = InsertAt(s, i + 1, c)
<1> DEFINE pre == SubSeq(s, 1, i)
           one == <<c>>
           post == SubSeq(s, i + 1, Len(s))
<1>1. i \in Nat /\ Len(s) \in Nat /\ (i + 1) - 1 = i
  OBVIOUS
<1>2. InsertAt(s, i + 1, c) = (pre \o one) \o post
  <2>1. InsertAt(s, i + 1, c) = (SubSeq(s, 1, (i + 1) - 1) \o one) \o post
    BY InsertAtIs
  <2>2. SubSeq(s, 1, (i + 1) - 1) = pre
    BY <1>1
  <2> QED BY <2>1, <2>2, Zenon
<1>3. post \in Seq(Chars) /\ Len(post) = Len(s) - i
  BY <1>1
<1>4. pre \in Seq(Chars) /\ Len(pre) = i
  BY PrefixFacts
<1>5. one \in Seq(Chars)
  OBVIOUS
<1>6. i = Len(s) => post = <<>> /\ pre = s
  BY <1>1
<1>13. Len(one) = 1
  OBVIOUS
<1> HIDE DEF pre, one, post
<1>7. /\ Len(pre \o one) = Len(pre) + Len(one)
      /\ ByteLen(pre \o one) = ByteLen(pre) + ByteLen(one)
      /\ pre \o one \in Seq(Chars)
  <2>1. Len(pre \o one) = Len(pre) + Len(one)
    BY <1>4, <1>5
  <2> QED BY <1>4, <1>5, <2>1, ByteLenConcat, Zenon
<1>8. /\ Len((pre \o one) \o post) = Len(pre \o one) + Len(post)
      /\ ByteLen((pre \o one) \o post) = ByteLen(pre \o one) + ByteLen(post)
      /\ (pre \o one) \o post \in Seq(Chars)
  <2> DEFINE front == pre \o one
  <2>1. front \in Seq(Chars)
    BY <1>7
  <2> HIDE DEF front
  <2>2. Len(front \o post) = Len(front) + Len(post)
    BY <1>3, <2>1
  <2>3. ByteLen(front \o post) = ByteLen(front) + ByteLen(post) /\ front \o post \in Seq(Chars)
    BY <1>3, <2>1, ByteLenConcat
  <2> QED BY <2>2, <2>3 DEF front
<1>9. ByteLen(pre) \in Nat /\ ByteLen(one) \in Nat /\ ByteLen(post) \in Nat /\ ByteLen(one) >= 1
  BY <1>3, <1>4, <1>5, <1>13, ByteLenFacts
<1>10. ByteLen(pre) + 1 <= ByteLen((pre \o one) \o post)
  BY <1>7, <1>8, <1>9
<1>11. Len((pre \o one) \o post) = Len(s) + 1
  BY <1>1, <1>3, <1>4, <1>7, <1>8, <1>13
<1>12. i = Len(s) => Append(s, c) = (pre \o one) \o post
  BY <1>5, <1>6, <1>7 DEF one
<1> QED BY <1>2, <1>8, <1>10, <1>11, <1>12 DEF pre


-----------------------------------------------------------------------------
(* The line: every step that changes it is one of the line editor's, the     *)
(* cursor stays within it, and a position that is not there needs a          *)
(* character of two bytes.                                                   *)

LineOK ==
  /\ text \in Seq(Chars) /\ Len(text) <= MaxLen
  /\ cursor_pos \in 0 .. ByteLen(text)

LineStep ==
  /\ LineOK'
  /\ [Editor!Next]_field
  /\ engine' = "index" => UNCHANGED text /\ (engine = "index" \/ HasWide)

LEMMA LineFacts ==
  ASSUME LineOK
  PROVE  /\ HasWide <=> WideAt(text) # {}
         /\ Editor!HasWide <=> HasWide
         /\ Len(text) \in Nat /\ ByteLen(text) \in Nat /\ cursor_pos \in Nat
         /\ cursor_pos <= ByteLen(text)
         /\ ~HasWide => ByteLen(text) = Len(text)
<1>1. (HasWide <=> WideAt(text) # {}) /\ (Editor!HasWide <=> HasWide)
  BY DEF HasWide, Editor!HasWide, WideAt
<1>2. ByteLen(text) \in Nat /\ (WideAt(text) = {} => ByteLen(text) = Len(text))
  BY ByteLenFacts DEF LineOK
<1> QED BY <1>1, <1>2 DEF LineOK

(* A step that does not touch the line *)
LEMMA SameLine ==
  ASSUME LineOK, UNCHANGED field, engine' # "index" \/ engine = "index"
  PROVE  LineStep
BY DEF LineStep, LineOK, field, ByteLen

LEMMA ClearLine ==
  ASSUME LineOK, clear_text, engine' # "index"
  PROVE  LineStep
<1>1. <<>> \in Seq(Chars) /\ Len(<<>>) = 0 /\ MaxLen \in Nat
  BY BoundAssumption
<1>2. ByteLen(<<>>) \in Nat
  BY <1>1, ByteLenFacts
<1>3. text' = <<>> /\ cursor_pos' = 0
  BY DEF clear_text
<1>4. ByteLen(text)' = ByteLen(<<>>)
  BY <1>3 DEF ByteLen
<1>5. LineOK'
  BY <1>1, <1>2, <1>3, <1>4 DEF LineOK
<1>6. Editor!Next
  BY <1>3 DEF Editor!Next, Editor!Clear
<1> QED BY <1>5, <1>6 DEF LineStep

(* String::remove of the character at byte b, with the cursor left at b *)
LEMMA RemoveByteStep ==
  ASSUME LineOK, NEW b \in Nat, RemoveByte(b), engine = "ready",
         b < ByteLen(text),
         engine' = "ready" => cursor_pos' = b,
         engine' # "ready" => cursor_pos' = cursor_pos,
         b = cursor_pos \/ b = cursor_pos - 1
  PROVE  LineStep
<1> DEFINE i == Index(text, b)
<1>1. CASE b < ByteLen(text) /\ IsBoundary(text, b)
  <2>1. text' = RemoveAt(text, i + 1) /\ engine' = "ready" /\ cursor_pos' = b
    BY <1>1 DEF RemoveByte
  <2>2. text \in Seq(Chars) /\ i \in 0 .. Len(text) /\ i < Len(text) /\ ByteLen(SubSeq(text, 1, i)) = b
    BY <1>1, IndexFacts DEF LineOK
  <2>3. i \in 0 .. Len(text) - 1
    BY <2>2, LineFacts
  <2>4. /\ text' \in Seq(Chars) /\ Len(text') = Len(text) - 1
        /\ b <= ByteLen(text')
    BY <2>1, <2>2, <2>3, RemoveFacts
  <2>5. LineOK'
    <3>1. ByteLen(text)' = ByteLen(text') /\ ByteLen(text') \in Nat
      BY <2>4, ByteLenFacts DEF ByteLen
    <3>2. Len(text') <= MaxLen
      BY <2>4, LineFacts, BoundAssumption DEF LineOK
    <3> QED BY <2>1, <2>4, <3>1, <3>2 DEF LineOK
  <2>6. Editor!Next
    <3>1. CASE HasWide
      <4>1. i + 1 \in DOMAIN text
        BY <2>2, <2>3
      <4>2. text' = Editor!RemoveAt(text, i + 1)
        BY <2>1 DEF RemoveAt, Editor!RemoveAt
      <4>3. Editor!Misplaced
        BY <2>1, <4>1, <4>2 DEF Editor!Misplaced
      <4> QED BY <3>1, <4>3, LineFacts DEF Editor!Next
    <3>2. CASE ~HasWide
      <4>1. i = b /\ b < Len(text)
        BY <1>1, <2>2, <3>2, LineFacts, NarrowIndex
      <4>2. text' = Editor!RemoveAt(text, b + 1)
        BY <2>1, <4>1 DEF RemoveAt, Editor!RemoveAt
      <4>3. CASE b = cursor_pos
        BY <2>1, <3>2, <4>1, <4>2, <4>3, LineFacts DEF Editor!Next, Editor!DeleteAfter
      <4>4. CASE b = cursor_pos - 1
        <5>1. cursor_pos > 0 /\ b + 1 = cursor_pos
          BY <4>4, LineFacts
        <5>2. Editor!DeleteBefore
          BY <2>1, <4>2, <4>4, <5>1 DEF Editor!DeleteBefore
        <5> QED BY <3>2, <5>2, LineFacts DEF Editor!Next
      <4> QED BY <4>3, <4>4
    <3> QED BY <3>1, <3>2
  <2> QED BY <2>1, <2>5, <2>6 DEF LineStep
<1>2. CASE ~(b < ByteLen(text) /\ IsBoundary(text, b))
  <2>1. engine' = "index" /\ text' = text /\ cursor_pos' = cursor_pos
    BY <1>2 DEF RemoveByte
  <2>2. HasWide
    BY <1>2, LineFacts, NarrowIndex DEF LineOK
  <2>3. LineOK' /\ UNCHANGED field
    BY <2>1 DEF LineOK, field, ByteLen
  <2> QED BY <2>1, <2>2, <2>3 DEF LineStep
<1> QED BY <1>1, <1>2


LEMMA BackSpaceLine ==
  ASSUME LineOK, BackSpace
  PROVE  LineStep
<1>1. /\ cursor_pos > 0 /\ RemoveByte(cursor_pos - 1) /\ engine = "ready"
      /\ cursor_pos' = IF engine' = "ready" THEN cursor_pos - 1 ELSE cursor_pos
  BY DEF BackSpace, Press, Serves
<1>2. cursor_pos - 1 \in Nat /\ cursor_pos - 1 < ByteLen(text)
  BY <1>1, LineFacts
<1> QED BY <1>1, <1>2, RemoveByteStep

LEMMA DeleteLine ==
  ASSUME LineOK, Delete
  PROVE  LineStep
<1>1. /\ cursor_pos < ByteLen(text) /\ RemoveByte(cursor_pos) /\ engine = "ready"
      /\ cursor_pos' = cursor_pos
  BY DEF Delete, Press, Serves
<1> QED BY <1>1, LineFacts, RemoveByteStep

LEMMA MoveLine ==
  ASSUME LineOK, Move
  PROVE  LineStep
<1>1. PICK offset \in {-1, 1} : cursor_pos' = move_cursor(offset)
  BY DEF Move
<1>2. text' = text /\ engine' # "index"
  BY DEF Move, Press, Serves
<1>3. cursor_pos' \in 0 .. ByteLen(text)
  BY <1>1, LineFacts DEF move_cursor
<1>4. LineOK'
  BY <1>2, <1>3 DEF LineOK, ByteLen
<1>5. [Editor!Next]_field
  <2>1. CASE HasWide
    <3>1. Editor!Misplaced
      BY <1>2, <1>3, LineFacts DEF Editor!Misplaced
    <3> QED BY <2>1, <3>1, LineFacts DEF Editor!Next
  <2>2. CASE ~HasWide
    <3>1. ByteLen(text) = Len(text) /\ ~Editor!HasWide
      BY <2>2, LineFacts
    <3>2. CASE cursor_pos' = cursor_pos
      BY <1>2, <3>2 DEF field
    <3>3. CASE cursor_pos' # cursor_pos
      <4>1. Editor!Left \/ Editor!Right
        BY <1>1, <1>2, <3>1, <3>3, LineFacts DEF move_cursor, Editor!Left, Editor!Right
      <4> QED BY <3>1, <4>1 DEF Editor!Next
    <3> QED BY <3>2, <3>3
  <2> QED BY <2>1, <2>2
<1> QED BY <1>2, <1>4, <1>5 DEF LineStep

LEMMA TypeLine ==
  ASSUME LineOK, NEW c \in Chars, Type(c)
  PROVE  LineStep
<1>1. engine = "ready" /\ Len(text) < MaxLen
  BY DEF Type, Press, Serves
<1>2. CASE Panic("index") /\ ~(cursor_pos >= ByteLen(text) \/ IsBoundary(text, cursor_pos))
  <2>1. engine' = "index" /\ UNCHANGED field
    BY <1>2 DEF Panic
  <2>2. HasWide
    <3> SUFFICES ASSUME ~HasWide PROVE FALSE
      OBVIOUS
    <3>1. WideAt(text) = {} /\ cursor_pos \in 0 .. Len(text) /\ text \in Seq(Chars)
      BY LineFacts DEF LineOK
    <3> QED BY <1>2, <3>1, NarrowIndex
  <2>3. LineOK'
    BY <2>1 DEF LineOK, field, ByteLen
  <2> QED BY <2>1, <2>2, <2>3 DEF LineStep, field
<1>3. CASE /\ cursor_pos >= ByteLen(text) \/ IsBoundary(text, cursor_pos)
           /\ text' = IF cursor_pos >= ByteLen(text) THEN Append(text, c)
                      ELSE InsertAt(text, Index(text, cursor_pos) + 1, c)
           /\ cursor_pos' = cursor_pos + 1
           /\ UNCHANGED engine
  <2> DEFINE i == IF cursor_pos >= ByteLen(text) THEN Len(text) ELSE Index(text, cursor_pos)
  <2>1. /\ i \in 0 .. Len(text) /\ ByteLen(SubSeq(text, 1, i)) = cursor_pos
        /\ ~HasWide => i = cursor_pos
    <3>1. text \in Seq(Chars)
      BY DEF LineOK
    <3>2. CASE cursor_pos >= ByteLen(text)
      <4>1. cursor_pos = ByteLen(text) /\ i = Len(text) /\ i \in 0 .. Len(text)
        BY <3>2, LineFacts
      <4>2. ByteLen(SubSeq(text, 1, i)) = ByteLen(text)
        BY <3>1, <4>1, PrefixFacts
      <4> QED BY <4>1, <4>2, LineFacts
    <3>3. CASE ~(cursor_pos >= ByteLen(text))
      <4>1. i = Index(text, cursor_pos) /\ IsBoundary(text, cursor_pos) /\ cursor_pos \in Nat
        BY <1>3, <3>3, LineFacts
      <4>2. i \in 0 .. Len(text) /\ ByteLen(SubSeq(text, 1, i)) = cursor_pos
        BY <3>1, <4>1, IndexFacts
      <4>3. ~HasWide => WideAt(text) = {} /\ cursor_pos \in 0 .. Len(text)
        BY LineFacts
      <4>4. ~HasWide => Index(text, cursor_pos) = cursor_pos
        BY <3>1, <4>3, NarrowIndex
      <4> QED BY <4>1, <4>2, <4>4
    <3> QED BY <3>2, <3>3
  <2>2. /\ InsertAt(text, i + 1, c) \in Seq(Chars)
        /\ Len(InsertAt(text, i + 1, c)) = Len(text) + 1
        /\ cursor_pos + 1 <= ByteLen(InsertAt(text, i + 1, c))
        /\ i = Len(text) => Append(text, c) = InsertAt(text, i + 1, c)
    <3> HIDE DEF i
    <3> QED BY <2>1, InsertFacts DEF LineOK
  <2>3. text' = InsertAt(text, i + 1, c)
    <3>1. CASE cursor_pos >= ByteLen(text)
      BY <1>3, <2>2, <3>1
    <3>2. CASE ~(cursor_pos >= ByteLen(text))
      BY <1>3, <3>2
    <3> QED BY <3>1, <3>2
  <2> HIDE DEF i
  <2>4. LineOK'
    <3>1. ByteLen(text)' = ByteLen(text') /\ ByteLen(text') \in Nat
      BY <2>2, <2>3, ByteLenFacts DEF ByteLen
    <3>2. cursor_pos + 1 \in 0 .. ByteLen(text')
      BY <2>2, <2>3, <3>1, LineFacts
    <3>3. Len(text') <= MaxLen
      BY <1>1, <2>2, <2>3, LineFacts, BoundAssumption
    <3> QED BY <1>3, <2>2, <2>3, <3>1, <3>2, <3>3 DEF LineOK
  <2>5. text' = Editor!InsertAt(text, i + 1, c)
    BY <2>3 DEF InsertAt, Editor!InsertAt
  <2>6. Editor!Next
    <3>1. CASE HasWide
      <4>1. i + 1 \in 1 .. Len(text) + 1 /\ cursor_pos' \in Nat
        BY <1>3, <2>1, LineFacts
      <4>2. Editor!Misplaced
        BY <2>5, <4>1 DEF Editor!Misplaced
      <4> QED BY <3>1, <4>2, LineFacts DEF Editor!Next
    <3>2. CASE ~HasWide
      <4>1. Editor!Insert(c)
        BY <1>3, <2>1, <2>5, <3>2 DEF Editor!Insert
      <4> QED BY <3>2, <4>1, LineFacts DEF Editor!Next
    <3> QED BY <3>1, <3>2
  <2> QED BY <1>1, <1>3, <2>4, <2>6 DEF LineStep
<1> QED BY <1>2, <1>3 DEF Type


LEMMA LineNext ==
  ASSUME LineOK, [Next]_vars
  PROVE  LineStep
<1>1. CASE Return
  <2>1. engine = "ready"
    BY <1>1 DEF Return, Press, Serves
  <2>2. CASE clear_text /\ UNCHANGED engine
    BY <2>1, <2>2, ClearLine
  <2>3. CASE Panic("trigger")
    BY <2>3, SameLine DEF Panic
  <2>4. CASE UNCHANGED <<engine, field>>
    BY <2>4, SameLine
  <2> QED BY <1>1, <2>2, <2>3, <2>4 DEF Return
<1>2. CASE Escape \/ Reset \/ FocusOut
  <2>1. engine' = "ready" /\ clear_text
    BY <1>2 DEF Escape, Reset, FocusOut, Press, Serves, ClearAndExit
  <2> QED BY <2>1, ClearLine
<1>3. CASE \/ Release \/ OtherKey \/ create_engine \/ Enable \/ Destroy \/ Continue
           \/ SignalFails \/ Elapse \/ Disconnect \/ Exit \/ UNCHANGED vars
  <2>1. UNCHANGED field /\ (engine' = "ready" \/ engine' = engine)
    BY <1>3 DEF Release, OtherKey, create_engine, Enable, Destroy, Continue, SignalFails,
                Elapse, Disconnect, Exit, vars, field
  <2> QED BY <2>1, SameLine
<1> QED BY <1>1, <1>2, <1>3, BackSpaceLine, DeleteLine, MoveLine, TypeLine
        DEF Next, process_key_event

LEMMA LineInit == Init => LineOK /\ Editor!Init
<1>1. <<>> \in Seq(Chars) /\ Len(<<>>) = 0
  OBVIOUS
<1>2. ByteLen(<<>>) \in Nat
  BY <1>1, ByteLenFacts
<1> QED BY <1>1, <1>2, BoundAssumption DEF Init, LineOK, Editor!Init

LEMMA LineIsOK == Spec => []LineOK
<1>1. LineOK /\ [Next]_vars => LineOK'
  BY LineNext DEF LineStep
<1> QED BY <1>1, LineInit, PTL DEF Spec

(* Whatever is typed, released or called, the cursor stays between the start *)
(* and the end of the text, the text within its bound, and every field, call *)
(* and signal has its type.                                                  *)
THEOREM TypeCorrect == Spec => []TypeOK
<1> DEFINE Rest == /\ engine \in {"none", "ready", "index", "trigger"}
                   /\ {new_key_pressed, fresh, connected, notified} \subseteq BOOLEAN
                   /\ preedit.text \in Seq(Chars) /\ preedit.cursor \in Nat
                   /\ table \in Seq(Chars)
                   /\ main \in {"waiting", "exited"}
<1>1. Init => Rest
  <2> SUFFICES ASSUME Init PROVE Rest
    OBVIOUS
  <2>1. <<>> \in Seq(Chars)
    OBVIOUS
  <2>2. preedit.text = <<>> /\ preedit.cursor = 0 /\ table = <<>>
    BY DEF Init
  <2>3. engine = "none" /\ main = "waiting"
    BY DEF Init
  <2>4. {new_key_pressed, fresh, connected, notified} \subseteq BOOLEAN
    BY DEF Init
  <2> QED BY <2>1, <2>2, <2>3, <2>4
<1>2. Rest /\ LineOK /\ [Next]_vars => Rest'
  <2> SUFFICES ASSUME Rest, LineOK, [Next]_vars PROVE Rest'
    OBVIOUS
  <2>1. engine' \in {"none", "ready", "index", "trigger"} /\ main' \in {"waiting", "exited"}
    BY DEF Next, process_key_event, BackSpace, Delete, Move, OtherKey, Return, Escape, Type,
           Release, create_engine, Reset, FocusOut, Enable, Destroy, Continue, SignalFails,
           Elapse, Disconnect, Exit, Press, Panic, RemoveByte, ClearAndExit, vars
  <2>2. {new_key_pressed', fresh', connected', notified'} \subseteq BOOLEAN
    BY DEF Next, process_key_event, BackSpace, Delete, Move, OtherKey, Return, Escape, Type,
           Release, create_engine, Reset, FocusOut, Enable, Destroy, Continue, SignalFails,
           Elapse, Disconnect, Exit, Press, UpdatePreedit, UpdateTable, Emit, exit, vars
  <2>3. preedit'.text \in Seq(Chars) /\ preedit'.cursor \in Nat /\ table' \in Seq(Chars)
    <3>1. CASE UNCHANGED shown
      BY <3>1 DEF shown
    <3>2. CASE Continue
      BY <3>2, LineFacts DEF Continue, UpdatePreedit, UpdateTable, Emit, exit, shown, LineOK
    <3>3. UNCHANGED shown \/ Continue
      BY DEF Next, process_key_event, BackSpace, Delete, Move, OtherKey, Return, Escape, Type,
             Release, create_engine, Reset, FocusOut, Enable, Destroy, SignalFails,
             Elapse, Disconnect, Exit, Press, vars, shown
    <3> QED BY <3>1, <3>2, <3>3
  <2> QED BY <2>1, <2>2, <2>3
<1>3. Rest /\ LineOK /\ IInv => TypeOK
  BY DEF LineOK, IInv, CallInv, TypeOK
<1> QED BY <1>1, <1>2, <1>3, LineIsOK, Inductive, PTL DEF Spec

(* An index inside a character, the panic of String::remove and insert in   *)
(* process_key_event, needs a character of two bytes.                       *)
THEOREM PanicIsWide == Spec => []PanicNeedsWide
<1>1. Init => PanicNeedsWide
  BY DEF Init, PanicNeedsWide
<1>2. LineOK /\ PanicNeedsWide /\ [Next]_vars => PanicNeedsWide'
  BY LineNext DEF LineStep, PanicNeedsWide, HasWide
<1> QED BY <1>1, <1>2, LineIsOK, PTL DEF Spec

(* The engine edits the text as LineEditor promises: exactly as a line with *)
(* a cursor while every character is one byte long, and one character at a  *)
(* time otherwise.                                                          *)
THEOREM EngineImplements == Spec => Implements
<1>1. LineOK /\ [Next]_vars => [Editor!Next]_Editor!vars
  BY LineNext DEF LineStep, Editor!vars, field
<1> QED BY <1>1, LineInit, LineIsOK, PTL DEF Spec, Implements, Editor!Spec
=============================================================================
