----------------------- MODULE StreamTranslatorProofs -----------------------
(***************************************************************************)
(* Proofs about StreamTranslator, for every set of call indices, of usage  *)
(* reports and of chunks: the translator and its client stay in sync, the  *)
(* stream implements AnthropicMessage, what the blocks of a message hold   *)
(* is what the upstream sent, and the message ends with the upstream's own *)
(* report.                                                                 *)
(***************************************************************************)
EXTENDS StreamProperties, TLAPS, WellFoundedInduction

USE ClientAssumption, StreamAssumption DEF NoIndex

\* What every block operation needs and keeps: a typed, synchronised wire on a
\* message that is under way.
Live(w) == w \in Wire /\ Synced(w) /\ w.client.phase = "streaming"

NoneGot == [x \in Sources |-> 0]

NewBlock(source) == [source |-> source, sealed |-> FALSE, got |-> NoneGot]

\* Opening a block when none is open keeps the wire live, and appends the block.
LEMMA OpenBlockKeepsLive ==
  ASSUME NEW w, Live(w), w.openIndex = NoIndex, NEW source \in Sources
  PROVE  LET v == OpenBlock(w, source)
         IN  /\ Live(v)
             /\ v.state = KindOf(source)
             /\ v.openIndex = w.nextIndex
             /\ v.client.blocks = Append(w.client.blocks, NewBlock(source))
<1> DEFINE v == OpenBlock(w, source)
           c == w.client
           d == BlockStart(c, w.nextIndex, source)
<1>1. /\ c \in Client /\ c.phase = "streaming" /\ c.open = NoIndex
      /\ w.nextIndex = Len(c.blocks) /\ w.nextIndex \in Nat
      /\ c.blocks \in Seq(Block)
  BY DEF Live, Wire, Client, Synced
<1>2. d = [c EXCEPT !.open = w.nextIndex, !.blocks = Append(@, NewBlock(source))]
  BY <1>1 DEF BlockStart, NewBlock, NoneGot
<1>3. KindOf(source) \in Kinds
  BY DEF KindOf, Kinds
<1>4. Append(c.blocks, NewBlock(source)) \in Seq(Block)
  BY <1>1 DEF NewBlock, NoneGot, Block
<1>5. /\ d.blocks = Append(c.blocks, NewBlock(source)) /\ d.open = w.nextIndex
      /\ d.phase = "streaming" /\ d \in Client
  BY <1>1, <1>2, <1>4 DEF Client
<1>6. /\ v.openIndex = w.nextIndex /\ v.nextIndex = w.nextIndex + 1
      /\ v.state = KindOf(source) /\ v.client = d
  BY DEF OpenBlock, Live, Wire
<1>8. v \in Wire
  BY <1>1, <1>3, <1>5 DEF OpenBlock, Live, Wire
<1>7. Synced(v)
  <2> HIDE DEF d, v
  <2>1. /\ Len(d.blocks) = w.nextIndex + 1
        /\ \A i \in 1 .. Len(c.blocks) : d.blocks[i] = c.blocks[i]
        /\ d.blocks[w.nextIndex + 1] = NewBlock(source)
    BY <1>1, <1>5
  <2>2. \A i \in 1 .. Len(c.blocks) : c.blocks[i].sealed
    BY <1>1 DEF Live, Synced
  <2>3. \A i \in 1 .. Len(d.blocks) : d.blocks[i].sealed <=> (i # w.nextIndex + 1)
    <3> SUFFICES ASSUME NEW i \in 1 .. Len(d.blocks)
                 PROVE  d.blocks[i].sealed <=> (i # w.nextIndex + 1)
      OBVIOUS
    <3>1. CASE i = w.nextIndex + 1
      <4>1. ~NewBlock(source).sealed BY DEF NewBlock
      <4> QED BY <2>1, <3>1, <4>1
    <3>2. CASE i # w.nextIndex + 1
      <4>1. i \in 1 .. Len(c.blocks) BY <1>1, <2>1, <3>2
      <4> QED BY <2>1, <2>2, <3>2, <4>1
    <3> QED BY <3>1, <3>2
  <2> QED
    <3>1. /\ v.nextIndex = Len(v.client.blocks) /\ v.openIndex = v.client.open
          /\ v.openIndex = v.nextIndex - 1 /\ v.openIndex \in Nat
      BY <1>1, <1>5, <1>6, <2>1
    <3>2. v.state # "start" /\ KindOf(v.client.blocks[v.openIndex + 1].source) = v.state
      BY <1>3, <1>6, <2>1 DEF Kinds, NewBlock
    <3> QED BY <1>6, <2>3, <3>1, <3>2 DEF Synced
<1> QED BY <1>5, <1>6, <1>7, <1>8 DEF Live

\* Two block lists that differ at most in what the blocks received.
SameShape(bs, cs) ==
  /\ Len(bs) = Len(cs)
  /\ \A i \in 1 .. Len(cs) : bs[i].source = cs[i].source /\ bs[i].sealed = cs[i].sealed

\* A delta of the open block's kind keeps the wire live and changes only what
\* the open block received.
LEMMA DeltaKeepsLive ==
  ASSUME NEW w, Live(w), w.openIndex # NoIndex,
         NEW source \in Sources, KindOf(source) = w.state, NEW n \in Nat
  PROVE  LET v == Delta(w, source, n)
         IN  /\ Live(v)
             /\ v.state = w.state
             /\ SameShape(v.client.blocks, w.client.blocks)
<1> DEFINE c == w.client
           k == w.openIndex + 1
           b == [c.blocks[k] EXCEPT !.got[source] = @ + n]
           bs == [c.blocks EXCEPT ![k] = b]
           d == BlockDelta(c, w.openIndex, source, n)
           v == Delta(w, source, n)
<1>1. /\ w \in Wire /\ c \in Client /\ c.blocks \in Seq(Block)
      /\ k \in 1 .. Len(c.blocks) /\ c.blocks[k] \in Block
      /\ w.openIndex = c.open /\ c.phase = "streaming"
      /\ KindOf(c.blocks[k].source) = w.state
  BY DEF Live, Wire, Client, Synced
<1>2. d = [c EXCEPT !.blocks = bs]
  BY <1>1 DEF BlockDelta, Accepts
<1>3. b \in Block /\ b.source = c.blocks[k].source /\ b.sealed = c.blocks[k].sealed
  <2>1. c.blocks[k].got \in [Sources -> Nat] BY <1>1 DEF Block
  <2>2. [c.blocks[k].got EXCEPT ![source] = @ + n] \in [Sources -> Nat] BY <2>1
  <2> QED BY <1>1, <2>2 DEF Block
<1>4. bs \in Seq(Block) /\ SameShape(bs, c.blocks)
  <2> HIDE DEF b
  <2> QED BY <1>1, <1>3 DEF SameShape
<1>5. d \in Client /\ d.blocks = bs /\ d.open = c.open /\ d.phase = c.phase
  <2> HIDE DEF bs
  <2> QED BY <1>1, <1>2, <1>4 DEF Client
<1>6. /\ v.client = d /\ v.nextIndex = w.nextIndex /\ v.openIndex = w.openIndex
      /\ v.state = w.state /\ v \in Wire
  BY <1>1, <1>5 DEF Delta, Wire
<1>7. Synced(v)
  <2> HIDE DEF d, v, bs
  <2>1. Synced(w) BY DEF Live
  <2>2. SameShape(v.client.blocks, w.client.blocks) BY <1>4, <1>5, <1>6
  <2>3. v.client.open = w.client.open BY <1>5, <1>6
  <2> QED BY <1>1, <1>6, <2>1, <2>2, <2>3 DEF Synced, SameShape
<1> QED BY <1>1, <1>4, <1>5, <1>6, <1>7 DEF Live

\* Closing leaves no block open and every block sealed.
LEMMA CloseBlockKeepsLive ==
  ASSUME NEW w, Live(w)
  PROVE  LET v == CloseBlock(w)
         IN  /\ Live(v)
             /\ v.openIndex = NoIndex
             /\ v.nextIndex = w.nextIndex
             /\ Len(v.client.blocks) = Len(w.client.blocks)
             /\ \A i \in 1 .. Len(w.client.blocks) :
                  /\ v.client.blocks[i].source = w.client.blocks[i].source
                  /\ v.client.blocks[i].sealed
<1> DEFINE c == w.client
           k == w.openIndex + 1
           b == [c.blocks[k] EXCEPT !.sealed = TRUE]
           bs == [c.blocks EXCEPT ![k] = b]
           v == CloseBlock(w)
<1>1. CASE w.openIndex = NoIndex
  <2>1. v = w BY <1>1 DEF CloseBlock
  <2>2. \A i \in 1 .. Len(c.blocks) : c.blocks[i].sealed
    BY <1>1 DEF Live, Synced, Wire, Client
  <2> QED BY <1>1, <2>1, <2>2
<1>2. CASE w.openIndex # NoIndex
  <2>1. /\ w \in Wire /\ c \in Client /\ c.blocks \in Seq(Block)
        /\ k \in 1 .. Len(c.blocks) /\ c.blocks[k] \in Block
        /\ w.openIndex = c.open /\ c.phase = "streaming" /\ w.openIndex \in Nat
        /\ KindOf(c.blocks[k].source) = w.state
    BY <1>2 DEF Live, Wire, Client, Synced
  <2>2. /\ b \in Block /\ b.sealed /\ b.source = c.blocks[k].source
    BY <2>1 DEF Block
  <2>3. /\ bs \in Seq(Block) /\ Len(bs) = Len(c.blocks) /\ bs[k] = b
        /\ \A i \in 1 .. Len(c.blocks) : i # k => bs[i] = c.blocks[i]
    <3> HIDE DEF b
    <3> QED BY <2>1, <2>2
  <2> DEFINE signed == IF w.state = "thinking" THEN SignatureDelta(c, w.openIndex) ELSE c
             d == BlockStop(signed, w.openIndex)
  <2>4. d = [c EXCEPT !.blocks = bs, !.open = NoIndex]
    <3>1. CASE w.state = "thinking"
      <4>1. KindOf("reasoning") = "thinking" BY DEF KindOf
      <4>2. signed = [c EXCEPT !.blocks = bs]
        BY <2>1, <3>1, <4>1 DEF SignatureDelta, Accepts
      <4>3. /\ signed.phase = "streaming" /\ signed.open = w.openIndex
            /\ signed.blocks = bs
        <5> HIDE DEF bs, signed
        <5> QED BY <2>1, <4>2 DEF Client
      <4>4. d = [signed EXCEPT !.open = NoIndex, !.blocks[k].sealed = TRUE]
        <5> HIDE DEF signed, bs
        <5> QED BY <2>1, <2>2, <2>3, <4>3 DEF BlockStop
      <4>5. [bs EXCEPT ![k].sealed = TRUE] = bs
        <5>1. [b EXCEPT !.sealed = TRUE] = b BY <2>1 DEF Block
        <5> HIDE DEF b
        <5> QED BY <2>1, <2>3, <5>1
      <4> HIDE DEF bs, signed, d
      <4> QED BY <2>1, <4>2, <4>3, <4>4, <4>5 DEF Client
    <3>2. CASE w.state # "thinking"
      BY <2>1, <3>2 DEF BlockStop
    <3> QED BY <3>1, <3>2
  <2>5. d \in Client /\ d.blocks = bs /\ d.open = NoIndex /\ d.phase = "streaming"
    <3> HIDE DEF bs, d
    <3> QED BY <2>1, <2>3, <2>4 DEF Client
  <2>6. /\ v.client = d /\ v.nextIndex = w.nextIndex /\ v.openIndex = NoIndex
        /\ v.state = "start" /\ v \in Wire
    BY <2>1, <2>5 DEF CloseBlock, Wire
  <2>7. \A i \in 1 .. Len(c.blocks) : bs[i].source = c.blocks[i].source /\ bs[i].sealed
    <3> HIDE DEF bs, b
    <3> QED BY <1>2, <2>1, <2>2, <2>3 DEF Live, Synced
  <2>8. Synced(v)
    <3> HIDE DEF bs, d, v
    <3> QED BY <2>1, <2>3, <2>5, <2>6, <2>7 DEF Live, Synced
  <2> HIDE DEF d, bs
  <2> QED BY <2>3, <2>5, <2>6, <2>7, <2>8 DEF Live
<1> QED BY <1>1, <1>2

-----------------------------------------------------------------------------

\* The list bs is cs with every block sealed and one open block more.
Opens(bs, cs, source) ==
  /\ Len(bs) = Len(cs) + 1
  /\ \A i \in 1 .. Len(cs) : bs[i].source = cs[i].source /\ bs[i].sealed
  /\ bs[Len(cs) + 1].source = source
  /\ ~bs[Len(cs) + 1].sealed

\* What handling one part of a chunk may do to the client's message.
Progress(w, v) ==
  \/ SameShape(v.client.blocks, w.client.blocks)
  \/ \E source \in Sources :
       /\ Opens(v.client.blocks, w.client.blocks, source)
       /\ \A i \in 1 .. Len(w.client.blocks) :
            Message!MayFollow(KindOf(source), KindOf(w.client.blocks[i].source))

\* Ending the open block and beginning the next one.
LEMMA NextBlock ==
  ASSUME NEW w, Live(w), NEW source \in Sources
  PROVE  LET v == OpenBlock(CloseBlock(w), source)
         IN  /\ Live(v)
             /\ v.state = KindOf(source)
             /\ v.openIndex # NoIndex
             /\ Opens(v.client.blocks, w.client.blocks, source)
<1> DEFINE u == CloseBlock(w)
           v == OpenBlock(u, source)
<1>1. /\ Live(u) /\ u.openIndex = NoIndex
      /\ Len(u.client.blocks) = Len(w.client.blocks)
      /\ \A i \in 1 .. Len(w.client.blocks) :
           /\ u.client.blocks[i].source = w.client.blocks[i].source
           /\ u.client.blocks[i].sealed
  BY CloseBlockKeepsLive
<1>2. /\ u.client.blocks \in Seq(Block) /\ u.nextIndex \in Nat
      /\ w.client.blocks \in Seq(Block)
  BY <1>1 DEF Live, Wire, Client
<1> HIDE DEF u
<1>3. /\ Live(v) /\ v.state = KindOf(source) /\ v.openIndex = u.nextIndex
      /\ v.client.blocks = Append(u.client.blocks, NewBlock(source))
  BY <1>1, OpenBlockKeepsLive
<1> HIDE DEF v
<1>4. Opens(v.client.blocks, w.client.blocks, source)
  BY <1>1, <1>2, <1>3 DEF Opens, NewBlock
<1>5. v.openIndex # NoIndex
  BY <1>2, <1>3
<1> USE DEF u, v
<1> QED BY <1>3, <1>4, <1>5

\* A block that opens and takes its first delta.
LEMMA NextBlockDelta ==
  ASSUME NEW w, Live(w), NEW source \in Sources, NEW n \in Nat
  PROVE  LET v == Delta(OpenBlock(CloseBlock(w), source), source, n)
         IN  /\ Live(v)
             /\ v.state = KindOf(source)
             /\ Opens(v.client.blocks, w.client.blocks, source)
<1> DEFINE u == OpenBlock(CloseBlock(w), source)
           v == Delta(u, source, n)
<1>1. /\ Live(u) /\ u.state = KindOf(source) /\ u.openIndex # NoIndex
      /\ Opens(u.client.blocks, w.client.blocks, source)
  BY NextBlock
<1>2. u.client.blocks \in Seq(Block) /\ w.client.blocks \in Seq(Block)
  BY <1>1 DEF Live, Wire, Client
<1> HIDE DEF u
<1>3. /\ Live(v) /\ v.state = u.state
      /\ SameShape(v.client.blocks, u.client.blocks)
  BY <1>1, DeltaKeepsLive
<1> HIDE DEF v
<1>4. Opens(v.client.blocks, w.client.blocks, source)
  <2> DEFINE vs == v.client.blocks
             us == u.client.blocks
             ws == w.client.blocks
  <2>1. Len(ws) \in Nat /\ Len(us) = Len(ws) + 1 /\ Len(vs) = Len(us)
    BY <1>1, <1>2, <1>3 DEF Opens, SameShape
  <2>2. \A i \in 1 .. Len(ws) + 1 : vs[i].source = us[i].source /\ vs[i].sealed = us[i].sealed
    BY <2>1, <1>3 DEF SameShape
  <2>3. Len(ws) + 1 \in 1 .. Len(ws) + 1 /\ \A i \in 1 .. Len(ws) : i \in 1 .. Len(ws) + 1
    BY <2>1
  <2> HIDE DEF vs, us, ws
  <2>4. Opens(us, ws, source) BY <1>1 DEF us, ws
  <2>5. Opens(vs, ws, source) BY <2>1, <2>2, <2>3, <2>4 DEF Opens
  <2> QED BY <2>5 DEF vs, ws
<1> USE DEF u, v
<1> QED BY <1>1, <1>3, <1>4

\* The kinds of the sources.
LEMMA KindOfSources ==
  /\ KindOf("reasoning") = "thinking"
  /\ KindOf("text") = "text"
  /\ \A c \in Calls : KindOf(c) = "tool" /\ c # "reasoning" /\ c # "text"
  /\ \A x \in Sources : KindOf(x) \in Kinds
<1>1. \A c \in Calls : c # "reasoning" /\ c # "text"
  OBVIOUS
<1>2. \A x : x # "reasoning" /\ x # "text" => KindOf(x) = "tool"
  BY DEF KindOf
<1>3. KindOf("reasoning") = "thinking" /\ KindOf("text") = "text"
  BY DEF KindOf
<1> QED BY <1>1, <1>2, <1>3 DEF Kinds, Sources

LEMMA AppendReasoningSafe ==
  ASSUME NEW w, Live(w), Ordered(w)
  PROVE  LET v == AppendReasoning(w)
         IN  /\ Live(v) /\ Ordered(v) /\ Progress(w, v)
             /\ w.state = "tool" => v.state = "tool"
<1> DEFINE v == AppendReasoning(w)
<1>0. /\ w \in Wire /\ Synced(w) /\ "reasoning" \in Sources /\ w.client.blocks \in Seq(Block)
  BY DEF Live, Sources, Wire, Client
<1>1. CASE w.state \in {"text", "tool"}
  BY <1>1 DEF AppendReasoning, Progress, SameShape
<1>2. CASE w.state = "thinking"
  <2>1. v = Delta(w, "reasoning", 1) BY <1>2 DEF AppendReasoning
  <2>2. w.openIndex # NoIndex BY <1>0, <1>2 DEF Synced
  <2>3. Live(v) /\ v.state = "thinking" /\ SameShape(v.client.blocks, w.client.blocks)
    BY <1>0, <1>2, <2>1, <2>2, DeltaKeepsLive, KindOfSources
  <2>4. Ordered(v)
    <3> HIDE DEF v
    <3> QED BY <1>2, <2>3 DEF Ordered, SameShape
  <2> QED BY <1>2, <2>3, <2>4 DEF Progress
<1>3. CASE w.state = "start"
  <2>1. v = Delta(OpenBlock(CloseBlock(w), "reasoning"), "reasoning", 1)
    BY <1>3 DEF AppendReasoning
  <2>2. /\ Live(v) /\ v.state = "thinking"
        /\ Opens(v.client.blocks, w.client.blocks, "reasoning")
    BY <1>0, <2>1, NextBlockDelta, KindOfSources
  <2>3. w.client.blocks = <<>> BY <1>3 DEF Ordered
  <2>4. Ordered(v) /\ Progress(w, v)
    <3> HIDE DEF v
    <3> QED BY <1>0, <2>2, <2>3, KindOfSources DEF Ordered, Opens, Progress
  <2> QED BY <1>3, <2>2, <2>4
<1> QED BY <1>0, <1>1, <1>2, <1>3 DEF Wire, Kinds

LEMMA AppendTextSafe ==
  ASSUME NEW w, Live(w), Ordered(w)
  PROVE  LET v == AppendText(w)
         IN  /\ Live(v) /\ Ordered(v) /\ Progress(w, v)
             /\ w.state = "tool" => v.state = "tool"
<1> DEFINE v == AppendText(w)
<1>0. /\ w \in Wire /\ Synced(w) /\ "text" \in Sources /\ w.client.blocks \in Seq(Block)
  BY DEF Live, Sources, Wire, Client
<1>1. CASE w.state = "tool"
  BY <1>1 DEF AppendText, Progress, SameShape
<1>2. CASE w.state = "text"
  <2>1. v = Delta(w, "text", 1) BY <1>2 DEF AppendText
  <2>2. w.openIndex # NoIndex BY <1>0, <1>2 DEF Synced
  <2>3. Live(v) /\ v.state = "text" /\ SameShape(v.client.blocks, w.client.blocks)
    BY <1>0, <1>2, <2>1, <2>2, DeltaKeepsLive, KindOfSources
  <2>4. Ordered(v)
    <3> HIDE DEF v
    <3> QED BY <1>0, <1>2, <2>3 DEF Ordered, SameShape
  <2> QED BY <1>2, <2>3, <2>4 DEF Progress
<1>3. CASE w.state \in {"start", "thinking"}
  <2>1. v = Delta(OpenBlock(CloseBlock(w), "text"), "text", 1)
    BY <1>3 DEF AppendText
  <2>2. /\ Live(v) /\ v.state = "text"
        /\ Opens(v.client.blocks, w.client.blocks, "text")
    BY <1>0, <2>1, NextBlockDelta, KindOfSources
  <2>3. \A i \in 1 .. Len(w.client.blocks) : KindOf(w.client.blocks[i].source) = "thinking"
    BY <1>3 DEF Ordered
  <2>4. Ordered(v)
    <3> HIDE DEF v
    <3> QED BY <1>0, <2>2, <2>3 DEF Ordered, Opens
  <2>5. Progress(w, v)
    <3> HIDE DEF v
    <3> QED BY <1>0, <2>2, <2>3, KindOfSources DEF Progress, Message!MayFollow
  <2> QED BY <1>3, <2>2, <2>4, <2>5
<1> QED BY <1>0, <1>1, <1>2, <1>3 DEF Wire, Kinds

\* The type of an accumulator.
Accumulator == [named : BOOLEAN, opened : BOOLEAN, pending : Nat]

LEMMA AppendToolCallSafe ==
  ASSUME NEW w, Live(w), Ordered(w), NEW acc \in Accumulator, NEW part \in Part,
         part.source \in Calls, acc.opened => w.state = "tool"
  PROVE  LET v == AppendToolCall(w, acc, part)
             a == Accumulate(acc, part)
         IN  /\ Live(v) /\ Ordered(v) /\ Progress(w, v)
             /\ w.state = "tool" => v.state = "tool"
             /\ a \in Accumulator
             /\ a.opened => v.state = "tool"
<1> DEFINE v == AppendToolCall(w, acc, part)
           a == Accumulate(acc, part)
           source == part.source
<1>0. /\ w \in Wire /\ Synced(w) /\ source \in Sources /\ KindOf(source) = "tool"
      /\ Size(part) \in Nat /\ w.client.blocks \in Seq(Block)
  BY KindOfSources DEF Live, Sources, Wire, Client, Size
<1>1. Named(acc, part) \in Accumulator /\ Named(acc, part).opened = acc.opened
  BY DEF Named, Accumulator, Part
<1>2. CASE acc.opened
  <2>1. a = Named(acc, part) BY <1>2 DEF Accumulate
  <2>2. v = IF part.args THEN Delta(w, source, 1) ELSE w BY <1>2 DEF AppendToolCall
  <2>3. w.openIndex # NoIndex BY <1>0, <1>2 DEF Synced
  <2>4. Live(v) /\ v.state = "tool" /\ SameShape(v.client.blocks, w.client.blocks)
    <3>1. CASE part.args
      BY <1>0, <1>2, <2>2, <2>3, <3>1, DeltaKeepsLive
    <3>2. CASE ~part.args
      BY <1>2, <2>2, <3>2 DEF SameShape
    <3> QED BY <3>1, <3>2
  <2> QED BY <1>1, <2>1, <2>4 DEF Progress, Ordered
<1>3. CASE ~acc.opened /\ ~Named(acc, part).named
  <2>1. v = w BY <1>3 DEF AppendToolCall
  <2>2. a \in Accumulator /\ ~a.opened
    <3>1. a = [acc EXCEPT !.pending = @ + Size(part)] BY <1>3 DEF Accumulate
    <3>2. acc.pending + Size(part) \in Nat BY <1>0 DEF Accumulator
    <3> HIDE DEF a
    <3> QED BY <1>3, <3>1, <3>2 DEF Accumulator
  <2> QED BY <2>1, <2>2 DEF Progress, SameShape
<1>4. CASE ~acc.opened /\ Named(acc, part).named
  <2>1. a = [named |-> TRUE, opened |-> TRUE, pending |-> 0] BY <1>4 DEF Accumulate
  <2>2. acc.pending + Size(part) \in Nat BY <1>0 DEF Accumulator
  <2>3. \/ v = Delta(OpenBlock(CloseBlock(w), source), source, acc.pending + Size(part))
        \/ v = OpenBlock(CloseBlock(w), source)
    BY <1>4 DEF AppendToolCall
  <2>4. Live(v) /\ v.state = "tool" /\ Opens(v.client.blocks, w.client.blocks, source)
    <3>1. CASE v = Delta(OpenBlock(CloseBlock(w), source), source, acc.pending + Size(part))
      BY <1>0, <2>2, <3>1, NextBlockDelta
    <3>2. CASE v = OpenBlock(CloseBlock(w), source)
      BY <1>0, <3>2, NextBlock
    <3> QED BY <2>3, <3>1, <3>2
  <2>5. Progress(w, v)
    <3> HIDE DEF v
    <3> QED BY <1>0, <2>4 DEF Progress, Message!MayFollow
  <2> QED BY <2>1, <2>4, <2>5 DEF Ordered, Accumulator
<1> QED BY <1>2, <1>3, <1>4

-----------------------------------------------------------------------------

\* message_start makes the wire live, and nothing else changes.
LEMMA StartMessageLive ==
  ASSUME NEW w \in Wire, Synced(w), NEW begun \in BOOLEAN,
         w.client.phase = IF begun THEN "streaming" ELSE "waiting"
  PROVE  LET v == StartMessage(w, begun)
         IN  /\ Live(v)
             /\ v.state = w.state
             /\ v.client.blocks = w.client.blocks
<1> DEFINE v == StartMessage(w, begun)
           d == MessageStart(w.client)
<1>1. CASE begun
  BY <1>1 DEF StartMessage, Live
<1>2. CASE ~begun
  <2>1. w.client \in Client /\ w.client.phase = "waiting" BY <1>2 DEF Wire
  <2>2. d = [w.client EXCEPT !.phase = "streaming"] BY <2>1 DEF MessageStart
  <2>3. /\ d \in Client /\ d.phase = "streaming" /\ d.open = w.client.open
        /\ d.blocks = w.client.blocks
    BY <2>1, <2>2 DEF Client, Phases
  <2>4. v = [w EXCEPT !.client = d] BY <1>2 DEF StartMessage
  <2>5. /\ v.client = d /\ v.state = w.state /\ v.nextIndex = w.nextIndex
        /\ v.openIndex = w.openIndex /\ v \in Wire
    <3> HIDE DEF d
    <3> QED BY <2>3, <2>4 DEF Wire
  <2>6. Synced(v)
    <3> HIDE DEF d, v
    <3> QED BY <2>3, <2>5 DEF Synced
  <2> QED BY <2>3, <2>5, <2>6 DEF Live
<1> QED BY <1>1, <1>2

\* The closing events seal every block of the message and end it.
LEMMA FinishMessageEnds ==
  ASSUME NEW w, Live(w), NEW reason \in Reasons, NEW report \in Reports \cup {"none"}
  PROVE  LET v == FinishMessage(w, reason, report)
         IN  /\ v \in Wire /\ Synced(v)
             /\ v.client.phase = "done"
             /\ Len(v.client.blocks) = Len(w.client.blocks)
             /\ \A i \in 1 .. Len(w.client.blocks) :
                  /\ v.client.blocks[i].source = w.client.blocks[i].source
                  /\ v.client.blocks[i].sealed
<1> DEFINE u == CloseBlock(w)
           final == IF report = "none" THEN "estimate" ELSE report
           d == MessageDelta(u.client, reason, final)
           e == MessageStop(d)
           v == FinishMessage(w, reason, report)
<1>1. /\ Live(u) /\ u.openIndex = NoIndex
      /\ Len(u.client.blocks) = Len(w.client.blocks)
      /\ \A i \in 1 .. Len(w.client.blocks) :
           /\ u.client.blocks[i].source = w.client.blocks[i].source
           /\ u.client.blocks[i].sealed
  BY CloseBlockKeepsLive
<1>2. v = [u EXCEPT !.client = e] BY DEF FinishMessage
<1> HIDE DEF u
<1>3. /\ u \in Wire /\ Synced(u) /\ u.client \in Client
      /\ u.client.phase = "streaming" /\ u.client.open = NoIndex
  BY <1>1 DEF Live, Wire, Synced
<1>4. final \in Reports \cup {"none", "estimate"} OBVIOUS
<1> HIDE DEF final
<1>5. d = [u.client EXCEPT !.phase = "closing", !.reason = reason, !.usage = final]
  BY <1>3 DEF MessageDelta
<1>6. /\ d \in Client /\ d.phase = "closing" /\ d.open = NoIndex
      /\ d.blocks = u.client.blocks
  BY <1>3, <1>4, <1>5 DEF Client, Phases
<1> HIDE DEF d
<1>7. /\ e \in Client /\ e.phase = "done" /\ e.open = NoIndex /\ e.blocks = u.client.blocks
  BY <1>6 DEF MessageStop, Client, Phases
<1> HIDE DEF e, v
<1>8. /\ v \in Wire /\ v.client = e /\ v.state = u.state /\ v.nextIndex = u.nextIndex
      /\ v.openIndex = u.openIndex
  BY <1>2, <1>3, <1>7 DEF Wire
<1>9. Synced(v)
  BY <1>3, <1>7, <1>8 DEF Synced
<1> USE DEF v
<1> QED BY <1>1, <1>7, <1>8, <1>9

\* An error event ends a message that is not over and leaves its blocks alone.
LEMMA ErrorEnds ==
  ASSUME NEW w \in Wire, Synced(w), w.client.phase \in {"waiting", "streaming"}
  PROVE  LET v == [w EXCEPT !.client = ErrorEvent(@)]
         IN  /\ v \in Wire /\ Synced(v)
             /\ v.client.phase = "failed"
             /\ v.client.blocks = w.client.blocks
<1> DEFINE d == ErrorEvent(w.client)
           v == [w EXCEPT !.client = d]
<1>1. w.client \in Client BY DEF Wire
<1>2. d = [w.client EXCEPT !.phase = "failed"] BY DEF ErrorEvent
<1>3. /\ d \in Client /\ d.phase = "failed" /\ d.open = w.client.open
      /\ d.blocks = w.client.blocks
  BY <1>1, <1>2 DEF Client, Phases
<1>4. /\ v \in Wire /\ v.client = d /\ v.state = w.state /\ v.nextIndex = w.nextIndex
      /\ v.openIndex = w.openIndex
  <2> HIDE DEF d
  <2> QED BY <1>3 DEF Wire
<1>5. Synced(v)
  <2> HIDE DEF d, v
  <2> QED BY <1>3, <1>4 DEF Synced
<1> QED BY <1>3, <1>4, <1>5

-----------------------------------------------------------------------------

\* The view of a wire is a list of blocks.
LEMMA ViewType ==
  ASSUME NEW w \in Wire
  PROVE  /\ View(w) \in Seq([kind : Kinds, sealed : BOOLEAN])
         /\ Len(View(w)) = Len(w.client.blocks)
         /\ \A i \in 1 .. Len(w.client.blocks) :
              /\ View(w)[i] = [kind |-> KindOf(w.client.blocks[i].source),
                               sealed |-> w.client.blocks[i].sealed]
              /\ View(w)[i].kind = KindOf(w.client.blocks[i].source)
              /\ View(w)[i] \in [kind : Kinds, sealed : BOOLEAN]
<1>1. w.client.blocks \in Seq(Block) BY DEF Wire, Client
<1>2. ASSUME NEW i \in 1 .. Len(w.client.blocks)
      PROVE  KindOf(w.client.blocks[i].source) \in Kinds /\ w.client.blocks[i].sealed \in BOOLEAN
  <2>1. w.client.blocks[i] \in Block BY <1>1
  <2>2. w.client.blocks[i].source \in Sources /\ w.client.blocks[i].sealed \in BOOLEAN
    BY <2>1 DEF Block
  <2> QED BY <2>2, KindOfSources
<1>3. Len(w.client.blocks) \in Nat BY <1>1
<1>4. View(w) \in [1 .. Len(w.client.blocks) -> [kind : Kinds, sealed : BOOLEAN]]
  BY <1>2 DEF View
<1>5. View(w) \in Seq([kind : Kinds, sealed : BOOLEAN]) /\ Len(View(w)) = Len(w.client.blocks)
  BY <1>2, <1>3 DEF View
<1>6. ASSUME NEW i \in 1 .. Len(w.client.blocks)
      PROVE  View(w)[i] = [kind |-> KindOf(w.client.blocks[i].source),
                           sealed |-> w.client.blocks[i].sealed]
  BY DEF View
<1> QED BY <1>4, <1>5, <1>6

\* Two lists of the same shape look the same.
LEMMA SameShapeSameView ==
  ASSUME NEW w \in Wire, NEW v \in Wire, SameShape(v.client.blocks, w.client.blocks)
  PROVE  View(v) = View(w)
BY DEF SameShape, View

\* A list whose blocks all got sealed looks like the sealed list.
LEMMA SealedView ==
  ASSUME NEW w \in Wire, NEW v \in Wire,
         Len(v.client.blocks) = Len(w.client.blocks),
         \A i \in 1 .. Len(w.client.blocks) :
           /\ v.client.blocks[i].source = w.client.blocks[i].source
           /\ v.client.blocks[i].sealed = TRUE
  PROVE  View(v) = Message!Sealed(View(w))
<1>1. Message!Sealed(View(w)) =
        [i \in 1 .. Len(w.client.blocks) |-> [kind |-> View(w)[i].kind, sealed |-> TRUE]]
  BY ViewType DEF Message!Sealed
<1>2. \A i \in 1 .. Len(w.client.blocks) : View(w)[i].kind = KindOf(v.client.blocks[i].source)
  <2> SUFFICES ASSUME NEW i \in 1 .. Len(w.client.blocks)
               PROVE  View(w)[i].kind = KindOf(v.client.blocks[i].source)
    OBVIOUS
  <2>1. View(w)[i].kind = KindOf(w.client.blocks[i].source) BY ViewType
  <2> QED BY <2>1
<1> QED BY <1>1, <1>2 DEF View

\* A part of a chunk leaves the message as it looks, or opens a next block.
LEMMA ProgressView ==
  ASSUME NEW w, Live(w), NEW v, Live(v), Progress(w, v)
  PROVE  \/ View(v) = View(w)
         \/ \E kind \in Message!Kinds :
              /\ \A i \in 1 .. Len(View(w)) : Message!MayFollow(kind, View(w)[i].kind)
              /\ View(v) = Append(Message!Sealed(View(w)), [kind |-> kind, sealed |-> FALSE])
<1>0. w \in Wire /\ v \in Wire BY DEF Live
<1>1. CASE SameShape(v.client.blocks, w.client.blocks)
  BY <1>0, <1>1, SameShapeSameView
<1>2. ASSUME NEW source \in Sources,
             Opens(v.client.blocks, w.client.blocks, source),
             \A i \in 1 .. Len(w.client.blocks) :
               Message!MayFollow(KindOf(source), KindOf(w.client.blocks[i].source))
      PROVE  \E kind \in Message!Kinds :
               /\ \A i \in 1 .. Len(View(w)) : Message!MayFollow(kind, View(w)[i].kind)
               /\ View(v) = Append(Message!Sealed(View(w)), [kind |-> kind, sealed |-> FALSE])
  <2> DEFINE n == Len(w.client.blocks)
             bs == v.client.blocks
             new == [kind |-> KindOf(source), sealed |-> FALSE]
             was == Message!Sealed(View(w))
  <2>1. n \in Nat /\ bs \in Seq(Block) /\ Len(bs) = n + 1
    BY <1>0, <1>2 DEF Opens, Wire, Client
  <2>2. KindOf(source) \in Message!Kinds
    BY KindOfSources DEF Kinds, Message!Kinds
  <2>3. \A i \in 1 .. n : bs[i].sealed = TRUE
    BY <1>2, <2>1 DEF Opens, Block
  <2>4. bs[n + 1].sealed = FALSE /\ bs[n + 1].source = source
    BY <1>2, <2>1 DEF Opens, Block
  <2>5. /\ Len(was) = n /\ was \in Seq([kind : Kinds, sealed : BOOLEAN])
        /\ \A i \in 1 .. n :
             was[i] = [kind |-> KindOf(w.client.blocks[i].source), sealed |-> TRUE]
    <3>1. \A i \in 1 .. n : /\ View(w)[i].kind = KindOf(w.client.blocks[i].source)
                             /\ View(w)[i].kind \in Kinds
      BY <1>0, ViewType
    <3>2. was = [i \in 1 .. n |-> [kind |-> View(w)[i].kind, sealed |-> TRUE]]
      BY <1>0, ViewType DEF Message!Sealed
    <3> HIDE DEF was, n
    <3>3. Len(was) = n /\ was \in Seq([kind : Kinds, sealed : BOOLEAN])
      BY <2>1, <3>1, <3>2
    <3> QED BY <3>1, <3>2, <3>3 DEF n
  <2>6. \A i \in 1 .. n : View(v)[i] = was[i]
    <3> SUFFICES ASSUME NEW i \in 1 .. n PROVE View(v)[i] = was[i]
      OBVIOUS
    <3>1. i \in 1 .. Len(bs) /\ bs[i].source = w.client.blocks[i].source
      BY <1>2, <2>1 DEF Opens
    <3>2. View(v)[i] = [kind |-> KindOf(bs[i].source), sealed |-> bs[i].sealed]
      BY <1>0, <3>1, ViewType
    <3> HIDE DEF was
    <3> QED BY <2>3, <2>5, <3>1, <3>2
  <2>7. View(v)[n + 1] = new
    <3>1. n + 1 \in 1 .. Len(bs) BY <2>1
    <3>2. View(v)[n + 1] = [kind |-> KindOf(bs[n + 1].source), sealed |-> bs[n + 1].sealed]
      BY <1>0, <3>1, ViewType
    <3> QED BY <2>4, <3>2
  <2>8. View(v) \in Seq([kind : Kinds, sealed : BOOLEAN]) /\ Len(View(v)) = n + 1
    BY <1>0, <2>1, ViewType
  <2>9. View(v) = Append(was, new)
    <3> HIDE DEF was, new, n, bs
    <3> QED BY <2>1, <2>5, <2>6, <2>7, <2>8
  <2>10. \A i \in 1 .. Len(View(w)) : Message!MayFollow(KindOf(source), View(w)[i].kind)
    <3> SUFFICES ASSUME NEW i \in 1 .. Len(View(w))
                 PROVE  Message!MayFollow(KindOf(source), View(w)[i].kind)
      OBVIOUS
    <3>1. i \in 1 .. n BY <1>0, ViewType
    <3>2. View(w)[i].kind = KindOf(w.client.blocks[i].source) BY <1>0, <3>1, ViewType
    <3> QED BY <1>2, <3>1, <3>2
  <2> QED BY <2>2, <2>9, <2>10
<1> QED BY <1>1, <1>2 DEF Progress

-----------------------------------------------------------------------------
(* The specification. *)

\* The messages a client has before any event.
LEMMA InitInductive == Init => Inductive /\ Message!Init
<1> SUFFICES ASSUME Init PROVE Inductive /\ Message!Init
  OBVIOUS
<1>1. Fresh \in Client /\ Fresh.blocks = <<>> /\ Fresh.open = NoIndex /\ Fresh.phase = "waiting"
  BY DEF Fresh, Client, Phases
<1>2. /\ wire.client = Fresh /\ wire.nextIndex = 0 /\ wire.openIndex = NoIndex
      /\ wire.state = "start" /\ wire \in Wire
  BY <1>1 DEF Init, Wire
<1>3. Synced(wire) /\ Ordered(wire)
  BY <1>1, <1>2 DEF Synced, Ordered
<1>4. TypeOK
  <2>1. EmptyAccumulator \in [named : BOOLEAN, opened : BOOLEAN, pending : Nat]
    BY DEF EmptyAccumulator
  <2>2. tools \in [Calls -> [named : BOOLEAN, opened : BOOLEAN, pending : Nat]]
    BY <2>1 DEF Init
  <2>3. todo \in Seq(Part) /\ reads \in 0 .. MaxChunks
    BY DEF Init
  <2> QED BY <1>2, <2>2, <2>3 DEF Init, TypeOK, Reasons
<1>5. PhaseAgrees
  BY <1>1, <1>2 DEF Init, PhaseAgrees, client
<1>6. View(wire) = <<>>
  BY <1>1, <1>2 DEF View
<1>7. \A c \in Calls : ~tools[c].opened
  BY DEF Init, EmptyAccumulator
<1> QED
  BY <1>1, <1>2, <1>3, <1>4, <1>5, <1>6, <1>7 DEF Init, Inductive, InSync, Message!Init, client

\* What holds of the wire while a stream is being read.
LEMMA ReadingWire ==
  ASSUME Inductive, run # "returned"
  PROVE  /\ wire \in Wire /\ Synced(wire) /\ started \in BOOLEAN /\ finished = FALSE
         /\ client.phase = IF started THEN "streaming" ELSE "waiting"
BY DEF Inductive, InSync, TypeOK, PhaseAgrees

\* The abstract step that an action's effect on the message amounts to.
Refines == [Message!Next]_(Message!vars)

LEMMA SameViewRefines ==
  ASSUME client'.phase = client.phase, View(wire') = View(wire)
  PROVE  Refines
BY DEF Refines, Message!vars, client, View

LEMMA ReadChunkStep ==
  ASSUME Inductive, NEW chunk \in Chunks, ReadChunk(chunk)
  PROVE  Inductive' /\ Refines
<1>1. run = "reading" /\ todo = <<>>
  BY DEF ReadChunk, Reading
<1>2. /\ Live(wire') /\ wire'.state = wire.state
      /\ wire'.client.blocks = wire.client.blocks
  BY <1>1, ReadingWire, StartMessageLive DEF ReadChunk, client
<1>3. chunk \in Chunk
  OBVIOUS
<1>4. Parts(chunk) \in Seq(Part)
  <2>1. chunk.calls \in Seq(ToolCall) BY <1>3 DEF Chunk
  <2>2. [i \in 1 .. Len(chunk.calls) |->
           [source |-> chunk.calls[i].call, named |-> chunk.calls[i].named,
            args |-> chunk.calls[i].args]] \in Seq(Part)
    <3>1. ASSUME NEW i \in 1 .. Len(chunk.calls)
          PROVE  [source |-> chunk.calls[i].call, named |-> chunk.calls[i].named,
                  args |-> chunk.calls[i].args] \in Part
      <4>1. chunk.calls[i] \in ToolCall BY <2>1
      <4> QED BY <4>1 DEF ToolCall, Part, Sources
    <3>2. Len(chunk.calls) \in Nat BY <2>1
    <3> QED BY <3>1, <3>2
  <2>3. /\ [source |-> "reasoning", named |-> FALSE, args |-> TRUE] \in Part
        /\ [source |-> "text", named |-> FALSE, args |-> TRUE] \in Part
    BY DEF Part, Sources
  <2> QED BY <2>2, <2>3 DEF Parts
<1>5. MapStopReason(chunk.finish) \in Reasons
  BY DEF MapStopReason, Reasons
<1>6. chunk.usage \in Reports \cup {"none"}
  BY <1>3 DEF Chunk
<1>7. TypeOK'
  <2>1. stopReason' \in Reasons
    BY <1>5 DEF ReadChunk, RecordFinish, Inductive, TypeOK
  <2>2. usage' \in Reports \cup {"none"}
    BY <1>6 DEF ReadChunk, RecordUsage, Inductive, TypeOK
  <2>3. reads' \in 0 .. MaxChunks
    BY DEF ReadChunk, Inductive, TypeOK
  <2> QED
    BY <1>2, <1>4, <2>1, <2>2, <2>3 DEF ReadChunk, Inductive, TypeOK, Live
<1>8. run' = "reading" /\ ~finished' /\ started' /\ UNCHANGED tools
  BY <1>1, ReadingWire DEF ReadChunk
<1>9. InSync'
  BY <1>2, <1>8 DEF InSync, PhaseAgrees, client, Live
<1>10. Ordered(wire') /\ \A c \in Calls : tools'[c].opened => wire'.state = "tool"
  BY <1>1, <1>2, <1>8 DEF Inductive, Ordered
<1>11. View(wire') = View(wire)
  BY <1>2 DEF View
<1>12. Refines
  <2>1. CASE started
    BY <1>1, <1>2, <1>11, <2>1, ReadingWire, SameViewRefines DEF Live, client
  <2>2. CASE ~started
    BY <1>1, <1>2, <1>11, <2>2, ReadingWire
       DEF Live, client, Refines, Message!Next, Message!Begin
  <2> QED BY <2>1, <2>2
<1> QED
  BY <1>7, <1>8, <1>9, <1>10, <1>12 DEF Inductive

LEMMA HandlePartStep ==
  ASSUME Inductive, HandlePart
  PROVE  Inductive' /\ Refines
<1> DEFINE part == Head(todo)
<1>1. /\ run = "reading" /\ started /\ todo # <<>> /\ todo \in Seq(Part)
      /\ part \in Part /\ Tail(todo) \in Seq(Part)
      /\ finished = FALSE
  BY ReadingWire DEF HandlePart, Inductive, TypeOK
<1>2. Live(wire) /\ Ordered(wire) /\ \A c \in Calls : tools[c].opened => wire.state = "tool"
  BY <1>1, ReadingWire DEF Inductive, Live, client
<1>3. tools \in [Calls -> Accumulator]
  BY DEF Inductive, TypeOK, Accumulator
<1>4. /\ Live(wire') /\ Ordered(wire') /\ Progress(wire, wire')
      /\ tools' \in [Calls -> Accumulator]
      /\ \A c \in Calls : tools'[c].opened => wire'.state = "tool"
  <2>1. CASE part.source = "reasoning"
    <3>1. wire' = AppendReasoning(wire) /\ tools' = tools
      BY <2>1, KindOfSources DEF HandlePart
    <3> QED BY <1>2, <1>3, <3>1, AppendReasoningSafe
  <2>2. CASE part.source = "text"
    <3>1. wire' = AppendText(wire) /\ tools' = tools
      BY <2>2, KindOfSources DEF HandlePart
    <3> QED BY <1>2, <1>3, <3>1, AppendTextSafe
  <2>3. CASE part.source \in Calls
    <3> DEFINE acc == tools[part.source]
    <3>1. wire' = AppendToolCall(wire, acc, part)
      BY <2>3, KindOfSources DEF HandlePart
    <3>2. tools' = [tools EXCEPT ![part.source] = Accumulate(acc, part)]
      BY <2>3 DEF HandlePart
    <3>3. acc \in Accumulator /\ (acc.opened => wire.state = "tool")
      BY <1>2, <1>3, <2>3
    <3> HIDE DEF part, acc
    <3>4. /\ Live(wire') /\ Ordered(wire') /\ Progress(wire, wire')
          /\ wire.state = "tool" => wire'.state = "tool"
          /\ Accumulate(acc, part) \in Accumulator
          /\ Accumulate(acc, part).opened => wire'.state = "tool"
      BY <1>1, <1>2, <2>3, <3>1, <3>3, AppendToolCallSafe
    <3> QED BY <1>2, <1>3, <2>3, <3>2, <3>4
  <2> QED BY <1>1, <2>1, <2>2, <2>3 DEF Part, Sources
<1>5. TypeOK'
  BY <1>1, <1>4 DEF HandlePart, Inductive, TypeOK, Live, Accumulator
<1>6. InSync'
  BY <1>1, <1>4 DEF HandlePart, InSync, PhaseAgrees, client, Live
<1>7. Refines
  <2>1. CASE View(wire') = View(wire)
    BY <1>2, <1>4, <2>1, SameViewRefines DEF Live, client
  <2>2. ASSUME NEW kind \in Message!Kinds,
               \A i \in 1 .. Len(View(wire)) : Message!MayFollow(kind, View(wire)[i].kind),
               View(wire') = Append(Message!Sealed(View(wire)), [kind |-> kind, sealed |-> FALSE])
        PROVE  Refines
    BY <1>2, <1>4, <2>2 DEF Live, client, Refines, Message!Next, Message!OpenBlock
  <2> QED BY <1>2, <1>4, <2>1, <2>2, ProgressView
<1> QED
  BY <1>1, <1>4, <1>5, <1>6, <1>7 DEF HandlePart, Inductive

LEMMA FinishStep ==
  ASSUME Inductive, Finish
  PROVE  Inductive' /\ Refines
<1> DEFINE w == StartMessage(wire, started)
<1>1. run = "reading" /\ todo = <<>> /\ finished = FALSE
  BY ReadingWire DEF Finish, Reading
<1>2. Live(w) /\ w.client.blocks = wire.client.blocks
  BY <1>1, ReadingWire, StartMessageLive DEF client
<1>3. stopReason \in Reasons /\ usage \in Reports \cup {"none"}
  BY DEF Inductive, TypeOK
<1>4. wire' = FinishMessage(w, stopReason, usage)
  BY <1>1 DEF Finish
<1> HIDE DEF w
<1>5. /\ wire' \in Wire /\ Synced(wire') /\ wire'.client.phase = "done"
      /\ Len(wire'.client.blocks) = Len(w.client.blocks)
      /\ \A i \in 1 .. Len(w.client.blocks) :
           /\ wire'.client.blocks[i].source = w.client.blocks[i].source
           /\ wire'.client.blocks[i].sealed
  BY <1>2, <1>3, <1>4, FinishMessageEnds
<1>6. TypeOK' /\ run' = "returned" /\ finished' /\ todo' = <<>>
  BY <1>1, <1>5 DEF Finish, Inductive, TypeOK
<1>7. InSync'
  BY <1>5, <1>6 DEF InSync, PhaseAgrees, client
<1>8. \A i \in 1 .. Len(wire.client.blocks) : wire'.client.blocks[i].sealed = TRUE
  <2>1. wire'.client.blocks \in Seq(Block) BY <1>5 DEF Wire, Client
  <2> QED BY <1>2, <1>5, <2>1 DEF Block
<1>9. View(wire') = Message!Sealed(View(wire))
  BY <1>1, <1>2, <1>5, <1>8, ReadingWire, SealedView
<1>10. Refines
  BY <1>1, <1>5, <1>9, ReadingWire DEF client, Refines, Message!Next, Message!Complete
<1> QED BY <1>6, <1>7, <1>10 DEF Inductive

LEMMA EmitErrorStep ==
  ASSUME Inductive, EmitError
  PROVE  Inductive' /\ Refines
<1>1. run = "failed" /\ todo = <<>> /\ finished = FALSE
  BY ReadingWire DEF EmitError, Inductive
<1>2. wire' = [wire EXCEPT !.client = ErrorEvent(@)]
  BY DEF EmitError
<1>3. /\ wire' \in Wire /\ Synced(wire') /\ wire'.client.phase = "failed"
      /\ wire'.client.blocks = wire.client.blocks
  BY <1>1, <1>2, ReadingWire, ErrorEnds DEF client
<1>4. TypeOK' /\ run' = "returned" /\ ~finished' /\ todo' = <<>>
  BY <1>1, <1>3 DEF EmitError, Inductive, TypeOK
<1>5. InSync'
  BY <1>3, <1>4 DEF InSync, PhaseAgrees, client
<1>6. View(wire') = View(wire)
  BY <1>3 DEF View
<1>7. Refines
  BY <1>1, <1>3, <1>6, ReadingWire DEF client, Refines, Message!Next, Message!Abort
<1> QED BY <1>4, <1>5, <1>7 DEF Inductive

LEMMA ReadFailsStep ==
  ASSUME Inductive, ReadFails
  PROVE  Inductive' /\ Refines
<1>1. /\ run = "reading" /\ run' = "failed" /\ ~finished /\ todo = <<>>
      /\ UNCHANGED <<wire, started, finished, tools, stopReason, usage, todo, reads>>
  BY ReadingWire DEF ReadFails, Reading
<1>2. Synced(wire)' /\ View(wire') = View(wire)
  BY <1>1 DEF Inductive, InSync
<1>3. TypeOK' /\ PhaseAgrees'
  BY <1>1 DEF Inductive, InSync, TypeOK, PhaseAgrees, client
<1>4. Refines
  BY <1>1, <1>2, SameViewRefines DEF client
<1> QED BY <1>1, <1>2, <1>3, <1>4 DEF Inductive, InSync

\* Every step keeps the inductive invariant and is a step of AnthropicMessage
\* or leaves the message as it is.
LEMMA StepInductive == Inductive /\ [Next]_vars => Inductive' /\ Refines
<1> SUFFICES ASSUME Inductive, [Next]_vars PROVE Inductive' /\ Refines
  OBVIOUS
<1>1. ASSUME NEW chunk \in Chunks, ReadChunk(chunk) PROVE Inductive' /\ Refines
  BY <1>1, ReadChunkStep
<1>2. CASE HandlePart BY <1>2, HandlePartStep
<1>3. CASE Finish BY <1>3, FinishStep
<1>4. CASE ReadFails BY <1>4, ReadFailsStep
<1>5. CASE EmitError BY <1>5, EmitErrorStep
<1>6. CASE UNCHANGED vars
  <2>1. Refines BY <1>6, SameViewRefines DEF vars, client
  <2> QED
    BY <1>6, <2>1 DEF vars, Inductive, TypeOK, InSync, PhaseAgrees, client
<1> QED BY <1>1, <1>2, <1>3, <1>4, <1>5, <1>6 DEF Next

\* The inductive invariant holds of every behaviour.
THEOREM InductiveInvariant == Spec => []Inductive
BY InitInductive, StepInductive, PTL DEF Spec

\* Every variable of the translator keeps its type, whatever the upstream sends.
THEOREM TypeCorrect == Spec => []TypeOK
<1>1. Inductive => TypeOK BY DEF Inductive
<1> QED BY <1>1, InductiveInvariant, PTL

\* The translator never sends an event the client cannot accept: its openIndex,
\* nextIndex and state always describe the message the client holds.
THEOREM ClientInSync == Spec => []InSync
<1>1. Inductive => InSync BY DEF Inductive
<1> QED BY <1>1, InductiveInvariant, PTL

\* A translated stream is an Anthropic message: blocks in order, one open at a
\* time, each sealed before the next, and one end.
THEOREM ImplementsMessage == Spec => MessageSpec
<1>1. Init => Message!Init BY InitInductive
<1>2. Inductive /\ [Next]_vars => [Message!Next]_(Message!vars)
  BY StepInductive DEF Refines
<1> QED
  BY <1>1, <1>2, InductiveInvariant, PTL DEF Spec, MessageSpec, Message!Spec

-----------------------------------------------------------------------------
(* Totals of lists of counts, of any length. *)

\* A set of naturals has a least one: induction over data, without an operator.
LEMMA LeastNatural ==
  ASSUME NEW T, T \subseteq Nat, T # {}
  PROVE  \E m \in T : \A n \in T : m <= n
<1>1. \E m \in T : \A n \in T : ~(<<n, m>> \in OpToRel(<, Nat))
  BY NatLessThanWellFounded, WFMin, Zenon
<1>2. PICK m \in T : \A n \in T : ~(<<n, m>> \in OpToRel(<, Nat))
  BY <1>1
<1>3. ASSUME NEW n \in T PROVE m <= n
  <2>1. ~ (<<n, m>> \in OpToRel(<, Nat)) BY <1>2
  <2>2. m \in Nat /\ n \in Nat OBVIOUS
  <2>3. ~(n < m) BY <2>1, <2>2, Zenon DEF OpToRel
  <2> QED BY <2>2, <2>3
<1> QED BY <1>3

\* f holds the totals of the first i elements of s, up to n.
Totals(s, n, f) ==
  f = [i \in 0 .. n |-> IF i = 0 THEN 0 ELSE f[i - 1] + s[i]]

\* There are such totals, or else there is a least n for which there are none.
LEMMA TotalsExist ==
  ASSUME NEW s \in Seq(Nat), NEW n \in 0 .. Len(s)
  PROVE  \E f \in [0 .. n -> Nat] : Totals(s, n, f)
<1> DEFINE T == {m \in 0 .. Len(s) : ~\E f \in [0 .. m -> Nat] : Totals(s, m, f)}
<1>0. Len(s) \in Nat OBVIOUS
<1>1. SUFFICES ASSUME T # {} PROVE FALSE
  OBVIOUS
<1>2. PICK m \in T : \A k \in T : m <= k
  <2>1. T \subseteq Nat OBVIOUS
  <2> HIDE DEF T
  <2> QED BY <1>1, <2>1, LeastNatural
<1>3. m \in Nat /\ m <= Len(s) BY <1>2
<1>4. CASE m = 0
  <2> DEFINE f == [i \in 0 .. 0 |-> 0]
  <2>1. f \in [0 .. 0 -> Nat] /\ Totals(s, 0, f) BY DEF Totals
  <2> HIDE DEF f
  <2> QED BY <1>2, <1>4, <2>1
<1>5. CASE m # 0
  <2>1. m - 1 \in 0 .. Len(s) /\ m - 1 \notin T
    <3>1. m - 1 \in 0 .. Len(s) /\ ~(m <= m - 1) BY <1>0, <1>3, <1>5
    <3> HIDE DEF T
    <3> QED BY <1>2, <3>1
  <2>2. PICK f \in [0 .. m - 1 -> Nat] : Totals(s, m - 1, f)
    BY <2>1
  <2>3. m \in 1 .. Len(s) /\ s[m] \in Nat /\ m - 1 \in 0 .. m - 1 /\ f[m - 1] \in Nat
    BY <1>3, <1>5, <2>2
  <2> DEFINE g == [i \in 0 .. m |-> IF i = m THEN f[m - 1] + s[m] ELSE f[i]]
  <2>4. \A i \in 0 .. m : i # m => i \in 0 .. m - 1
    BY <1>3
  <2>5. g \in [0 .. m -> Nat]
    BY <2>3, <2>4
  <2>6. ASSUME NEW i \in 0 .. m PROVE g[i] = IF i = 0 THEN 0 ELSE g[i - 1] + s[i]
    <3>1. CASE i = m
      BY <1>3, <1>5, <2>3, <3>1
    <3>2. CASE i # m
      <4>1. i \in 0 .. m - 1 BY <2>4, <3>2
      <4>2. g[i] = f[i] BY <3>2
      <4>3. f[i] = IF i = 0 THEN 0 ELSE f[i - 1] + s[i] BY <2>2, <4>1 DEF Totals
      <4>4. i # 0 => i - 1 \in 0 .. m /\ i - 1 # m /\ g[i - 1] = f[i - 1]
        BY <1>3, <4>1
      <4> QED BY <4>2, <4>3, <4>4
    <3> QED BY <3>1, <3>2
  <2>7. Totals(s, m, g)
    <3>1. g = [i \in 0 .. m |-> g[i]] OBVIOUS
    <3> HIDE DEF g
    <3> QED BY <2>6, <3>1 DEF Totals
  <2> HIDE DEF g
  <2> QED BY <1>2, <2>5, <2>7
<1> QED BY <1>4, <1>5

\* A function with the recurrence of the totals has their values.
LEMMA TotalIs ==
  ASSUME NEW s \in Seq(Nat), NEW f, DOMAIN f = 0 .. Len(s), f[0] = 0,
         \A i \in 1 .. Len(s) : f[i] = f[i - 1] + s[i]
  PROVE  Total(s) = f[Len(s)]
<1> DEFINE n == Len(s)
           t == CHOOSE t : Totals(s, n, t)
<1>0. n \in Nat OBVIOUS
<1>1. Total(s) = t[n]
  BY DEF Total, Totals
<1>2. Totals(s, n, t)
  <2>1. \E g : Totals(s, n, g)
    BY <1>0, TotalsExist
  <2> QED BY <2>1
<1> HIDE DEF t
<1>3. \A i \in 0 .. n : t[i] = IF i = 0 THEN 0 ELSE t[i - 1] + s[i]
  BY <1>2 DEF Totals
<1> DEFINE T == {i \in 0 .. n : t[i] # f[i]}
<1>4. T = {}
  <2>1. SUFFICES ASSUME T # {} PROVE FALSE
    OBVIOUS
  <2>2. PICK m \in T : \A k \in T : m <= k
    <3>1. T \subseteq Nat BY <1>0
    <3> HIDE DEF T
    <3> QED BY <2>1, <3>1, LeastNatural
  <2>3. m \in Nat /\ m <= n /\ t[m] # f[m] BY <2>2
  <2>4. m # 0 BY <1>0, <1>3, <2>3
  <2>5. m \in 1 .. n /\ m - 1 \in 0 .. n /\ m - 1 \notin T
    BY <1>0, <2>2, <2>3, <2>4
  <2>6. t[m - 1] = f[m - 1] BY <2>5
  <2>7. t[m] = t[m - 1] + s[m] BY <1>3, <2>3, <2>4
  <2> QED BY <2>3, <2>5, <2>6, <2>7
<1>5. n \in 0 .. n /\ n \notin T BY <1>0, <1>4
<1>6. t[n] = f[n] BY <1>5
<1> QED BY <1>1, <1>6

LEMMA TotalType ==
  ASSUME NEW s \in Seq(Nat)
  PROVE  Total(s) \in Nat
<1>1. Len(s) \in Nat /\ Len(s) \in 0 .. Len(s)
  OBVIOUS
<1>2. PICK f \in [0 .. Len(s) -> Nat] : Totals(s, Len(s), f)
  BY <1>1, TotalsExist
<1>3. /\ DOMAIN f = 0 .. Len(s) /\ f[0] = 0
      /\ \A i \in 1 .. Len(s) : f[i] = f[i - 1] + s[i]
  BY <1>1, <1>2 DEF Totals
<1>4. Total(s) = f[Len(s)]
  BY <1>3, TotalIs
<1> QED BY <1>1, <1>4

\* One count more adds to the total.
LEMMA TotalAppend ==
  ASSUME NEW s \in Seq(Nat), NEW t \in Seq(Nat), NEW n \in Nat,
         Len(t) = Len(s) + 1, t[Len(s) + 1] = n, \A i \in 1 .. Len(s) : t[i] = s[i]
  PROVE  Total(t) = Total(s) + n
<1>1. Len(s) \in Nat /\ Len(t) \in Nat /\ Len(t) \in 0 .. Len(t)
  OBVIOUS
<1>2. PICK f \in [0 .. Len(t) -> Nat] : Totals(t, Len(t), f)
  BY <1>1, TotalsExist
<1>3. \A i \in 0 .. Len(t) : f[i] = IF i = 0 THEN 0 ELSE f[i - 1] + t[i]
  BY <1>2 DEF Totals
<1>4. Total(t) = f[Len(t)]
  <2>1. /\ DOMAIN f = 0 .. Len(t) /\ f[0] = 0
        /\ \A i \in 1 .. Len(t) : f[i] = f[i - 1] + t[i]
    BY <1>1, <1>3
  <2> QED BY <2>1, TotalIs
<1> DEFINE g == [i \in 0 .. Len(s) |-> f[i]]
<1>5. g[0] = 0 /\ \A i \in 1 .. Len(s) : g[i] = g[i - 1] + s[i]
  BY <1>1, <1>3
<1>6. DOMAIN g = 0 .. Len(s) /\ g[Len(s)] = f[Len(s)]
  BY <1>1
<1> HIDE DEF g
<1>7. Total(s) = f[Len(s)]
  BY <1>5, <1>6, TotalIs
<1>8. Len(t) # 0 /\ Len(t) - 1 = Len(s)
  BY <1>1
<1>9. f[Len(t)] = f[Len(s)] + t[Len(t)]
  BY <1>1, <1>3, <1>8
<1> QED BY <1>1, <1>4, <1>7, <1>9

\* And so does a count that grows.
LEMMA TotalGrows ==
  ASSUME NEW s \in Seq(Nat), NEW t \in Seq(Nat), NEW k \in 1 .. Len(s), NEW n \in Nat,
         Len(t) = Len(s), \A i \in 1 .. Len(s) : t[i] = IF i = k THEN s[i] + n ELSE s[i]
  PROVE  Total(t) = Total(s) + n
<1>1. Len(s) \in Nat /\ Len(s) \in 0 .. Len(s) /\ \A i \in 1 .. Len(s) : s[i] \in Nat
  OBVIOUS
<1>2. PICK f \in [0 .. Len(s) -> Nat] : Totals(s, Len(s), f)
  BY <1>1, TotalsExist
<1>3. \A i \in 0 .. Len(s) : f[i] = IF i = 0 THEN 0 ELSE f[i - 1] + s[i]
  BY <1>2 DEF Totals
<1>4. Total(s) = f[Len(s)]
  <2>1. /\ DOMAIN f = 0 .. Len(s) /\ f[0] = 0
        /\ \A i \in 1 .. Len(s) : f[i] = f[i - 1] + s[i]
    BY <1>1, <1>3
  <2> QED BY <2>1, TotalIs
<1> DEFINE g == [i \in 0 .. Len(s) |-> IF i < k THEN f[i] ELSE f[i] + n]
<1>5. g[0] = 0
  BY <1>1, <1>3
<1>6. ASSUME NEW i \in 1 .. Len(t) PROVE g[i] = g[i - 1] + t[i]
  <2>1. i \in 0 .. Len(s) /\ i - 1 \in 0 .. Len(s) /\ f[i] = f[i - 1] + s[i]
    BY <1>1, <1>3
  <2>2. f[i - 1] \in Nat /\ s[i] \in Nat
    BY <1>1, <1>2, <2>1
  <2>3. CASE i < k
    BY <2>1, <2>2, <2>3
  <2>4. CASE i = k
    BY <2>1, <2>2, <2>4
  <2>5. CASE i > k
    BY <2>1, <2>2, <2>5
  <2> QED BY <2>3, <2>4, <2>5
<1>7. DOMAIN g = 0 .. Len(t) /\ g[Len(t)] = f[Len(s)] + n
  BY <1>1
<1> HIDE DEF g
<1>8. Total(t) = g[Len(t)]
  BY <1>5, <1>6, <1>7, TotalIs
<1> QED BY <1>4, <1>7, <1>8

-----------------------------------------------------------------------------
(* What the block operations do to the content of a message. *)

\* The blocks of v hold what those of w held.
Keeps(v, w) ==
  /\ Len(v.client.blocks) = Len(w.client.blocks)
  /\ \A i \in 1 .. Len(w.client.blocks) :
       /\ v.client.blocks[i].source = w.client.blocks[i].source
       /\ v.client.blocks[i].got = w.client.blocks[i].got

\* The open block, and no other, received n fragments of the source.
Receives(v, w, source, n) ==
  /\ w.openIndex + 1 \in 1 .. Len(w.client.blocks)
  /\ v.openIndex = w.openIndex
  /\ Len(v.client.blocks) = Len(w.client.blocks)
  /\ \A i \in 1 .. Len(w.client.blocks) :
       /\ v.client.blocks[i].source = w.client.blocks[i].source
       /\ v.client.blocks[i].got =
            IF i = w.openIndex + 1 THEN [w.client.blocks[i].got EXCEPT ![source] = @ + n]
            ELSE w.client.blocks[i].got

\* A block of the source opened, and received n fragments of it.
Begins(v, w, source, n) ==
  /\ v.openIndex = Len(w.client.blocks)
  /\ Len(v.client.blocks) = Len(w.client.blocks) + 1
  /\ \A i \in 1 .. Len(w.client.blocks) :
       /\ v.client.blocks[i].source = w.client.blocks[i].source
       /\ v.client.blocks[i].got = w.client.blocks[i].got
  /\ v.client.blocks[Len(w.client.blocks) + 1].source = source
  /\ v.client.blocks[Len(w.client.blocks) + 1].got = [NoneGot EXCEPT ![source] = n]

LEMMA LiveBlocks ==
  ASSUME NEW w, Live(w)
  PROVE  /\ w \in Wire /\ w.client \in Client /\ w.client.blocks \in Seq(Block)
         /\ Len(w.client.blocks) \in Nat
         /\ \A i \in 1 .. Len(w.client.blocks) :
              /\ w.client.blocks[i].source \in Sources
              /\ w.client.blocks[i].got \in [Sources -> Nat]
         /\ w.openIndex # NoIndex =>
              /\ w.openIndex + 1 \in 1 .. Len(w.client.blocks)
              /\ KindOf(w.client.blocks[w.openIndex + 1].source) = w.state
<1>1. w \in Wire /\ w.client \in Client /\ w.client.blocks \in Seq(Block)
  BY DEF Live, Wire, Client
<1>2. ASSUME NEW i \in 1 .. Len(w.client.blocks)
      PROVE  /\ w.client.blocks[i].source \in Sources
             /\ w.client.blocks[i].got \in [Sources -> Nat]
  <2>1. w.client.blocks[i] \in Block
    BY <1>1
  <2> QED BY <2>1 DEF Block
<1>3. ASSUME w.openIndex # NoIndex
      PROVE  /\ w.openIndex + 1 \in 1 .. Len(w.client.blocks)
             /\ KindOf(w.client.blocks[w.openIndex + 1].source) = w.state
  BY <1>1, <1>3 DEF Live, Wire, Synced
<1>4. Len(w.client.blocks) \in Nat
  BY <1>1
<1> QED BY <1>1, <1>2, <1>3, <1>4

LEMMA DeltaReceives ==
  ASSUME NEW w, Live(w), w.openIndex # NoIndex,
         NEW source \in Sources, KindOf(source) = w.state, NEW n \in Nat
  PROVE  Receives(Delta(w, source, n), w, source, n)
<1> DEFINE c == w.client
           k == w.openIndex + 1
           b == [c.blocks[k] EXCEPT !.got[source] = @ + n]
           bs == [c.blocks EXCEPT ![k] = b]
           d == BlockDelta(c, w.openIndex, source, n)
           v == Delta(w, source, n)
<1>1. /\ w \in Wire /\ c \in Client /\ c.blocks \in Seq(Block)
      /\ k \in 1 .. Len(c.blocks) /\ c.blocks[k] \in Block
      /\ w.openIndex = c.open /\ c.phase = "streaming"
      /\ KindOf(c.blocks[k].source) = w.state
  BY DEF Live, Wire, Client, Synced
<1>2. d = [c EXCEPT !.blocks = bs]
  BY <1>1 DEF BlockDelta, Accepts
<1>3. /\ b.source = c.blocks[k].source
      /\ b.got = [c.blocks[k].got EXCEPT ![source] = @ + n]
  BY <1>1 DEF Block
<1>4. /\ Len(bs) = Len(c.blocks) /\ bs[k] = b
      /\ \A i \in 1 .. Len(c.blocks) : i # k => bs[i] = c.blocks[i]
  <2> HIDE DEF b
  <2> QED BY <1>1
<1>5. d.blocks = bs
  <2> HIDE DEF bs
  <2> QED BY <1>1, <1>2 DEF Client
<1>6. v.client = d /\ v.openIndex = w.openIndex
  BY <1>1 DEF Delta, Wire
<1> HIDE DEF b, bs, d, v
<1>7. Receives(v, w, source, n)
  BY <1>1, <1>3, <1>4, <1>5, <1>6 DEF Receives
<1> QED BY <1>7 DEF v

LEMMA CloseKeeps ==
  ASSUME NEW w, Live(w)
  PROVE  Keeps(CloseBlock(w), w)
<1> DEFINE c == w.client
           k == w.openIndex + 1
           b == [c.blocks[k] EXCEPT !.sealed = TRUE]
           bs == [c.blocks EXCEPT ![k] = b]
           v == CloseBlock(w)
<1>1. CASE w.openIndex = NoIndex
  BY <1>1 DEF CloseBlock, Keeps
<1>2. CASE w.openIndex # NoIndex
  <2>1. /\ w \in Wire /\ c \in Client /\ c.blocks \in Seq(Block)
        /\ k \in 1 .. Len(c.blocks) /\ c.blocks[k] \in Block
        /\ w.openIndex = c.open /\ c.phase = "streaming" /\ w.openIndex \in Nat
        /\ KindOf(c.blocks[k].source) = w.state
    BY <1>2 DEF Live, Wire, Client, Synced
  <2>2. b.sealed /\ b.source = c.blocks[k].source /\ b.got = c.blocks[k].got
    BY <2>1 DEF Block
  <2>3. /\ Len(bs) = Len(c.blocks) /\ bs[k] = b /\ bs \in Seq(Block)
        /\ \A i \in 1 .. Len(c.blocks) : i # k => bs[i] = c.blocks[i]
    <3>1. b \in Block BY <2>1 DEF Block
    <3> HIDE DEF b
    <3> QED BY <2>1, <3>1
  <2> DEFINE signed == IF w.state = "thinking" THEN SignatureDelta(c, w.openIndex) ELSE c
             d == BlockStop(signed, w.openIndex)
  <2>4. d.blocks = bs
    <3>1. CASE w.state = "thinking"
      <4>1. signed = [c EXCEPT !.blocks = bs]
        BY <2>1, <3>1, KindOfSources DEF SignatureDelta, Accepts
      <4>2. /\ signed.phase = "streaming" /\ signed.open = w.openIndex
            /\ signed.blocks = bs /\ signed \in Client
        <5> HIDE DEF bs, signed
        <5> QED BY <2>1, <2>3, <4>1 DEF Client
      <4>3. d = [signed EXCEPT !.open = NoIndex, !.blocks[k].sealed = TRUE]
        <5> HIDE DEF signed, bs
        <5> QED BY <2>1, <2>2, <2>3, <4>2 DEF BlockStop
      <4>4. [bs EXCEPT ![k].sealed = TRUE] = bs
        <5>1. [b EXCEPT !.sealed = TRUE] = b BY <2>1 DEF Block
        <5> HIDE DEF b
        <5> QED BY <2>1, <2>3, <5>1
      <4> HIDE DEF bs, signed, d
      <4> QED BY <2>1, <4>2, <4>3, <4>4 DEF Client
    <3>2. CASE w.state # "thinking"
      <4>1. d = [c EXCEPT !.open = NoIndex, !.blocks = bs]
        BY <2>1, <3>2 DEF BlockStop
      <4> HIDE DEF bs, d
      <4> QED BY <2>1, <4>1 DEF Client
    <3> QED BY <3>1, <3>2
  <2>5. v.client = d
    BY <2>1 DEF CloseBlock
  <2> HIDE DEF b, bs, d, v
  <2>6. Keeps(v, w)
    BY <2>1, <2>2, <2>3, <2>4, <2>5 DEF Keeps
  <2> QED BY <2>6 DEF v
<1> QED BY <1>1, <1>2

LEMMA NextBegins ==
  ASSUME NEW w, Live(w), NEW source \in Sources
  PROVE  Begins(OpenBlock(CloseBlock(w), source), w, source, 0)
<1> DEFINE u == CloseBlock(w)
           v == OpenBlock(u, source)
<1>1. Live(u) /\ u.openIndex = NoIndex /\ Keeps(u, w)
  BY CloseBlockKeepsLive, CloseKeeps
<1>2. u.nextIndex = Len(u.client.blocks)
  BY <1>1 DEF Live, Synced
<1>3. u.client.blocks \in Seq(Block) /\ w.client.blocks \in Seq(Block)
  BY <1>1, LiveBlocks
<1> HIDE DEF u
<1>4. v.openIndex = u.nextIndex /\ v.client.blocks = Append(u.client.blocks, NewBlock(source))
  BY <1>1, OpenBlockKeepsLive
<1>5. NoneGot = [NoneGot EXCEPT ![source] = 0]
  BY DEF NoneGot
<1>6. NewBlock(source).source = source /\ NewBlock(source).got = [NoneGot EXCEPT ![source] = 0]
  BY <1>5 DEF NewBlock
<1> HIDE DEF v
<1>7. Begins(v, w, source, 0)
  <2> DEFINE us == u.client.blocks
             ws == w.client.blocks
             new == NewBlock(source)
  <2>1. Len(us) = Len(ws) /\ Len(ws) \in Nat
    BY <1>1, <1>3 DEF Keeps
  <2>2. /\ Len(v.client.blocks) = Len(ws) + 1 /\ v.client.blocks[Len(ws) + 1] = new
        /\ \A i \in 1 .. Len(ws) : v.client.blocks[i] = us[i]
    <3> HIDE DEF us, ws, new
    <3>1. us \in Seq(Block) BY <1>3 DEF us
    <3>2. v.client.blocks = Append(us, new) BY <1>4 DEF us, new
    <3> QED BY <2>1, <3>1, <3>2
  <2>3. v.openIndex = Len(ws)
    BY <1>2, <1>4, <2>1
  <2> QED BY <1>1, <1>6, <2>2, <2>3 DEF Begins, Keeps
<1> QED BY <1>7 DEF u, v

LEMMA NextDeltaBegins ==
  ASSUME NEW w, Live(w), NEW source \in Sources, NEW n \in Nat
  PROVE  Begins(Delta(OpenBlock(CloseBlock(w), source), source, n), w, source, n)
<1> DEFINE u == OpenBlock(CloseBlock(w), source)
           v == Delta(u, source, n)
           len == Len(w.client.blocks)
<1>1. Live(u) /\ u.state = KindOf(source) /\ u.openIndex # NoIndex
  BY NextBlock
<1>2. Begins(u, w, source, 0)
  BY NextBegins
<1>3. len \in Nat
  BY LiveBlocks
<1> HIDE DEF u
<1>4. Receives(v, u, source, n)
  BY <1>1, DeltaReceives
<1>5. [[NoneGot EXCEPT ![source] = 0] EXCEPT ![source] = @ + n] = [NoneGot EXCEPT ![source] = n]
  <2> DEFINE none == [NoneGot EXCEPT ![source] = 0]
  <2>1. none[source] = 0
    BY DEF NoneGot
  <2>2. none[source] + n = n
    BY <2>1
  <2>3. [none EXCEPT ![source] = @ + n] = [none EXCEPT ![source] = n]
    BY <2>2
  <2>4. [none EXCEPT ![source] = n] = [NoneGot EXCEPT ![source] = n]
    BY DEF NoneGot
  <2> QED BY <2>3, <2>4
<1> HIDE DEF v
<1>6. \A i \in 1 .. len : i \in 1 .. len + 1 /\ i # len + 1
  BY <1>3
<1>7. len + 1 \in 1 .. len + 1
  BY <1>3
<1>8. Begins(v, w, source, n)
  <2>1. v.openIndex = len /\ Len(v.client.blocks) = len + 1
    BY <1>2, <1>4 DEF Begins, Receives
  <2>2. \A i \in 1 .. len : /\ v.client.blocks[i].source = w.client.blocks[i].source
                           /\ v.client.blocks[i].got = w.client.blocks[i].got
    <3> SUFFICES ASSUME NEW i \in 1 .. len
                 PROVE  /\ v.client.blocks[i].source = w.client.blocks[i].source
                        /\ v.client.blocks[i].got = w.client.blocks[i].got
      OBVIOUS
    <3>1. /\ u.client.blocks[i].source = w.client.blocks[i].source
          /\ u.client.blocks[i].got = w.client.blocks[i].got
          /\ u.openIndex = len /\ Len(u.client.blocks) = len + 1
      BY <1>2 DEF Begins
    <3>2. i \in 1 .. Len(u.client.blocks) /\ i # u.openIndex + 1
      BY <1>6, <3>1
    <3> QED BY <1>4, <3>1, <3>2 DEF Receives
  <2>3. /\ v.client.blocks[len + 1].source = source
        /\ v.client.blocks[len + 1].got = [NoneGot EXCEPT ![source] = n]
    BY <1>2, <1>4, <1>5, <1>7 DEF Begins, Receives
  <2> QED BY <2>1, <2>2, <2>3 DEF Begins
<1> QED BY <1>8 DEF u, v

\* What an operation that handles n fragments of a source does to the content.
Effect(v, w, source, n) ==
  \/ n = 0 /\ Keeps(v, w)
  \/ Receives(v, w, source, n)
  \/ Begins(v, w, source, n)

\* A block of one of these kinds is there.
Holds(w, kinds) ==
  \E i \in 1 .. Len(w.client.blocks) : KindOf(w.client.blocks[i].source) \in kinds

\* Every block holds fragments of its own source.
Own(w) ==
  \A i \in 1 .. Len(w.client.blocks) : \A x \in Sources \ {w.client.blocks[i].source} :
    w.client.blocks[i].got[x] = 0

TotalOf(w, x) == Total(Got(w.client.blocks, x))

LEMMA GotType ==
  ASSUME NEW w, Live(w), NEW x \in Sources
  PROVE  /\ Got(w.client.blocks, x) \in Seq(Nat)
         /\ Len(Got(w.client.blocks, x)) = Len(w.client.blocks)
         /\ \A i \in 1 .. Len(w.client.blocks) :
              Got(w.client.blocks, x)[i] = w.client.blocks[i].got[x]
<1>1. /\ Len(w.client.blocks) \in Nat
      /\ \A i \in 1 .. Len(w.client.blocks) : w.client.blocks[i].got[x] \in Nat
  BY LiveBlocks
<1> QED BY <1>1 DEF Got

LEMMA SameCounts ==
  ASSUME NEW s \in Seq(Nat), NEW t \in Seq(Nat), Len(t) = Len(s),
         \A i \in 1 .. Len(s) : t[i] = s[i]
  PROVE  t = s
OBVIOUS

\* The totals tell what an operation did.
LEMMA EffectTotals ==
  ASSUME NEW w, Live(w), NEW v, Live(v), NEW source \in Sources, NEW n \in Nat,
         Effect(v, w, source, n), NEW x \in Sources
  PROVE  /\ TotalOf(w, x) \in Nat
         /\ TotalOf(v, x) = IF x = source THEN TotalOf(w, x) + n ELSE TotalOf(w, x)
<1> DEFINE s == Got(w.client.blocks, x)
           t == Got(v.client.blocks, x)
           len == Len(w.client.blocks)
           ws == w.client.blocks
           vs == v.client.blocks
<1>1. /\ s \in Seq(Nat) /\ Len(s) = len /\ \A i \in 1 .. len : s[i] = ws[i].got[x]
      /\ t \in Seq(Nat) /\ Len(t) = Len(vs) /\ \A i \in 1 .. Len(vs) : t[i] = vs[i].got[x]
  BY GotType
<1>2. /\ len \in Nat /\ \A i \in 1 .. len : ws[i].got \in [Sources -> Nat]
  BY LiveBlocks
<1>3. Total(s) \in Nat
  BY <1>1, TotalType
<1> HIDE DEF s, t
<1>4. CASE n = 0 /\ Keeps(v, w)
  <2>1. Len(vs) = len /\ \A i \in 1 .. len : t[i] = s[i]
    BY <1>1, <1>4 DEF Keeps
  <2>2. t = s
    BY <1>1, <2>1, SameCounts
  <2> QED BY <1>3, <1>4, <2>2 DEF TotalOf, s, t
<1>5. CASE Receives(v, w, source, n)
  <2> DEFINE k == w.openIndex + 1
  <2>1. k \in 1 .. len /\ Len(vs) = len
    BY <1>5 DEF Receives
  <2>2. ASSUME NEW i \in 1 .. len
        PROVE  t[i] = IF i = k /\ x = source THEN s[i] + n ELSE s[i]
    <3>1. vs[i].got = IF i = k THEN [ws[i].got EXCEPT ![source] = @ + n] ELSE ws[i].got
      BY <1>5 DEF Receives
    <3>2. t[i] = vs[i].got[x] /\ s[i] = ws[i].got[x] /\ ws[i].got \in [Sources -> Nat]
      BY <1>1, <1>2, <2>1
    <3> HIDE DEF k, ws, vs
    <3> QED BY <3>1, <3>2
  <2> HIDE DEF k
  <2>3. CASE x = source
    <3>1. Total(t) = Total(s) + n
      BY <1>1, <2>1, <2>2, <2>3, TotalGrows
    <3> QED BY <1>3, <2>3, <3>1 DEF TotalOf, s, t
  <2>4. CASE x # source
    <3>1. t = s
      BY <1>1, <2>1, <2>2, <2>4, SameCounts
    <3> QED BY <1>3, <2>4, <3>1 DEF TotalOf, s, t
  <2> QED BY <2>3, <2>4
<1>6. CASE Begins(v, w, source, n)
  <2> DEFINE m == IF x = source THEN n ELSE 0
  <2>1. Len(vs) = len + 1 /\ \A i \in 1 .. len : vs[i].got = ws[i].got
    BY <1>6 DEF Begins
  <2>2. vs[len + 1].got = [NoneGot EXCEPT ![source] = n]
    BY <1>6 DEF Begins
  <2>3. vs[len + 1].got[x] = m
    BY <2>2 DEF NoneGot
  <2>4. len + 1 \in 1 .. Len(vs) /\ \A i \in 1 .. len : i \in 1 .. Len(vs)
    BY <1>2, <2>1
  <2>5. Len(t) = Len(s) + 1 /\ t[Len(s) + 1] = m /\ \A i \in 1 .. Len(s) : t[i] = s[i]
    BY <1>1, <2>1, <2>3, <2>4
  <2>6. m \in Nat OBVIOUS
  <2> HIDE DEF m
  <2>7. Total(t) = Total(s) + m
    BY <1>1, <2>5, <2>6, TotalAppend
  <2> QED BY <1>3, <2>7 DEF TotalOf, s, t, m
<1> QED BY <1>4, <1>5, <1>6 DEF Effect

\* Blocks do not go away.
LEMMA EffectHolds ==
  ASSUME NEW w, Live(w), NEW v, Live(v), NEW source \in Sources, NEW n \in Nat,
         Effect(v, w, source, n), NEW kinds, Holds(w, kinds)
  PROVE  Holds(v, kinds)
<1>1. PICK i \in 1 .. Len(w.client.blocks) : KindOf(w.client.blocks[i].source) \in kinds
  BY DEF Holds
<1>2. Len(w.client.blocks) \in Nat
  BY LiveBlocks
<1>3. i \in 1 .. Len(v.client.blocks) /\ v.client.blocks[i].source = w.client.blocks[i].source
  <2>1. CASE Keeps(v, w)
    BY <1>1, <2>1 DEF Keeps
  <2>2. CASE Receives(v, w, source, n)
    BY <1>1, <2>2 DEF Receives
  <2>3. CASE Begins(v, w, source, n)
    BY <1>1, <1>2, <2>3 DEF Begins
  <2> QED BY <2>1, <2>2, <2>3 DEF Effect
<1> QED BY <1>1, <1>3 DEF Holds

\* Blocks stay pure as long as the open one receives what it is for.
LEMMA EffectOwn ==
  ASSUME NEW w, Live(w), NEW v, Live(v), NEW source \in Sources, NEW n \in Nat,
         Effect(v, w, source, n), Own(w),
         \/ Keeps(v, w)
         \/ Receives(v, w, source, n) => w.client.blocks[w.openIndex + 1].source = source
  PROVE  Own(v)
<1> SUFFICES ASSUME NEW i \in 1 .. Len(v.client.blocks),
                    NEW x \in Sources \ {v.client.blocks[i].source}
             PROVE  v.client.blocks[i].got[x] = 0
  BY DEF Own
<1> DEFINE ws == w.client.blocks
           vs == v.client.blocks
           len == Len(ws)
<1>1. /\ len \in Nat /\ \A j \in 1 .. len : ws[j].got \in [Sources -> Nat]
  BY LiveBlocks
<1>2. \A j \in 1 .. len : \A y \in Sources \ {ws[j].source} : ws[j].got[y] = 0
  BY DEF Own
<1>3. CASE Keeps(v, w)
  BY <1>2, <1>3 DEF Keeps
<1>4. CASE ~Keeps(v, w) /\ Receives(v, w, source, n)
  <2>1. i \in 1 .. len /\ vs[i].source = ws[i].source
    BY <1>4 DEF Receives
  <2>2. vs[i].got = IF i = w.openIndex + 1 THEN [ws[i].got EXCEPT ![source] = @ + n]
                    ELSE ws[i].got
    BY <1>4, <2>1 DEF Receives
  <2>3. ws[i].got[x] = 0 /\ ws[i].got \in [Sources -> Nat]
    BY <1>1, <1>2, <2>1
  <2>4. i = w.openIndex + 1 => x # source
    BY <1>4, <2>1
  <2> HIDE DEF ws, vs, len
  <2>5. vs[i].got[x] = 0
    BY <2>2, <2>3, <2>4
  <2> QED BY <2>5 DEF vs
<1>5. CASE Begins(v, w, source, n)
  <2>1. CASE i \in 1 .. len
    <3>1. vs[i].source = ws[i].source /\ vs[i].got = ws[i].got
      BY <1>5, <2>1 DEF Begins
    <3> HIDE DEF ws, vs, len
    <3>2. x \in Sources \ {ws[i].source}
      BY <3>1 DEF vs
    <3>3. vs[i].got[x] = 0
      BY <1>2, <2>1, <3>1, <3>2
    <3> QED BY <3>3 DEF vs
  <2>2. CASE i = len + 1
    <3>1. vs[i].source = source /\ vs[i].got = [NoneGot EXCEPT ![source] = n]
      BY <1>5, <2>2 DEF Begins
    <3>2. x # source
      BY <3>1
    <3> HIDE DEF vs
    <3>3. vs[i].got[x] = 0
      BY <3>1, <3>2 DEF NoneGot
    <3> QED BY <3>3 DEF vs
  <2>3. Len(vs) = len + 1
    BY <1>5 DEF Begins
  <2> QED BY <1>1, <2>1, <2>2, <2>3
<1> QED BY <1>3, <1>4, <1>5 DEF Effect

-----------------------------------------------------------------------------
(* What the append functions do to it. *)

\* A block is open unless nothing has begun.
LEMMA OpenState ==
  ASSUME NEW w, Live(w), w.state # "start"
  PROVE  w.openIndex # NoIndex /\ Holds(w, {w.state})
<1>1. w.openIndex # NoIndex
  BY DEF Live, Synced
<1>2. /\ w.openIndex + 1 \in 1 .. Len(w.client.blocks)
      /\ KindOf(w.client.blocks[w.openIndex + 1].source) = w.state
  BY <1>1, LiveBlocks
<1> QED BY <1>1, <1>2 DEF Holds

LEMMA KeepsItself == \A w : Keeps(w, w)
BY DEF Keeps

LEMMA AppendReasoningContent ==
  ASSUME NEW w, Live(w)
  PROVE  LET v == AppendReasoning(w)
         IN  \/ v = w /\ Holds(w, {"text", "tool"})
             \/ w.state = "thinking" /\ Receives(v, w, "reasoning", 1)
             \/ Begins(v, w, "reasoning", 1)
<1>0. w.state \in Kinds \cup {"start"} /\ "reasoning" \in Sources
  BY DEF Live, Wire, Sources
<1>1. CASE w.state \in {"text", "tool"}
  <2>1. Holds(w, {w.state})
    BY <1>1, OpenState
  <2> QED BY <1>1, <2>1 DEF AppendReasoning, Holds
<1>2. CASE w.state = "thinking"
  BY <1>0, <1>2, OpenState, DeltaReceives, KindOfSources DEF AppendReasoning
<1>3. CASE w.state = "start"
  BY <1>0, <1>3, NextDeltaBegins DEF AppendReasoning
<1> QED BY <1>0, <1>1, <1>2, <1>3 DEF Kinds

LEMMA AppendTextContent ==
  ASSUME NEW w, Live(w)
  PROVE  LET v == AppendText(w)
         IN  \/ v = w /\ Holds(w, {"tool"})
             \/ w.state = "text" /\ Receives(v, w, "text", 1)
             \/ Begins(v, w, "text", 1)
<1>0. "text" \in Sources
  BY DEF Sources
<1>1. CASE w.state = "tool"
  BY <1>1, OpenState DEF AppendText
<1>2. CASE w.state = "text"
  BY <1>0, <1>2, OpenState, DeltaReceives, KindOfSources DEF AppendText
<1>3. CASE w.state \notin {"tool", "text"}
  BY <1>0, <1>3, NextDeltaBegins DEF AppendText
<1> QED BY <1>1, <1>2, <1>3


\* The fragments of a call are delivered to its open block, held, or open its block.
LEMMA AppendToolCallContent ==
  ASSUME NEW w, Live(w), NEW acc \in Accumulator, NEW part \in Part,
         part.source \in Calls, acc.opened => w.state = "tool"
  PROVE  LET v == AppendToolCall(w, acc, part)
             a == Accumulate(acc, part)
         IN  \/ /\ acc.opened /\ a.opened /\ a.pending = acc.pending
                /\ IF part.args THEN Receives(v, w, part.source, 1) ELSE v = w
             \/ ~acc.opened /\ ~a.opened /\ v = w /\ a.pending = acc.pending + Size(part)
             \/ /\ ~acc.opened /\ a.opened /\ a.pending = 0
                /\ acc.pending + Size(part) \in Nat
                /\ Begins(v, w, part.source, acc.pending + Size(part))
<1> DEFINE v == AppendToolCall(w, acc, part)
           a == Accumulate(acc, part)
           source == part.source
<1>0. /\ source \in Sources /\ KindOf(source) = "tool" /\ Size(part) \in Nat
      /\ acc.pending + Size(part) \in Nat
  BY KindOfSources DEF Sources, Size, Accumulator
<1>1. CASE acc.opened
  <2>1. a = Named(acc, part) BY <1>1 DEF Accumulate
  <2>2. a.opened /\ a.pending = acc.pending
    BY <1>1, <2>1 DEF Named, Accumulator
  <2>3. v = IF part.args THEN Delta(w, source, 1) ELSE w BY <1>1 DEF AppendToolCall
  <2>4. part.args => Receives(v, w, source, 1)
    BY <1>0, <1>1, <2>3, OpenState, DeltaReceives
  <2> QED BY <1>1, <2>2, <2>3, <2>4
<1>2. CASE ~acc.opened /\ ~Named(acc, part).named
  <2>1. v = w BY <1>2 DEF AppendToolCall
  <2>2. a = [acc EXCEPT !.pending = @ + Size(part)] BY <1>2 DEF Accumulate
  <2>3. ~a.opened /\ a.pending = acc.pending + Size(part)
    BY <1>2, <2>2 DEF Accumulator
  <2> QED BY <1>2, <2>1, <2>3
<1>3. CASE ~acc.opened /\ Named(acc, part).named
  <2> DEFINE held == acc.pending + Size(part)
             opened == OpenBlock(CloseBlock(w), source)
  <2>1. v = IF held > 0 THEN Delta(opened, source, held) ELSE opened
    BY <1>3 DEF AppendToolCall
  <2>2. a.opened /\ a.pending = 0
    BY <1>3 DEF Accumulate
  <2>3. held \in Nat /\ (~(held > 0) => held = 0)
    BY <1>0
  <2>4. Begins(v, w, source, held)
    <3>1. CASE held > 0
      BY <1>0, <2>1, <2>3, <3>1, NextDeltaBegins
    <3>2. CASE ~(held > 0)
      BY <1>0, <2>1, <2>3, <3>2, NextBegins
    <3> QED BY <3>1, <3>2
  <2> QED BY <1>3, <2>2, <2>3, <2>4
<1> QED BY <1>1, <1>2, <1>3

-----------------------------------------------------------------------------
\* What the upstream has sent.
Heard == [sent : [Sources -> Nat], last : Calls \cup {"none"}, interleaved : BOOLEAN,
          finish : FinishReasons \cup {"none"}, usage : Reports \cup {"none"}]

\* A call's fragments are delivered or held.  Reasoning and text are delivered, as long
\* as no block is there that bars them.
CallsAccounted == \A c \in Calls : Delivered(c) + tools[c].pending = heard.sent[c]

ContentAccounted(source, bars) ==
  /\ Delivered(source) <= heard.sent[source]
  /\ Delivered(source) < heard.sent[source] => HasBlock(bars)

\* The open block is the one of the call whose fragments are arriving.
OpenIsLast ==
  run = "reading" /\ heard.last \in Calls /\ tools[heard.last].opened =>
    wire.openIndex # NoIndex /\ client.blocks[wire.openIndex + 1].source = heard.last

\* What is to be reported of the upstream is what it sent last.
ReportIsHeard == stopReason = MapStopReason(heard.finish) /\ usage = heard.usage

\* Fragments of reasoning and of text are never empty.
NoEmptyContent ==
  \A i \in 1 .. Len(todo) : todo[i].source \in {"reasoning", "text"} => todo[i].args

\* The inductive invariant, next to Inductive.
ContentInv ==
  /\ heard \in Heard
  /\ NoEmptyContent
  /\ CallsAccounted
  /\ ContentAccounted("reasoning", {"text", "tool"})
  /\ ContentAccounted("text", {"tool"})
  /\ heard.interleaved \/ (OwnFragmentsOnly /\ OpenIsLast)
  /\ ReportIsHeard
  /\ ClosingReport

-----------------------------------------------------------------------------
(* The specification. *)

LEMMA InitContent == Init => ContentInv
<1> SUFFICES ASSUME Init PROVE ContentInv
  OBVIOUS
<1>1. /\ heard = [sent |-> [x \in Sources |-> 0], last |-> "none", interleaved |-> FALSE,
                  finish |-> "none", usage |-> "none"]
      /\ client.blocks = <<>> /\ client.phase = "waiting" /\ todo = <<>>
      /\ stopReason = "end_turn" /\ usage = "none"
      /\ tools = [c \in Calls |-> EmptyAccumulator]
  BY DEF Init, client, Fresh
<1>2. heard \in Heard
  BY <1>1 DEF Heard
<1>3. \A x \in Sources : Delivered(x) = 0 /\ heard.sent[x] = 0
  <2>1. \A x \in Sources : Got(client.blocks, x) = <<>>
    BY <1>1 DEF Got
  <2>2. Total(<<>>) = 0
    <3> DEFINE f == [i \in 0 .. 0 |-> 0]
    <3>1. DOMAIN f = 0 .. Len(<<>>) /\ f[0] = 0 /\ f[Len(<<>>)] = 0
      OBVIOUS
    <3>2. \A i \in 1 .. Len(<<>>) : f[i] = f[i - 1] + <<>>[i]
      OBVIOUS
    <3> HIDE DEF f
    <3> QED BY <3>1, <3>2, TotalIs
  <2> QED BY <1>1, <2>1, <2>2 DEF Delivered
<1>4. CallsAccounted
  <2>1. \A c \in Calls : tools[c].pending = 0 /\ c \in Sources
    BY <1>1 DEF EmptyAccumulator, Sources
  <2>2. \A c \in Calls : Delivered(c) = 0 /\ heard.sent[c] = 0
    BY <1>3, <2>1
  <2>3. ASSUME NEW c \in Calls
        PROVE  Delivered(c) + tools[c].pending = heard.sent[c]
    <3>1. Delivered(c) = 0 /\ tools[c].pending = 0 /\ heard.sent[c] = 0
      BY <2>1, <2>2
    <3> QED BY <3>1
  <2> QED BY <2>3 DEF CallsAccounted
<1>5. \A bars : ContentAccounted("reasoning", bars) /\ ContentAccounted("text", bars)
  BY <1>3 DEF ContentAccounted, Sources
<1>6. OwnFragmentsOnly /\ OpenIsLast
  BY <1>1 DEF OwnFragmentsOnly, OpenIsLast
<1>7. ReportIsHeard /\ ClosingReport /\ NoEmptyContent
  BY <1>1 DEF ReportIsHeard, ClosingReport, NoEmptyContent, MapStopReason
<1> QED BY <1>2, <1>4, <1>5, <1>6, <1>7 DEF ContentInv

\* Steps that keep the blocks and what was sent keep the accounts.
LEMMA ContentStays ==
  ASSUME Inductive, ContentInv, Keeps(wire', wire),
         UNCHANGED tools, heard'.sent = heard.sent
  PROVE  /\ CallsAccounted' /\ ContentAccounted("reasoning", {"text", "tool"})'
         /\ ContentAccounted("text", {"tool"})'
         /\ OwnFragmentsOnly => OwnFragmentsOnly'
<1>1. wire \in Wire /\ client.blocks \in Seq(Block) /\ Len(client.blocks) \in Nat
  BY DEF Inductive, TypeOK, Wire, Client, client
<1>2. \A x \in Sources : Delivered(x)' = Delivered(x)
  <2>1. \A x \in Sources : Got(client.blocks, x)' = Got(client.blocks, x)
    BY <1>1 DEF Keeps, Got, client
  <2> QED BY <2>1 DEF Delivered, client
<1>3. \A kinds : HasBlock(kinds) => HasBlock(kinds)'
  BY <1>1 DEF HasBlock, Keeps, client
<1>4. OwnFragmentsOnly => OwnFragmentsOnly'
  BY <1>1 DEF OwnFragmentsOnly, Keeps, client
<1>5. CallsAccounted'
  BY <1>2 DEF ContentInv, CallsAccounted, Sources
<1>6. /\ ContentAccounted("reasoning", {"text", "tool"})'
      /\ ContentAccounted("text", {"tool"})'
  BY <1>2, <1>3 DEF ContentInv, ContentAccounted, Sources
<1> QED BY <1>4, <1>5, <1>6

LEMMA ReadChunkContent ==
  ASSUME Inductive, ContentInv, NEW chunk \in Chunks, ReadChunk(chunk)
  PROVE  ContentInv'
<1>1. run = "reading" /\ todo = <<>>
  BY DEF ReadChunk, Reading
<1>2. /\ Live(wire') /\ wire'.client.blocks = wire.client.blocks
      /\ wire'.openIndex = wire.openIndex
  <2>1. Live(wire') /\ wire'.client.blocks = wire.client.blocks
    BY <1>1, ReadingWire, StartMessageLive DEF ReadChunk, client
  <2>2. wire'.openIndex = wire.openIndex
    BY <1>1, ReadingWire DEF ReadChunk, StartMessage, Wire
  <2> QED BY <2>1, <2>2
<1>3. chunk \in Chunk
  OBVIOUS
<1>4. /\ heard' \in Heard /\ heard'.sent = heard.sent /\ heard'.last = heard.last
      /\ heard'.interleaved = heard.interleaved
      /\ heard'.finish = IF chunk.finish = "none" THEN heard.finish ELSE chunk.finish
      /\ heard'.usage = IF chunk.usage = "none" THEN heard.usage ELSE chunk.usage
  BY <1>3 DEF ReadChunk, ContentInv, Heard, Chunk
<1>5. UNCHANGED <<tools, run>>
  BY DEF ReadChunk
<1>6. /\ CallsAccounted' /\ ContentAccounted("reasoning", {"text", "tool"})'
      /\ ContentAccounted("text", {"tool"})'
      /\ OwnFragmentsOnly => OwnFragmentsOnly'
  BY <1>2, <1>4, <1>5, ContentStays DEF Keeps
<1>7. OpenIsLast => OpenIsLast'
  BY <1>2, <1>4, <1>5 DEF OpenIsLast, client
<1>8. ReportIsHeard'
  BY <1>4 DEF ContentInv, ReportIsHeard, ReadChunk, RecordFinish, RecordUsage
<1>9. ClosingReport'
  BY <1>2 DEF ClosingReport, Live, client
<1>10. NoEmptyContent'
  <2>1. todo' = Parts(chunk)
    BY DEF ReadChunk
  <2>2. chunk.calls \in Seq(ToolCall)
    BY <1>3 DEF Chunk
  <2> DEFINE calls == [i \in 1 .. Len(chunk.calls) |->
                        [source |-> chunk.calls[i].call, named |-> chunk.calls[i].named,
                         args |-> chunk.calls[i].args]]
             reasoning == <<[source |-> "reasoning", named |-> FALSE, args |-> TRUE]>>
             text == <<[source |-> "text", named |-> FALSE, args |-> TRUE]>>
  <2>3. \A i \in 1 .. Len(chunk.calls) :
          calls[i].source \notin {"reasoning", "text"} /\ calls[i] \in Part
    <3> SUFFICES ASSUME NEW i \in 1 .. Len(chunk.calls)
                 PROVE  calls[i].source \notin {"reasoning", "text"} /\ calls[i] \in Part
      OBVIOUS
    <3>1. chunk.calls[i] \in ToolCall
      BY <2>2
    <3>2. /\ chunk.calls[i].call \in Calls /\ chunk.calls[i].named \in BOOLEAN
          /\ chunk.calls[i].args \in BOOLEAN
      BY <3>1 DEF ToolCall
    <3> QED BY <3>2, KindOfSources DEF Part, Sources
  <2>4. calls \in Seq(Part) /\ Len(calls) = Len(chunk.calls)
    <3>1. Len(chunk.calls) \in Nat BY <2>2
    <3>2. calls = [i \in 1 .. Len(chunk.calls) |-> calls[i]]
      OBVIOUS
    <3>3. \A i \in 1 .. Len(chunk.calls) : calls[i] \in Part
      BY <2>3
    <3> HIDE DEF calls
    <3> QED BY <3>1, <3>2, <3>3
  <2>5. \A i \in 1 .. Len(reasoning) : reasoning[i].args
    OBVIOUS
  <2>6. \A i \in 1 .. Len(text) : text[i].args
    OBVIOUS
  <2>7. reasoning \in Seq(Part) /\ text \in Seq(Part)
    BY DEF Part, Sources
  <2>8. Parts(chunk) = (IF chunk.reasoning THEN reasoning ELSE <<>>)
                       \o (IF chunk.content THEN text ELSE <<>>) \o calls
    BY DEF Parts
  <2> HIDE DEF calls, reasoning, text
  <2> DEFINE first == IF chunk.reasoning THEN reasoning ELSE <<>>
             second == IF chunk.content THEN text ELSE <<>>
  <2>9. /\ first \in Seq(Part) /\ second \in Seq(Part)
        /\ \A i \in 1 .. Len(first) : first[i].args
        /\ \A i \in 1 .. Len(second) : second[i].args
    BY <2>5, <2>6, <2>7
  <2> HIDE DEF first, second
  <2>10. \A i \in 1 .. Len(first \o second) : (first \o second)[i].args
    BY <2>9
  <2>11. first \o second \in Seq(Part)
    BY <2>9
  <2>12. \A i \in 1 .. Len((first \o second) \o calls) :
           ((first \o second) \o calls)[i].source \in {"reasoning", "text"} =>
             ((first \o second) \o calls)[i].args
    <3> DEFINE both == first \o second
    <3>1. both \in Seq(Part) /\ \A i \in 1 .. Len(both) : both[i].args
      BY <2>10, <2>11
    <3> HIDE DEF both
    <3>2. \A i \in 1 .. Len(both \o calls) :
            (both \o calls)[i].source \in {"reasoning", "text"} => (both \o calls)[i].args
      BY <2>3, <2>4, <3>1
    <3> QED BY <3>2 DEF both
  <2> QED BY <2>1, <2>8, <2>12 DEF NoEmptyContent, first, second
<1> QED
  BY <1>4, <1>6, <1>7, <1>8, <1>9, <1>10 DEF ContentInv

\* Fragments that are delivered in full, or barred, leave the account of a source in order.
LEMMA ContentStep ==
  ASSUME Live(wire), Live(wire'), NEW source \in Sources, NEW n \in Nat, NEW m \in Nat,
         Effect(wire', wire, source, n),
         heard.sent \in [Sources -> Nat], heard'.sent = [heard.sent EXCEPT ![source] = @ + m],
         NEW x \in Sources, NEW bars, ContentAccounted(x, bars),
         x = source => n = m \/ (n = 0 /\ Holds(wire, bars))
  PROVE  ContentAccounted(x, bars)'
<1> DEFINE d == Delivered(x)
           h == heard.sent[x]
<1>1. /\ d \in Nat
      /\ d' = IF x = source THEN d + n ELSE d
  BY EffectTotals DEF Delivered, TotalOf, client
<1>2. /\ h \in Nat
      /\ h' = IF x = source THEN h + m ELSE h
  OBVIOUS
<1>3. HasBlock(bars) => HasBlock(bars)'
  <2>1. Holds(wire, bars) => Holds(wire', bars)
    BY EffectHolds
  <2> QED BY <2>1 DEF Holds, HasBlock, client
<1>4. d <= h /\ (d < h => HasBlock(bars))
  BY DEF ContentAccounted
<1>5. Holds(wire, bars) => HasBlock(bars)
  BY DEF Holds, HasBlock, client
<1> HIDE DEF d, h
<1>6. d' <= h' /\ (d' < h' => HasBlock(bars)')
  BY <1>1, <1>2, <1>3, <1>4, <1>5
<1> QED BY <1>6 DEF ContentAccounted, d, h

\* What is delivered of the calls and what is held for them.
LEMMA CallsStep ==
  ASSUME Live(wire), Live(wire'), NEW source \in Sources, NEW n \in Nat, NEW m \in Nat,
         Effect(wire', wire, source, n), CallsAccounted,
         heard.sent \in [Sources -> Nat], heard'.sent = [heard.sent EXCEPT ![source] = @ + m],
         tools \in [Calls -> Accumulator],
         \A c \in Calls : c # source => tools'[c] = tools[c],
         source \in Calls => tools'[source].pending \in Nat
                             /\ tools'[source].pending + n = tools[source].pending + m
  PROVE  CallsAccounted'
<1> SUFFICES ASSUME NEW c \in Calls
             PROVE  Delivered(c)' + tools'[c].pending = heard'.sent[c]
  BY DEF CallsAccounted
<1> DEFINE d == Delivered(c)
           h == heard.sent[c]
           p == tools[c].pending
<1>0. c \in Sources
  BY DEF Sources
<1>1. d \in Nat /\ d' = IF c = source THEN d + n ELSE d
  BY <1>0, EffectTotals DEF Delivered, TotalOf, client
<1>2. h \in Nat /\ h' = IF c = source THEN h + m ELSE h
  BY <1>0
<1>3. p \in Nat /\ d + p = h
  BY DEF CallsAccounted, Accumulator
<1>4. IF c = source THEN p' \in Nat /\ p' + n = p + m ELSE p' = p
  OBVIOUS
<1> HIDE DEF d, h, p
<1>5. d' + p' = h'
  BY <1>1, <1>2, <1>3, <1>4
<1> QED BY <1>5 DEF d, h, p

LEMMA HandlePartContent ==
  ASSUME Inductive, ContentInv, HandlePart
  PROVE  ContentInv'
<1> DEFINE part == Head(todo)
           source == part.source
           size == Size(part)
<1>1. /\ run = "reading" /\ started /\ todo # <<>> /\ todo \in Seq(Part)
      /\ part \in Part /\ Tail(todo) \in Seq(Part) /\ part = todo[1] /\ 1 \in 1 .. Len(todo)
      /\ finished = FALSE
  BY ReadingWire DEF HandlePart, Inductive, TypeOK
<1>2. /\ Live(wire) /\ \A c \in Calls : tools[c].opened => wire.state = "tool"
      /\ tools \in [Calls -> Accumulator]
  BY <1>1, ReadingWire DEF Inductive, Live, client, TypeOK, Accumulator
<1>3. Inductive' /\ run' = "reading" /\ started' /\ finished' = FALSE
  BY <1>1, HandlePartStep DEF HandlePart
<1>4. Live(wire')
  BY <1>3 DEF Inductive, InSync, TypeOK, PhaseAgrees, Live, client
<1>5. source \in Sources /\ size \in Nat
  BY <1>1 DEF Part, Size
<1>6. /\ heard.sent \in [Sources -> Nat]
      /\ heard'.sent = [heard.sent EXCEPT ![source] = @ + size]
      /\ heard'.last = IF source \in Calls THEN source ELSE heard.last
      /\ heard'.interleaved =
           \/ heard.interleaved
           \/ source \in Calls /\ source # heard.last /\ tools[source] # EmptyAccumulator
      /\ heard'.finish = heard.finish /\ heard'.usage = heard.usage
      /\ heard' \in Heard
  <2>1. heard \in Heard
    BY DEF ContentInv
  <2>2. /\ heard.sent \in [Sources -> Nat] /\ heard.last \in Calls \cup {"none"}
        /\ heard.interleaved \in BOOLEAN
    BY <2>1 DEF Heard
  <2> DEFINE sent == [heard.sent EXCEPT ![source] = @ + size]
             last == IF source \in Calls THEN source ELSE heard.last
             interleaved == \/ heard.interleaved
                            \/ /\ source \in Calls
                               /\ source # heard.last
                               /\ tools[source] # EmptyAccumulator
  <2>3. sent \in [Sources -> Nat] /\ last \in Calls \cup {"none"} /\ interleaved \in BOOLEAN
    BY <1>5, <2>2
  <2>4. heard' = [heard EXCEPT !.sent = sent, !.last = last, !.interleaved = interleaved]
    BY DEF HandlePart, Hear
  <2> HIDE DEF sent, last, interleaved
  <2>5. /\ heard'.sent = sent /\ heard'.last = last /\ heard'.interleaved = interleaved
        /\ heard'.finish = heard.finish /\ heard'.usage = heard.usage
        /\ heard' \in Heard
    BY <2>1, <2>3, <2>4 DEF Heard
  <2> QED BY <2>2, <2>5 DEF sent, last, interleaved
<1>7. NoEmptyContent'
  <2>1. todo' = Tail(todo)
    BY DEF HandlePart
  <2>2. \A i \in 1 .. Len(todo') : i + 1 \in 1 .. Len(todo) /\ todo'[i] = todo[i + 1]
    BY <1>1, <2>1
  <2> QED BY <2>2 DEF ContentInv, NoEmptyContent
<1>8. ReportIsHeard' /\ ClosingReport'
  <2>1. ReportIsHeard'
    BY <1>6 DEF HandlePart, ContentInv, ReportIsHeard
  <2>2. ClosingReport'
    BY <1>4 DEF ClosingReport, Live, client
  <2> QED BY <2>1, <2>2
\* What remains is the accounts, and the blocks' being pure.
<1>9. SUFFICES /\ CallsAccounted'
               /\ ContentAccounted("reasoning", {"text", "tool"})'
               /\ ContentAccounted("text", {"tool"})'
               /\ heard'.interleaved \/ (Own(wire') /\ OpenIsLast')
  BY <1>6, <1>7, <1>8 DEF ContentInv, OwnFragmentsOnly, Own, client
<1>10. /\ CallsAccounted /\ ContentAccounted("reasoning", {"text", "tool"})
       /\ ContentAccounted("text", {"tool"})
       /\ heard.interleaved \/ (Own(wire) /\ OpenIsLast)
  BY DEF ContentInv, OwnFragmentsOnly, Own, client
<1>11. /\ "reasoning" \in Sources /\ "text" \in Sources
       /\ \A c \in Calls : c # "reasoning" /\ c # "text"
  BY KindOfSources DEF Sources
<1>12. \A y \in Sources : /\ KindOf(y) = "thinking" => y = "reasoning"
                          /\ KindOf(y) = "text" => y = "text"
  BY KindOfSources DEF Sources
<1>13. wire.openIndex # NoIndex =>
         LET open == wire.client.blocks[wire.openIndex + 1].source
         IN  open \in Sources /\ KindOf(open) = wire.state
  BY <1>2, LiveBlocks
<1>14. source \in {"reasoning", "text"} => size = 1
  BY <1>1 DEF ContentInv, NoEmptyContent, Size
<1> HIDE DEF part, source, size
\* Reasoning or text was handled: n fragments of it were delivered.
<1>15. ASSUME source \in {"reasoning", "text"}, tools' = tools,
              NEW n \in Nat, Effect(wire', wire, source, n),
              n = 1 \/ (n = 0 /\ Holds(wire, IF source = "text" THEN {"tool"} ELSE {"text", "tool"})),
              wire.state = "tool" => wire' = wire,
              \/ Keeps(wire', wire)
              \/ Receives(wire', wire, source, n) => KindOf(source) = wire.state
       PROVE  /\ CallsAccounted'
              /\ ContentAccounted("reasoning", {"text", "tool"})'
              /\ ContentAccounted("text", {"tool"})'
              /\ heard'.interleaved \/ (Own(wire') /\ OpenIsLast')
  <2>1. CallsAccounted'
    BY <1>2, <1>4, <1>5, <1>6, <1>10, <1>11, <1>15, CallsStep
  <2>2. ContentAccounted("reasoning", {"text", "tool"})'
    BY <1>2, <1>4, <1>5, <1>6, <1>10, <1>11, <1>14, <1>15, ContentStep
  <2>3. ContentAccounted("text", {"tool"})'
    BY <1>2, <1>4, <1>5, <1>6, <1>10, <1>11, <1>14, <1>15, ContentStep
  <2>4. ASSUME ~heard'.interleaved PROVE Own(wire') /\ OpenIsLast'
    <3>1. Own(wire) /\ OpenIsLast
      BY <1>6, <1>10, <2>4
    <3>2. \/ Keeps(wire', wire)
          \/ Receives(wire', wire, source, n) =>
               wire.client.blocks[wire.openIndex + 1].source = source
      <4>1. SUFFICES ASSUME ~Keeps(wire', wire), Receives(wire', wire, source, n)
                     PROVE  wire.client.blocks[wire.openIndex + 1].source = source
        OBVIOUS
      <4>2. wire.openIndex # NoIndex
        BY <4>1 DEF Receives
      <4>3. KindOf(source) = wire.state
        BY <1>15, <4>1
      <4> QED BY <1>12, <1>13, <1>15, <4>2, <4>3, KindOfSources
    <3>3. Own(wire')
      BY <1>2, <1>4, <1>5, <1>15, <3>1, <3>2, EffectOwn
    <3>4. heard'.last = heard.last
      BY <1>6, <1>11, <1>15
    <3>5. OpenIsLast'
      BY <1>1, <1>2, <1>15, <3>1, <3>4 DEF OpenIsLast, client
    <3> QED BY <3>3, <3>5
  <2> QED BY <2>1, <2>2, <2>3, <2>4
<1>16. CASE source = "reasoning"
  <2>1. wire' = AppendReasoning(wire) /\ tools' = tools
    BY <1>11, <1>16 DEF HandlePart, source, part
  <2>2. wire.state = "tool" => wire' = wire
    BY <2>1 DEF AppendReasoning
  <2>3. \/ wire' = wire /\ Holds(wire, {"text", "tool"})
        \/ wire.state = "thinking" /\ Receives(wire', wire, "reasoning", 1)
        \/ Begins(wire', wire, "reasoning", 1)
    BY <1>2, <2>1, AppendReasoningContent
  <2>4. CASE wire' = wire /\ Holds(wire, {"text", "tool"})
    BY <1>15, <1>16, <2>1, <2>4, KeepsItself DEF Effect
  <2>5. CASE wire.state = "thinking" /\ Receives(wire', wire, "reasoning", 1)
    BY <1>15, <1>16, <2>1, <2>2, <2>5, KindOfSources DEF Effect
  <2>6. CASE Begins(wire', wire, "reasoning", 1)
    <3>1. ~Receives(wire', wire, source, 1)
      BY <1>2, <2>6, LiveBlocks DEF Begins, Receives
    <3> QED BY <1>15, <1>16, <2>1, <2>2, <2>6, <3>1 DEF Effect
  <2> QED BY <2>3, <2>4, <2>5, <2>6
<1>17. CASE source = "text"
  <2>1. wire' = AppendText(wire) /\ tools' = tools
    BY <1>11, <1>17 DEF HandlePart, source, part
  <2>2. wire.state = "tool" => wire' = wire
    BY <2>1 DEF AppendText
  <2>3. \/ wire' = wire /\ Holds(wire, {"tool"})
        \/ wire.state = "text" /\ Receives(wire', wire, "text", 1)
        \/ Begins(wire', wire, "text", 1)
    BY <1>2, <2>1, AppendTextContent
  <2>4. CASE wire' = wire /\ Holds(wire, {"tool"})
    BY <1>15, <1>17, <2>1, <2>4, KeepsItself DEF Effect
  <2>5. CASE wire.state = "text" /\ Receives(wire', wire, "text", 1)
    BY <1>15, <1>17, <2>1, <2>2, <2>5, KindOfSources DEF Effect
  <2>6. CASE Begins(wire', wire, "text", 1)
    <3>1. ~Receives(wire', wire, source, 1)
      BY <1>2, <2>6, LiveBlocks DEF Begins, Receives
    <3> QED BY <1>15, <1>17, <2>1, <2>2, <2>6, <3>1 DEF Effect
  <2> QED BY <2>3, <2>4, <2>5, <2>6
\* A fragment of a call was handled.
<1>18. CASE source \in Calls
  <2> DEFINE acc == tools[source]
             a == Accumulate(acc, part)
  <2>1. wire' = AppendToolCall(wire, acc, part)
    BY <1>11, <1>18 DEF HandlePart, source, part
  <2>2. tools' = [tools EXCEPT ![source] = a]
    BY <1>18 DEF HandlePart, source, part
  <2>3. acc \in Accumulator /\ (acc.opened => wire.state = "tool")
    BY <1>2, <1>18
  <2>4. tools'[source] = a /\ \A c \in Calls : c # source => tools'[c] = tools[c]
    BY <1>2, <1>18, <2>2
  <2>5. \/ /\ acc.opened /\ a.opened /\ a.pending = acc.pending
           /\ IF part.args THEN Receives(wire', wire, source, 1) ELSE wire' = wire
        \/ ~acc.opened /\ ~a.opened /\ wire' = wire /\ a.pending = acc.pending + size
        \/ /\ ~acc.opened /\ a.opened /\ a.pending = 0
           /\ acc.pending + size \in Nat
           /\ Begins(wire', wire, source, acc.pending + size)
    <3> HIDE DEF acc
    <3> QED BY <1>1, <1>2, <1>18, <2>1, <2>3, AppendToolCallContent DEF source, size
  <2>6. size = IF part.args THEN 1 ELSE 0
    BY DEF size, Size
  <2>7. acc.pending \in Nat
    BY <2>3 DEF Accumulator
  <2> HIDE DEF acc, a
  \* Whatever becomes of the fragment, one number tells.
  <2>8. ASSUME NEW n \in Nat, Effect(wire', wire, source, n), a.pending \in Nat,
               a.pending + n = acc.pending + size
        PROVE  /\ CallsAccounted' /\ ContentAccounted("reasoning", {"text", "tool"})'
               /\ ContentAccounted("text", {"tool"})'
    <3>1. CallsAccounted'
      BY <1>2, <1>4, <1>5, <1>6, <1>10, <2>4, <2>8, CallsStep DEF acc
    <3>2. source # "reasoning" /\ source # "text"
      BY <1>11, <1>18
    <3>3. ContentAccounted("reasoning", {"text", "tool"})'
      BY <1>2, <1>4, <1>5, <1>6, <1>10, <1>11, <2>8, <3>2, ContentStep
    <3>4. ContentAccounted("text", {"tool"})'
      BY <1>2, <1>4, <1>5, <1>6, <1>10, <1>11, <2>8, <3>2, ContentStep
    <3> QED BY <3>1, <3>3, <3>4
  <2>9. CASE /\ acc.opened /\ a.opened /\ a.pending = acc.pending
             /\ IF part.args THEN Receives(wire', wire, source, 1) ELSE wire' = wire
    <3>1. Effect(wire', wire, source, size)
      BY <2>6, <2>9, KeepsItself DEF Effect
    <3>2. ASSUME ~heard'.interleaved PROVE Own(wire') /\ OpenIsLast'
      <4>1. Own(wire) /\ OpenIsLast
        BY <1>6, <1>10, <3>2
      <4>2. acc # EmptyAccumulator
        BY <2>9 DEF EmptyAccumulator
      <4>3. heard.last = source /\ heard'.last = source
        BY <1>6, <1>18, <3>2, <4>2 DEF acc
      <4>4. /\ wire.openIndex # NoIndex
            /\ wire.client.blocks[wire.openIndex + 1].source = source
        BY <1>1, <1>18, <2>9, <4>1, <4>3 DEF OpenIsLast, client, acc
      <4>5. Own(wire')
        BY <1>2, <1>4, <1>5, <3>1, <4>1, <4>4, EffectOwn
      <4>6. /\ wire'.openIndex = wire.openIndex
            /\ wire'.client.blocks[wire.openIndex + 1].source = source
        BY <2>9, <4>4 DEF Receives
      <4> QED BY <4>3, <4>4, <4>5, <4>6 DEF OpenIsLast, client
    <3> QED BY <1>5, <2>7, <2>8, <2>9, <3>1, <3>2
  <2>10. CASE ~acc.opened /\ ~a.opened /\ wire' = wire /\ a.pending = acc.pending + size
    <3>1. Effect(wire', wire, source, 0)
      BY <2>10, KeepsItself DEF Effect
    <3>2. ASSUME ~heard'.interleaved PROVE Own(wire') /\ OpenIsLast'
      <4>1. Own(wire)
        BY <1>6, <1>10, <3>2
      <4>2. heard'.last = source /\ ~tools'[source].opened
        BY <1>6, <1>18, <2>4, <2>10
      <4> QED BY <2>10, <4>1, <4>2 DEF OpenIsLast
    <3>3. a.pending \in Nat /\ a.pending + 0 = acc.pending + size
      BY <1>5, <2>7, <2>10
    <3> QED BY <2>8, <3>1, <3>2, <3>3
  <2>11. CASE /\ ~acc.opened /\ a.opened /\ a.pending = 0
              /\ acc.pending + size \in Nat
              /\ Begins(wire', wire, source, acc.pending + size)
    <3>1. Effect(wire', wire, source, acc.pending + size)
      BY <2>11 DEF Effect
    <3>2. ASSUME ~heard'.interleaved PROVE Own(wire') /\ OpenIsLast'
      <4>1. Own(wire)
        BY <1>6, <1>10, <3>2
      <4>2. heard'.last = source
        BY <1>6, <1>18
      <4>3. ~Receives(wire', wire, source, acc.pending + size)
        BY <1>2, <2>11, LiveBlocks DEF Begins, Receives
      <4>4. Own(wire')
        BY <1>2, <1>4, <1>5, <2>11, <3>1, <4>1, <4>3, EffectOwn
      <4>5. /\ wire'.openIndex = Len(wire.client.blocks) /\ wire'.openIndex # NoIndex
            /\ wire'.client.blocks[wire'.openIndex + 1].source = source
        BY <1>2, <2>11, LiveBlocks DEF Begins
      <4> QED BY <4>2, <4>4, <4>5 DEF OpenIsLast, client
    <3>3. a.pending + (acc.pending + size) = acc.pending + size
      BY <2>11
    <3> QED BY <2>8, <2>11, <3>1, <3>2, <3>3
  <2> QED BY <2>5, <2>9, <2>10, <2>11
<1> QED BY <1>5, <1>16, <1>17, <1>18 DEF Sources

LEMMA FinishContent ==
  ASSUME Inductive, ContentInv, Finish
  PROVE  ContentInv'
<1> DEFINE w == StartMessage(wire, started)
           u == CloseBlock(w)
           final == IF usage = "none" THEN "estimate" ELSE usage
           d == MessageDelta(u.client, stopReason, final)
           e == MessageStop(d)
<1>1. run = "reading" /\ todo = <<>> /\ finished = FALSE
  BY ReadingWire DEF Finish, Reading
<1>2. Live(w) /\ w.client.blocks = wire.client.blocks
  BY <1>1, ReadingWire, StartMessageLive DEF client
<1>3. wire' = [u EXCEPT !.client = e]
  BY <1>1 DEF Finish, FinishMessage
<1> HIDE DEF w
<1>4. Live(u) /\ u.openIndex = NoIndex /\ Keeps(u, w)
  BY <1>2, CloseBlockKeepsLive, CloseKeeps
<1> HIDE DEF u
<1>5. /\ u \in Wire /\ u.client \in Client /\ u.client.phase = "streaming"
      /\ u.client.open = NoIndex
  BY <1>4 DEF Live, Wire, Synced
<1>6. d = [u.client EXCEPT !.phase = "closing", !.reason = stopReason, !.usage = final]
  BY <1>5 DEF MessageDelta
<1>7. /\ d.phase = "closing" /\ d.reason = stopReason /\ d.usage = final
      /\ d.blocks = u.client.blocks /\ e = [d EXCEPT !.phase = "done"]
  <2>1. /\ d.phase = "closing" /\ d.reason = stopReason /\ d.usage = final
        /\ d.blocks = u.client.blocks
    BY <1>5, <1>6 DEF Client
  <2> HIDE DEF d
  <2> QED BY <2>1 DEF MessageStop
<1>8. e.reason = stopReason /\ e.usage = final /\ e.blocks = u.client.blocks
  <2> HIDE DEF e
  <2>1. e = [u.client EXCEPT !.phase = "done", !.reason = stopReason, !.usage = final]
    <3> HIDE DEF d
    <3> QED BY <1>5, <1>6, <1>7 DEF Client
  <2> QED BY <1>5, <2>1 DEF Client
<1> HIDE DEF e, d
<1>9. wire'.client = e
  BY <1>3, <1>5 DEF Wire
<1>10. Keeps(wire', wire)
  BY <1>2, <1>4, <1>8, <1>9 DEF Keeps
<1>11. UNCHANGED <<tools, heard, stopReason, usage, todo>> /\ run' = "returned"
  BY DEF Finish
<1>12. /\ CallsAccounted' /\ ContentAccounted("reasoning", {"text", "tool"})'
       /\ ContentAccounted("text", {"tool"})'
       /\ OwnFragmentsOnly => OwnFragmentsOnly'
  BY <1>10, <1>11, ContentStays
<1>13. ClosingReport'
  BY <1>8, <1>9, <1>11 DEF ContentInv, ReportIsHeard, ClosingReport, client
<1> QED
  BY <1>11, <1>12, <1>13 DEF ContentInv, NoEmptyContent, ReportIsHeard, OpenIsLast

LEMMA FailureContent ==
  ASSUME Inductive, ContentInv, ReadFails \/ EmitError
  PROVE  ContentInv'
<1>1. UNCHANGED <<tools, heard, stopReason, usage, todo>> /\ run' # "reading"
  BY DEF ReadFails, EmitError
<1>2. wire'.client.blocks = wire.client.blocks /\ client'.phase # "done"
  <2>1. CASE ReadFails
    BY <2>1, ReadingWire DEF ReadFails, Reading, client
  <2>2. CASE EmitError
    BY <2>2, ReadingWire, ErrorEnds DEF EmitError, client
  <2> QED BY <2>1, <2>2
<1>3. /\ CallsAccounted' /\ ContentAccounted("reasoning", {"text", "tool"})'
      /\ ContentAccounted("text", {"tool"})'
      /\ OwnFragmentsOnly => OwnFragmentsOnly'
  BY <1>1, <1>2, ContentStays DEF Keeps
<1> QED
  BY <1>1, <1>2, <1>3 DEF ContentInv, NoEmptyContent, ReportIsHeard, OpenIsLast, ClosingReport

LEMMA ContentHolds == Spec => []ContentInv
<1>1. Inductive /\ ContentInv /\ [Next]_vars => ContentInv'
  <2>1. ASSUME ContentInv, UNCHANGED vars PROVE ContentInv'
    BY <2>1 DEF vars, ContentInv, NoEmptyContent, CallsAccounted, ContentAccounted, Delivered,
              HasBlock, OwnFragmentsOnly, OpenIsLast, ReportIsHeard, ClosingReport, client
  <2> QED
    BY <2>1, ReadChunkContent, HandlePartContent, FinishContent, FailureContent DEF Next
<1> QED BY <1>1, InitContent, InductiveInvariant, PTL DEF Spec

\* Whatever the upstream sends, in whatever pieces: no fragment is delivered twice, and
\* the only ones that are not delivered or held are reasoning and text that come too late.
THEOREM NothingIsLost == Spec => []FragmentsAccounted
<1>1. Inductive /\ ContentInv => FragmentsAccounted
  <2> SUFFICES ASSUME Inductive, ContentInv PROVE FragmentsAccounted
    OBVIOUS
  <2>1. ASSUME NEW x \in Sources
        PROVE  LET accounted == Delivered(x) + Held(x)
               IN  /\ accounted <= heard.sent[x]
                   /\ accounted < heard.sent[x] =>
                        \/ x = "reasoning" /\ HasBlock({"text", "tool"})
                        \/ x = "text" /\ HasBlock({"tool"})
    <3>1. heard.sent[x] \in Nat
      BY DEF ContentInv, Heard
    <3>2. CASE x \in Calls
      BY <3>1, <3>2 DEF ContentInv, CallsAccounted, Held
    <3>3. CASE x \in {"reasoning", "text"} /\ x \notin Calls
      <4>1. Got(client.blocks, x) \in Seq(Nat)
        <5>1. client.blocks \in Seq(Block)
          BY DEF Inductive, TypeOK, Wire, Client, client
        <5>2. /\ Len(client.blocks) \in Nat
              /\ \A i \in 1 .. Len(client.blocks) : client.blocks[i].got[x] \in Nat
          <6> DEFINE bs == client.blocks
          <6>1. bs \in Seq(Block) BY <5>1
          <6> HIDE DEF bs
          <6>2. Len(bs) \in Nat /\ \A i \in 1 .. Len(bs) : bs[i] \in Block BY <6>1
          <6>3. \A b \in Block : b.got[x] \in Nat BY DEF Block
          <6>4. Len(bs) \in Nat /\ \A i \in 1 .. Len(bs) : bs[i].got[x] \in Nat BY <6>2, <6>3
          <6> QED BY <6>4 DEF bs
        <5> QED BY <5>2 DEF Got
      <4>2. Delivered(x) \in Nat /\ Delivered(x) + Held(x) = Delivered(x)
        BY <3>3, <4>1, TotalType DEF Delivered, Held
      <4>3. CASE x = "reasoning"
        BY <4>2, <4>3 DEF ContentInv, ContentAccounted
      <4>4. CASE x = "text"
        BY <4>2, <4>4 DEF ContentInv, ContentAccounted
      <4> QED BY <3>3, <4>3, <4>4
    <3> QED BY <3>2, <3>3 DEF Sources
  <2> QED BY <2>1 DEF FragmentsAccounted
<1> QED BY <1>1, ContentHolds, InductiveInvariant, PTL

\* Every block is of one source as long as the upstream does not return to a call.
THEOREM CallsStayApart == Spec => []SequentialCallsKeepApart
<1>1. ContentInv => SequentialCallsKeepApart
  BY DEF ContentInv, SequentialCallsKeepApart
<1> QED BY <1>1, ContentHolds, PTL

\* A complete message ends with the upstream's last reason and its last usage.
THEOREM ReportIsTheUpstreams == Spec => []ClosingReport
<1>1. ContentInv => ClosingReport
  BY DEF ContentInv
<1> QED BY <1>1, ContentHolds, PTL
=============================================================================
