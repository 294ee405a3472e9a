------------------------- MODULE HostSurfaceProofs -------------------------
(***************************************************************************)
(* A theorem about HostSurface: the deck follows the host, for every set   *)
(* of decks and values, every number of slots and every bound on what is   *)
(* on its way.                                                             *)
(***************************************************************************)
EXTENDS HostSurface, TLAPS

Blank == Frame("blank", AllOf("dark"))
Flash == Frame("flash", AllOf("white"))
Chats == {Frame("chats", deck) : deck \in Decks}
Values == {Frame("picker", colours) : colours \in Pickers}
Messages == Chats \cup Values \cup {Blank, Flash, Preview}

\* What messages do to a page: frames of the chats must not meet one that
\* mirrors a surface, paints make it mirror one, closes take it down.
IsClose(m) == m \in {Blank, Flash}
Paints(m) == m \in Values \cup {Preview}

\* From a place on the wire on: no frame of the chats without a close before
\* it, and, unless the surface is still open, a close.
Ordered(w, i) ==
  \A k \in DOMAIN w : i < k /\ w[k] \in Chats =>
    \E j \in DOMAIN w : i < j /\ j < k /\ IsClose(w[j])
Closing(w, i) == \E j \in DOMAIN w : i < j /\ IsClose(w[j])
GoodFrom(w, i, open) == Ordered(w, i) /\ (open \/ Closing(w, i))

Typed ==
  /\ lamps \in Decks /\ picker \in BOOLEAN /\ wire \in Seq(Messages)
  /\ page \in {"closed", "stray", "engaged"} /\ mirrored \in BOOLEAN /\ outlived \in BOOLEAN
  /\ missed \in BOOLEAN

\* The page mirrors a surface of this session.
Mirrors == mirrored /\ ~outlived

MirrorEnds == Mirrors => ~Closed /\ GoodFrom(wire, 0, picker)
PaintsEnd == \A i \in DOMAIN wire : Paints(wire[i]) => GoodFrom(wire, i, picker)

\* A frame of the chats that was the last one sent is still on its way, or is
\* what the deck shows, unless it was missed.
OnlyPreviews(w, i) == \A k \in DOMAIN w : i < k => w[k] = Preview
LastTold ==
  told.meaning = "chats" =>
    \/ \E k \in DOMAIN wire : wire[k] = told /\ OnlyPreviews(wire, k)
    \/ OnlyPreviews(wire, 0) /\ (shown = told.lamps \/ missed)

LinkDown == link # "up" => wire = <<>> /\ ~Mirrors

SurfaceGood == Typed /\ MirrorEnds /\ PaintsEnd /\ LastTold /\ LinkDown

-----------------------------------------------------------------------------
(* Messages.                                                               *)

LEMMA DecksLit ==
  ASSUME NEW deck \in Decks
  PROVE  /\ Lit(deck) /\ LooksLikeTaskStatus(deck)
         /\ Lit(AllOf("white")) /\ Uniform(AllOf("white"), "white") /\ ~Lit(AllOf("dark"))
  <1>1. Lit(deck) /\ LooksLikeTaskStatus(deck)
    BY SurfaceConstants DEF Lit, LooksLikeTaskStatus, Colours, Semantic
  <1>2. ATypicalDeck \in Decks
    BY DEF ATypicalDeck
  <1>3. DOMAIN ATypicalDeck # {}
    BY <1>2, SurfaceConstants DEF Lit
  <1> QED BY <1>1, <1>3 DEF AllOf, Lit, Uniform

\* The kinds of messages are told apart by their meaning.
LEMMA Kinds ==
  ASSUME NEW m \in Messages
  PROVE  /\ m \in Chats <=> m.meaning = "chats"
         /\ m \in Values <=> m.meaning = "picker"
         /\ m = Preview <=> m.meaning = "lights.preview"
         /\ m = Blank <=> m.meaning = "blank"
         /\ m = Flash <=> m.meaning = "flash"
  BY DEF Messages, Chats, Values, Blank, Flash, Preview, Frame

-----------------------------------------------------------------------------
(* The wire.                                                               *)

\* Nothing on the wire.
LEMMA Empty ==
  /\ <<>> \in Seq(Messages) /\ DOMAIN <<>> = {}
  /\ \A i : OnlyPreviews(<<>>, i)
  <1>1. <<>> \in Seq(Messages) /\ DOMAIN <<>> = {}
    OBVIOUS
  <1> QED BY <1>1 DEF OnlyPreviews

\* What is sent goes last.
LEMMA Appended ==
  ASSUME NEW w \in Seq(Messages), NEW m \in Messages
  PROVE  /\ Append(w, m) \in Seq(Messages)
         /\ DOMAIN Append(w, m) = DOMAIN w \cup {Len(w) + 1}
         /\ \A k \in DOMAIN w : k \in Nat /\ k < Len(w) + 1 /\ Append(w, m)[k] = w[k]
         /\ Append(w, m)[Len(w) + 1] = m
         /\ Len(w) + 1 \notin DOMAIN w
  OBVIOUS

\* What is taken was first.
LEMMA Taken ==
  ASSUME NEW w \in Seq(Messages), w # <<>>
  PROVE  /\ Tail(w) \in Seq(Messages) /\ Head(w) \in Messages
         /\ Head(w) = w[1] /\ 1 \in DOMAIN w
         /\ \A k \in DOMAIN Tail(w) : k \in Nat /\ k + 1 \in DOMAIN w /\ Tail(w)[k] = w[k + 1]
         /\ \A k \in DOMAIN w : k \in Nat /\ k >= 1 /\ (k > 1 => k - 1 \in DOMAIN Tail(w))
  OBVIOUS

\* A message of any kind keeps the order from a place where the wire had a
\* close, or if it is not one of the chats.
LEMMA SendOrdered ==
  ASSUME NEW w \in Seq(Messages), NEW m \in Messages, NEW i \in Nat,
         Ordered(w, i), m \notin Chats \/ Closing(w, i)
  PROVE  Ordered(Append(w, m), i)
  <1> DEFINE v == Append(w, m)
  <1> SUFFICES ASSUME NEW k \in DOMAIN v, i < k, v[k] \in Chats
               PROVE  \E j \in DOMAIN v : i < j /\ j < k /\ IsClose(v[j])
    BY DEF Ordered
  <1>1. CASE k \in DOMAIN w
    <2>1. PICK j \in DOMAIN w : i < j /\ j < k /\ IsClose(w[j])
      BY <1>1, Appended DEF Ordered
    <2> QED BY <2>1, Appended
  <1>2. CASE k = Len(w) + 1
    <2>1. PICK j \in DOMAIN w : i < j /\ IsClose(w[j])
      BY <1>2, Appended DEF Closing
    <2> QED BY <2>1, <1>2, Appended
  <1> QED BY <1>1, <1>2, Appended

LEMMA SendClosing ==
  ASSUME NEW w \in Seq(Messages), NEW m \in Messages, NEW i \in Nat, i <= Len(w),
         Closing(w, i) \/ IsClose(m)
  PROVE  Closing(Append(w, m), i)
  <1>1. CASE Closing(w, i)
    BY <1>1, Appended DEF Closing
  <1>2. CASE IsClose(m)
    BY <1>2, Appended DEF Closing
  <1> QED BY <1>1, <1>2

\* From a place after the first message the wire stays good when that is taken.
LEMMA TakeGood ==
  ASSUME NEW w \in Seq(Messages), w # <<>>, NEW i \in Nat, NEW open \in BOOLEAN,
         GoodFrom(w, i + 1, open)
  PROVE  GoodFrom(Tail(w), i, open)
  <1> DEFINE v == Tail(w)
  <1>1. Ordered(v, i)
    <2> SUFFICES ASSUME NEW k \in DOMAIN v, i < k, v[k] \in Chats
                 PROVE  \E j \in DOMAIN v : i < j /\ j < k /\ IsClose(v[j])
      BY DEF Ordered
    <2>1. k + 1 \in DOMAIN w /\ i + 1 < k + 1 /\ w[k + 1] \in Chats
      BY Taken
    <2>2. PICK j \in DOMAIN w : i + 1 < j /\ j < k + 1 /\ IsClose(w[j])
      BY <2>1 DEF GoodFrom, Ordered
    <2>3. j - 1 \in DOMAIN v /\ i < j - 1 /\ j - 1 < k /\ v[j - 1] = w[j]
      BY <2>2, Taken
    <2> QED BY <2>2, <2>3
  <1>2. ASSUME Closing(w, i + 1) PROVE Closing(v, i)
    <2>1. PICK j \in DOMAIN w : i + 1 < j /\ IsClose(w[j])
      BY <1>2 DEF Closing
    <2>2. j - 1 \in DOMAIN v /\ i < j - 1 /\ v[j - 1] = w[j]
      BY <2>1, Taken
    <2> QED BY <2>1, <2>2 DEF Closing
  <1> QED BY <1>1, <1>2 DEF GoodFrom

\* While a page mirrors a surface, a first message that is no close is no frame
\* of the chats either, and the rest of the wire is as good.
LEMMA MirrorGood ==
  ASSUME NEW w \in Seq(Messages), w # <<>>, NEW open \in BOOLEAN, GoodFrom(w, 0, open),
         ~IsClose(Head(w))
  PROVE  Head(w) \notin Chats /\ GoodFrom(Tail(w), 0, open)
  <1>1. Head(w) \notin Chats
    <2> SUFFICES ASSUME w[1] \in Chats PROVE FALSE
      BY Taken
    <2>1. PICK j \in DOMAIN w : 0 < j /\ j < 1 /\ IsClose(w[j])
      BY Taken DEF GoodFrom, Ordered
    <2> QED BY <2>1, Taken
  <1>2. Ordered(w, 1)
    <2> SUFFICES ASSUME NEW k \in DOMAIN w, 1 < k, w[k] \in Chats
                 PROVE  \E j \in DOMAIN w : 1 < j /\ j < k /\ IsClose(w[j])
      BY DEF Ordered
    <2>1. PICK j \in DOMAIN w : 0 < j /\ j < k /\ IsClose(w[j])
      BY Taken DEF GoodFrom, Ordered
    <2> QED BY <2>1, Taken
  <1>3. Closing(w, 0) => Closing(w, 1)
    BY Taken DEF Closing
  <1>4. GoodFrom(w, 0 + 1, open)
    BY <1>2, <1>3 DEF GoodFrom
  <1> QED BY <1>1, <1>4, TakeGood

-----------------------------------------------------------------------------
(* The steps.                                                              *)

\* The host sends: chats without a surface, paints with one, and a close when
\* the surface goes.
LEMMA SendStep ==
  ASSUME SurfaceGood, NEW m \in Messages, Send(m), UNCHANGED <<link, device>>,
         lamps' \in Decks, picker' \in BOOLEAN,
         m \in Chats => ~picker /\ ~picker',
         picker' \/ ~picker \/ IsClose(m),
         Paints(m) => picker'
  PROVE  SurfaceGood'
  <1>1. wire' = Append(wire, m) /\ wire \in Seq(Messages) /\ link = "up"
    BY DEF Send, SurfaceGood, Typed
  <1>2. Typed' /\ LinkDown'
    BY <1>1, Appended DEF SurfaceGood, Typed, LinkDown, device, mirror, Mirrors
  <1>3. ASSUME NEW i \in Nat, i <= Len(wire), GoodFrom(wire, i, picker)
        PROVE  GoodFrom(wire', i, picker')
    <2>1. Ordered(wire', i)
      BY <1>1, <1>3, SendOrdered DEF GoodFrom
    <2>2. ASSUME ~picker' PROVE Closing(wire', i)
      BY <2>2, <1>1, <1>3, SendClosing DEF GoodFrom
    <2> QED BY <2>1, <2>2 DEF GoodFrom
  <1>4. MirrorEnds'
    BY <1>1, <1>3 DEF SurfaceGood, MirrorEnds, Closed, device, mirror, Mirrors
  <1>5. PaintsEnd'
    <2> SUFFICES ASSUME NEW i \in DOMAIN wire', Paints(wire'[i])
                 PROVE  GoodFrom(wire', i, picker')
      BY DEF PaintsEnd
    <2>1. CASE i \in DOMAIN wire
      BY <2>1, <1>1, <1>3, Appended DEF SurfaceGood, PaintsEnd
    <2>2. CASE i = Len(wire) + 1
      <3>1. \A k \in DOMAIN wire' : ~(i < k)
        BY <2>2, <1>1
      <3>2. picker'
        BY <2>2, <1>1, Appended
      <3> QED BY <3>1, <3>2 DEF GoodFrom, Ordered
    <2> QED BY <2>1, <2>2, <1>1, Appended
  <1>6. LastTold'
    <2> SUFFICES ASSUME told'.meaning = "chats"
                 PROVE  \/ \E k \in DOMAIN wire' : wire'[k] = told' /\ OnlyPreviews(wire', k)
                        \/ OnlyPreviews(wire', 0) /\ (shown' = told'.lamps \/ missed')
      BY DEF LastTold
    <2>1. CASE m = Preview
      <3>1. told' = told
        BY <2>1 DEF Send
      <3>2. ASSUME NEW k \in Nat, OnlyPreviews(wire, k) PROVE OnlyPreviews(wire', k)
        BY <3>2, <2>1, <1>1, Appended DEF OnlyPreviews
      <3>3. CASE \E k \in DOMAIN wire : wire[k] = told /\ OnlyPreviews(wire, k)
        <4>1. PICK k \in DOMAIN wire : wire[k] = told /\ OnlyPreviews(wire, k)
          BY <3>3
        <4>2. k \in DOMAIN wire' /\ wire'[k] = told /\ OnlyPreviews(wire', k)
          BY <4>1, <3>2, <1>1, Appended
        <4> QED BY <4>2, <3>1
      <3>4. CASE OnlyPreviews(wire, 0) /\ (shown = told.lamps \/ missed)
        BY <3>4, <3>1, <3>2 DEF device
      <3> QED BY <3>1, <3>3, <3>4 DEF SurfaceGood, LastTold
    <2>2. CASE m # Preview
      <3>1. told' = m
        BY <2>2 DEF Send
      <3>2. wire'[Len(wire) + 1] = m /\ Len(wire) + 1 \in DOMAIN wire'
        BY <1>1, Appended
      <3>3. OnlyPreviews(wire', Len(wire) + 1)
        BY <1>1 DEF OnlyPreviews
      <3> QED BY <3>1, <3>2, <3>3
    <2> QED BY <2>1, <2>2
  <1> QED BY <1>2, <1>4, <1>5, <1>6 DEF SurfaceGood

\* The device takes a message: the rest of the wire stays in order, and a frame
\* of the chats arrives or is missed.
LEMMA TakeStep ==
  ASSUME SurfaceGood, wire # <<>>, wire' = Tail(wire), UNCHANGED <<host, link>>,
         Head(wire) \in Chats => shown' = Head(wire).lamps \/ missed',
         Head(wire) = Preview => UNCHANGED <<shown, missed>>
  PROVE  PaintsEnd' /\ LastTold' /\ (link = "up")'
  <1> USE DEF host
  <1>1. wire \in Seq(Messages) /\ picker \in BOOLEAN
    BY DEF SurfaceGood, Typed
  <1>2. PaintsEnd'
    <2> SUFFICES ASSUME NEW i \in DOMAIN wire', Paints(wire'[i])
                 PROVE  GoodFrom(wire', i, picker)
      BY DEF PaintsEnd
    <2>1. i \in Nat /\ i + 1 \in DOMAIN wire /\ wire'[i] = wire[i + 1]
      BY <1>1, Taken
    <2>2. GoodFrom(wire, i + 1, picker)
      BY <2>1 DEF SurfaceGood, PaintsEnd
    <2> QED BY <2>1, <2>2, <1>1, TakeGood
  <1>3. LastTold'
    <2> SUFFICES ASSUME told.meaning = "chats"
                 PROVE  \/ \E k \in DOMAIN wire' : wire'[k] = told /\ OnlyPreviews(wire', k)
                        \/ OnlyPreviews(wire', 0) /\ (shown' = told.lamps \/ missed')
      BY DEF LastTold
    <2>1. ASSUME NEW i \in Nat, OnlyPreviews(wire, i + 1) PROVE OnlyPreviews(wire', i)
      <3> SUFFICES ASSUME NEW k \in DOMAIN wire', i < k PROVE wire'[k] = Preview
        BY DEF OnlyPreviews
      <3>1. k \in Nat /\ k + 1 \in DOMAIN wire /\ wire'[k] = wire[k + 1]
        BY <1>1, Taken
      <3> QED BY <3>1, <2>1 DEF OnlyPreviews
    <2>2. CASE \E k \in DOMAIN wire : wire[k] = told /\ OnlyPreviews(wire, k)
      <3>1. PICK k \in DOMAIN wire : wire[k] = told /\ OnlyPreviews(wire, k)
        BY <2>2
      <3>2. told \in Chats
        BY <3>1, <1>1, Kinds
      <3>3. CASE k = 1
        BY <3>1, <3>2, <3>3, <2>1, <1>1, Taken
      <3>4. CASE k # 1
        <4>1. k \in Nat /\ k > 1 /\ k - 1 \in DOMAIN wire' /\ k - 1 \in Nat
          BY <3>4, <1>1, Taken
        <4>2. wire'[k - 1] = told /\ OnlyPreviews(wire', k - 1)
          BY <4>1, <3>1, <2>1, <1>1, Taken
        <4> QED BY <4>1, <4>2
      <3> QED BY <3>3, <3>4
    <2>3. CASE OnlyPreviews(wire, 0) /\ (shown = told.lamps \/ missed)
      <3>1. Head(wire) = Preview
        BY <2>3, <1>1, Taken DEF OnlyPreviews
      <3>2. OnlyPreviews(wire, 1)
        BY <2>3, <1>1, Taken DEF OnlyPreviews
      <3> QED BY <3>1, <3>2, <2>1, <2>3
    <2> QED BY <2>2, <2>3 DEF SurfaceGood, LastTold
  <1>4. (link = "up")'
    BY DEF SurfaceGood, LinkDown
  <1> QED BY <1>2, <1>3, <1>4

\* Steps that leave the wire and the host alone, but may close the page.
LEMMA PageStep ==
  ASSUME SurfaceGood, UNCHANGED <<lamps, picker, told, wire, shown, missed>>,
         page' \in {"closed", "stray", "engaged"},
         mirrored' \in BOOLEAN /\ outlived' \in BOOLEAN,
         Mirrors' => Mirrors /\ page' # "closed",
         link' = link \/ link' = "up" \/ (link # "up" /\ link' # "up")
  PROVE  SurfaceGood'
  <1>1. Typed'
    BY DEF SurfaceGood, Typed
  <1>2. MirrorEnds'
    BY DEF SurfaceGood, MirrorEnds, Closed
  <1>3. PaintsEnd' /\ LastTold'
    BY DEF SurfaceGood, PaintsEnd, LastTold
  <1>4. LinkDown'
    BY DEF SurfaceGood, Typed, LinkDown
  <1> QED BY <1>1, <1>2, <1>3, <1>4 DEF SurfaceGood

\* A frame that closes the page ends what it mirrored.
LEMMA NoteClosedEnds ==
  ASSUME SurfaceGood, NoteClosed
  PROVE  /\ mirrored' \in BOOLEAN /\ outlived' \in BOOLEAN /\ ~Mirrors'
         /\ page' = "closed"
  BY DEF SurfaceGood, Typed, MirrorEnds, Mirrors, NoteClosed, Dismiss, ClosePage, Closed, mirror

LEMMA TakeFrameGood ==
  ASSUME SurfaceGood, TakeFrame
  PROVE  SurfaceGood'
  <1> DEFINE frame == Head(wire)
  <1>1. /\ wire # <<>> /\ wire' = Tail(wire) /\ frame # Preview
        /\ UNCHANGED <<lamps, picker, told, link>>
    BY DEF TakeFrame, host
  <1>2. frame \in Messages /\ wire \in Seq(Messages) /\ wire' \in Seq(Messages)
    BY <1>1, Taken DEF SurfaceGood, Typed
  <1>3. ASSUME frame \in Chats
        PROVE  /\ Lit(frame.lamps) /\ LooksLikeTaskStatus(frame.lamps)
               /\ frame.meaning = "chats"
    <2>1. PICK deck \in Decks : frame = Frame("chats", deck)
      BY <1>3 DEF Chats
    <2> QED BY <2>1, DecksLit DEF Frame
  <1>4. ASSUME frame \in Chats PROVE ~Mirrors
    <2>1. ~IsClose(frame)
      BY <1>4, <1>2, Kinds DEF IsClose
    <2> QED BY <2>1, <1>1, <1>2, <1>4, MirrorGood DEF SurfaceGood, MirrorEnds, Typed
  <1> DEFINE arrives == frame \in Chats => shown' = frame.lamps \/ missed'
             rests == /\ page' \in {"closed", "stray", "engaged"} /\ missed' \in BOOLEAN
                      /\ mirrored' \in BOOLEAN /\ outlived' \in BOOLEAN
                      /\ Mirrors' => page' # "closed" /\ GoodFrom(wire', 0, picker)
  <1>5. CASE ~Lit(frame.lamps) /\ ApplyBlank
    <2>1. arrives
      BY <1>5, <1>3
    <2>2. rests
      BY <1>5, NoteClosedEnds DEF ApplyBlank, SurfaceGood, Typed
    <2> QED BY <2>1, <2>2, <1>1, <1>2, TakeStep DEF SurfaceGood, Typed, MirrorEnds, LinkDown, Closed, host
  <1>6. CASE Lit(frame.lamps) /\ PickerPreview(frame.lamps) /\ ApplyPicker(frame)
    <2>1. arrives
      <3>1. ASSUME frame \in Chats PROVE ~Closed
        BY <3>1, <1>3, <1>6 DEF PickerPreview
      <3> QED BY <3>1, <1>3, <1>4, <1>6 DEF ApplyPicker, Mirrors, SurfaceGood, Typed
    <2>2. missed' \in BOOLEAN
      BY <1>6 DEF ApplyPicker, SurfaceGood, Typed
    <2>3. CASE UniformWhite(frame.lamps)
      <3>1. rests
        BY <2>2, <2>3, <1>6, NoteClosedEnds DEF ApplyPicker
      <3> QED BY <2>1, <3>1, <1>1, <1>2, TakeStep DEF SurfaceGood, Typed, MirrorEnds, LinkDown, Closed, host
    <2>4. CASE ~UniformWhite(frame.lamps)
      <3>1. /\ NotePreview(TRUE)
            /\ mirrored' = (page' # "closed" /\ (mirrored \/ frame.meaning = "picker"))
            /\ outlived' = (outlived /\ frame.meaning # "picker")
        BY <2>4, <1>6 DEF ApplyPicker
      <3>2. /\ page' \in {"closed", "stray", "engaged"}
            /\ mirrored' \in BOOLEAN /\ outlived' \in BOOLEAN
        BY <3>1 DEF NotePreview, SurfaceGood, Typed
      <3>3. ASSUME Mirrors' PROVE GoodFrom(wire', 0, picker)
        <4>1. CASE frame.meaning = "picker"
          <5>1. Paints(wire[1]) /\ 1 \in DOMAIN wire
            BY <4>1, <1>1, <1>2, Kinds, Taken DEF Paints
          <5>2. GoodFrom(wire, 0 + 1, picker)
            BY <5>1 DEF SurfaceGood, PaintsEnd
          <5> QED BY <5>2, <1>1, <1>2, TakeGood DEF SurfaceGood, Typed
        <4>2. CASE Mirrors
          <5>1. frame # Flash
            <6>1. ~UniformWhite(Flash.lamps) \/ frame # Flash
              BY <2>4
            <6>2. UniformWhite(Flash.lamps)
              BY DecksLit DEF SurfaceGood, Typed, UniformWhite, Flash, Frame
            <6> QED BY <6>1, <6>2
          <5>2. frame # Blank
            BY <1>6, DecksLit DEF SurfaceGood, Typed, Blank, Frame
          <5> QED
            BY <4>2, <5>1, <5>2, <1>1, <1>2, MirrorGood DEF SurfaceGood, MirrorEnds, IsClose, Typed
        <4> QED BY <3>1, <3>3, <4>1, <4>2 DEF Mirrors
      <3>4. Mirrors' => page' # "closed"
        BY <3>1 DEF Mirrors
      <3> QED BY <2>1, <2>2, <3>2, <3>3, <3>4, <1>1, <1>2, TakeStep
              DEF SurfaceGood, Typed, MirrorEnds, LinkDown, Closed, host
    <2> QED BY <2>3, <2>4
  <1>7. CASE Lit(frame.lamps) /\ ~PickerPreview(frame.lamps) /\ ApplyTasks(frame)
    <2>1. arrives
      BY <1>7 DEF ApplyTasks
    <2>2. Closed
      BY <1>7 DEF PickerPreview
    <2>3. rests
      BY <2>2, <1>7 DEF ApplyTasks, SurfaceGood, Typed, MirrorEnds, Mirrors, mirror
    <2> QED BY <2>1, <2>3, <1>1, <1>2, TakeStep DEF SurfaceGood, Typed, MirrorEnds, LinkDown, Closed, host
  <1> QED BY <1>5, <1>6, <1>7 DEF TakeFrame

LEMMA TakePreviewGood ==
  ASSUME SurfaceGood, TakePreview
  PROVE  SurfaceGood'
  <1>1. /\ wire # <<>> /\ wire' = Tail(wire) /\ Head(wire) = Preview
        /\ UNCHANGED <<lamps, picker, told, link, shown, missed>>
        /\ NotePreview(FALSE) /\ mirrored' = (page' # "closed") /\ outlived' = FALSE
    BY DEF TakePreview, host
  <1>2. wire \in Seq(Messages) /\ wire' \in Seq(Messages)
    BY <1>1, Taken DEF SurfaceGood, Typed
  <1>3. GoodFrom(wire', 0, picker)
    <2>1. Paints(wire[1]) /\ 1 \in DOMAIN wire
      BY <1>1, <1>2, Taken DEF Paints
    <2>2. GoodFrom(wire, 0 + 1, picker)
      BY <2>1 DEF SurfaceGood, PaintsEnd
    <2> QED BY <2>2, <1>1, <1>2, TakeGood DEF SurfaceGood, Typed
  <1>4. page' \in {"closed", "stray", "engaged"} /\ mirrored' \in BOOLEAN
    BY <1>1 DEF NotePreview, SurfaceGood, Typed
  <1>5. Preview \notin Chats
    BY DEF Preview, Chats, Frame
  <1>6. PaintsEnd' /\ LastTold' /\ LinkDown'
    BY <1>1, <1>5, TakeStep DEF host, LinkDown
  <1>7. Mirrors' => page' # "closed"
    BY <1>1 DEF Mirrors
  <1> QED BY <1>1, <1>2, <1>3, <1>4, <1>6, <1>7 DEF SurfaceGood, Typed, MirrorEnds, Closed

\* The host opens and closes its surface.
LEMMA OpensGood ==
  ASSUME SurfaceGood, OpensPicker, UNCHANGED <<lamps, link, device>>
  PROVE  SurfaceGood'
  BY DEF SurfaceGood, OpensPicker, Typed, MirrorEnds, PaintsEnd, LastTold, LinkDown, Closed,
         GoodFrom, Ordered, Closing, OnlyPreviews, device, mirror, Mirrors

LEMMA ClosesGood ==
  ASSUME SurfaceGood, ClosesPicker, UNCHANGED <<lamps, link, device>>
  PROVE  SurfaceGood'
  <1>1. CASE Send(Blank) \/ Send(Flash)
    <2>1. ASSUME NEW m \in {Blank, Flash}, Send(m) PROVE SurfaceGood'
      <3>1. m \in Messages /\ IsClose(m)
        BY DEF Messages, IsClose
      <3>2. m \notin Chats /\ ~Paints(m)
        BY <3>1, Kinds DEF IsClose, Paints, Blank, Flash, Frame
      <3>3. picker' \in BOOLEAN /\ lamps' \in Decks
        BY DEF ClosesPicker, SurfaceGood, Typed
      <3> QED BY <2>1, <3>1, <3>2, <3>3, SendStep
    <2> QED BY <1>1, <2>1
  <1>2. CASE link # "up" /\ UNCHANGED <<told, wire>>
    <2>1. wire = <<>> /\ wire' = <<>> /\ ~Mirrors'
      BY <1>2 DEF SurfaceGood, LinkDown, device, mirror, Mirrors
    <2>2. Typed'
      BY <2>1, <1>2, Empty DEF SurfaceGood, ClosesPicker, Typed, device, mirror
    <2>3. MirrorEnds' /\ LinkDown'
      BY <2>1 DEF MirrorEnds, LinkDown
    <2>4. PaintsEnd'
      BY <2>1, Empty DEF PaintsEnd
    <2>5. LastTold'
      BY <2>1, <1>2 DEF SurfaceGood, LastTold, device
    <2> QED BY <2>2, <2>3, <2>4, <2>5 DEF SurfaceGood
  <1> QED BY <1>1, <1>2 DEF ClosesPicker, Blank, Flash

LEMMA HostGood ==
  ASSUME SurfaceGood,
         \/ \E deck \in Decks : HostWorks(deck)
         \/ HostTells \/ HostRebuilds \/ HostOpens \/ HostPaints \/ HostCloses \/ HostTakesKey
  PROVE  SurfaceGood'
  <1> USE DEF SurfaceGood, Typed
  <1>1. CASE \E deck \in Decks : HostWorks(deck)
    BY <1>1 DEF HostWorks, device, mirror, Mirrors, MirrorEnds, PaintsEnd, LastTold, LinkDown, Closed, GoodFrom,
                Ordered, Closing, OnlyPreviews
  <1>2. CASE HostTells
    <2>1. Frame("chats", lamps) \in Messages /\ ~Paints(Frame("chats", lamps))
      BY DEF Messages, Chats, Paints, Values, Preview, Frame
    <2> QED BY <2>1, <1>2, SendStep DEF HostTells
  <1>3. CASE HostRebuilds
    <2>1. Blank \in Messages /\ Blank \notin Chats /\ ~Paints(Blank)
      BY DEF Messages, Chats, Paints, Values, Preview, Blank, Frame
    <2> QED BY <2>1, <1>3, SendStep DEF HostRebuilds, Blank
  <1>4. CASE HostOpens
    BY <1>4, OpensGood DEF HostOpens
  <1>5. CASE HostPaints
    <2>1. PICK m \in Values \cup {Preview} : Send(m)
      BY <1>5 DEF HostPaints, Values
    <2>2. m \in Messages
      BY DEF Messages
    <2>3. m \notin Chats
      BY <2>2, Kinds
    <2> QED BY <2>1, <2>2, <2>3, <1>5, SendStep DEF HostPaints
  <1>6. CASE HostCloses
    BY <1>6, ClosesGood DEF HostCloses
  <1>7. CASE HostTakesKey
    <2>1. OpensPicker \/ ClosesPicker \/ UNCHANGED <<picker, told, wire>>
      BY <1>7 DEF HostTakesKey
    <2>2. UNCHANGED <<lamps, link, device>>
      BY <1>7 DEF HostTakesKey
    <2>3. CASE UNCHANGED <<picker, told, wire>>
      BY <2>2, <2>3, PageStep DEF device, mirror, Mirrors, MirrorEnds, Closed
    <2> QED BY <2>1, <2>2, <2>3, OpensGood, ClosesGood
  <1> QED BY <1>1, <1>2, <1>3, <1>4, <1>5, <1>6, <1>7

\* Keys and times.
LEMMA DeviceGood ==
  ASSUME SurfaceGood,
         \/ TurnDial \/ Confirm \/ Esc \/ OpenChat \/ LocalSurface
         \/ StrayTimeout \/ ShutEnds \/ GuardEnds \/ GraceExpires
  PROVE  SurfaceGood'
  <1> USE DEF host, device, mirror, Closed
  <1>0. /\ page \in {"closed", "stray", "engaged"} /\ mirrored \in BOOLEAN /\ outlived \in BOOLEAN
        /\ Mirrors => ~Closed
    BY DEF SurfaceGood, Typed, MirrorEnds
  <1>1. CASE TurnDial
    <2>1. page' \in {"closed", "stray", "engaged"} /\ (~Closed => page' = page)
      BY <1>0, <1>1 DEF TurnDial, OpenByDial
    <2> QED BY <1>0, <1>1, <2>1, PageStep DEF TurnDial, Mirrors
  <1>2. CASE Confirm
    BY <1>0, <1>2, PageStep DEF Confirm, Mirrors
  <1>3. CASE Esc
    <2>1. CASE Dismiss
      BY <1>0, <1>3, <2>1, PageStep DEF Esc, Dismiss, ClosePage, Mirrors
    <2>2. CASE UNCHANGED <<page, shut, mirror>>
      BY <1>0, <1>3, <2>2, PageStep DEF Esc, Mirrors
    <2> QED BY <1>3, <2>1, <2>2 DEF Esc, Escape
  <1>4. CASE OpenChat
    BY <1>0, <1>4, PageStep DEF OpenChat, Mirrors
  <1>5. CASE LocalSurface \/ StrayTimeout
    BY <1>5, PageStep DEF LocalSurface, StrayTimeout, Dismiss, ClosePage, Mirrors
  <1>6. CASE ShutEnds \/ GuardEnds
    BY <1>0, <1>6, PageStep DEF ShutEnds, GuardEnds, Mirrors
  <1>7. CASE GraceExpires
    BY <1>0, <1>7, PageStep DEF GraceExpires, ClosePage, Mirrors
  <1> QED BY <1>1, <1>2, <1>3, <1>4, <1>5, <1>6, <1>7

\* The session goes, and whatever the page mirrored has gone with it.
LEMMA LoseGood ==
  ASSUME SurfaceGood, LoseSession
  PROVE  SurfaceGood'
  <1>1. wire' = <<>> /\ ~Mirrors' /\ told'.meaning = "none"
    BY DEF LoseSession, NoFrame, Frame, SurfaceGood, Typed, Mirrors
  <1>2. Typed'
    BY <1>1, Empty DEF SurfaceGood, Typed, LoseSession
  <1> QED BY <1>1, <1>2, Empty DEF SurfaceGood, MirrorEnds, PaintsEnd, LastTold, LinkDown

\* A session comes: it is told everything, or what it was told before was missed.
LEMMA NewGood ==
  ASSUME SurfaceGood, NewSession
  PROVE  SurfaceGood'
  <1>1. /\ wire = <<>> /\ wire' = <<>> /\ ~Mirrors' /\ link' = "up"
        /\ missed' \in BOOLEAN /\ shown' = shown
        /\ missed' \/ (told' = told /\ missed' = missed)
    BY DEF NewSession, mirror, Mirrors, SurfaceGood, Typed, LinkDown
  <1>2. Typed'
    BY <1>1, Empty DEF SurfaceGood, Typed, NewSession, mirror
  <1>3. MirrorEnds' /\ PaintsEnd' /\ LinkDown'
    BY <1>1, Empty DEF MirrorEnds, PaintsEnd, LinkDown
  <1>4. LastTold'
    BY <1>1, Empty DEF SurfaceGood, LastTold
  <1> QED BY <1>2, <1>3, <1>4 DEF SurfaceGood

LEMMA InitGood == Init => SurfaceGood
  <1> SUFFICES ASSUME Init PROVE SurfaceGood
    OBVIOUS
  <1>1. wire = <<>> /\ ~Mirrors /\ told.meaning = "none"
    BY DEF Init, NoFrame, Frame, Mirrors
  <1>2. Typed
    BY <1>1, Empty DEF Init, Typed
  <1> QED BY <1>1, <1>2, Empty DEF SurfaceGood, MirrorEnds, PaintsEnd, LastTold, LinkDown

LEMMA StepGood == SurfaceGood /\ [Next]_vars => SurfaceGood'
  <1> SUFFICES ASSUME SurfaceGood, [Next]_vars PROVE SurfaceGood'
    OBVIOUS
  <1>1. CASE TakeFrame \/ TakePreview
    BY <1>1, TakeFrameGood, TakePreviewGood
  <1>2. CASE LoseSession \/ NewSession
    BY <1>2, LoseGood, NewGood
  <1>3. CASE UNCHANGED vars
    BY <1>3, PageStep DEF vars, SurfaceGood, Typed, MirrorEnds, Mirrors, Closed
  <1> QED BY <1>1, <1>2, <1>3, HostGood, DeviceGood DEF Next

\* The deck shows what the host's chats show once all it sent has arrived, for
\* every sequence of surfaces, closes, dial turns, keys, sessions and handovers: a
\* frame of the chats is lost neither to the guard of the dial nor to a page that
\* mirrors a surface of its session (codex_micro_protocol.cpp:257-305), only to a
\* page that does not, or before the transport owned the state.
THEOREM DeckFollowsHostCorrect == Spec => []DeckFollowsHost
  <1>1. SurfaceGood => DeckFollowsHost
    <2> SUFFICES ASSUME SurfaceGood, wire = <<>>, told = Frame("chats", lamps), ~missed
                 PROVE  shown = lamps
      BY DEF DeckFollowsHost
    <2>1. told.meaning = "chats" /\ told.lamps = lamps
      BY DEF Frame
    <2> QED BY <2>1 DEF SurfaceGood, LastTold
  <1> QED BY <1>1, InitGood, StepGood, PTL DEF Spec

=============================================================================
