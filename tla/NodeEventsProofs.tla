-------------------------- MODULE NodeEventsProofs --------------------------
(***************************************************************************)
(* What a node tells its host, for any number of listeners and however     *)
(* their callbacks nest: transactions stay whole, a listener misses        *)
(* nothing and hears nothing twice, and a call that has returned has told  *)
(* everybody everything.  The last part is about the loss of a format,     *)
(* which the data loop reports and the main loop publishes.                *)
(***************************************************************************)
EXTENDS NodeEvents, FormatPublication, SequenceTheorems, FiniteSetTheorems,
        WellFoundedInduction, TLAPS

(* What is queued or emitted, and the frames of the stack.                 *)
Notes ==
  [type : Kinds, what : Nat] \cup [type : {"done"}, what : [Kinds -> Nat]]
    \cup [type : {"activate"}, what : Listeners] \cup {Nothing, Note("result", 0)}

Frames ==
  [op : {"drain", "initial", "result"}, on : {"active"} \cup Listeners, cur : Nat,
   calling : BOOLEAN, note : Notes, rest : Seq(Notes), claim : BOOLEAN]

(* The dispatch turn has one owner, and no initial callback runs above a   *)
(* drain that it waits for.                                                *)
Turn(st, d) ==
  /\ \A i \in 1 .. Len(st) : st[i].claim => d
  /\ \A i, j \in 1 .. Len(st) : st[i].claim /\ st[j].claim => i = j
  /\ d => \E i \in 1 .. Len(st) : st[i].claim
  /\ \A i \in 1 .. Len(st) : (st[i].op = "drain" => st[i].claim)
                             /\ (st[i].op = "result" => ~st[i].claim)
  /\ \A i \in 1 .. Len(st) : st[i].op = "initial" => \E j \in 1 .. i : st[j].claim

(* Every new listener has initial callbacks of its own; the isolated one   *)
(* owns the turn, and a cohort's traversals are above its listener's.      *)
Places(st, new) ==
  /\ \A i, j \in 1 .. Len(st) :
       st[i].op = "initial" /\ st[j].op = "initial" /\ st[i].on = st[j].on => i = j
  /\ \A i \in 1 .. Len(st) : st[i].op = "initial" =>
       /\ st[i].on = "active" => st[i].claim
       /\ st[i].on \notin new
       /\ Len(st[i].rest) <= 1
       /\ st[i].rest # <<>> => st[i].note.type = "node"
  /\ \A i \in 1 .. Len(st) : st[i].on # "active" =>
       \E j \in 1 .. i : st[j].op = "initial" /\ st[j].on = st[i].on
  /\ \A i \in 1 .. Len(st) : /\ st[i].op = "drain" => st[i].on = "active"
                             /\ st[i].op = "result" => st[i].note.type = "result"
  /\ \A i \in 2 .. Len(st) : st[i].op = "result" /\ st[i - 1].op = "initial" =>
       st[i].on = st[i - 1].on

(* The hooks that the i-th traversal walks: below an isolated listener the *)
(* active ones are put aside.                                              *)
Aside(st, i) ==
  \E j \in 1 .. Len(st) : j > i /\ st[j].op = "initial" /\ st[j].on = "active"
Held(st, ls, sv, i) == IF st[i].on = "active" /\ Aside(st, i) THEN sv ELSE ls[st[i].on]

Cursors(st, ls, sv) == \A i \in 1 .. Len(st) : st[i].cur <= Len(Held(st, ls, sv, i))

(* A cohort is its listener's and apart from the active hooks; one that is *)
(* still to be added is in no list and has heard nothing.                  *)
Lists(ls, sv, h, new) ==
  /\ \A l \in Listeners : Range(ls[l]) \subseteq {l}
  /\ \A l \in Listeners : l \in Range(ls[l]) => l \notin Range(ls["active"]) \cup Range(sv)
  /\ \A l \in new : /\ l \notin Range(ls[l]) \cup Range(ls["active"]) \cup Range(sv)
                    /\ h[l]["port"] = 0

(* An isolated listener is alone, and one in its first callback has heard  *)
(* nothing of the port.                                                    *)
Alone(st, ls, h) ==
  \A i \in 1 .. Len(st) : st[i].op = "initial" =>
    /\ st[i].on = "active" => Len(ls["active"]) <= 1
    /\ st[i].rest # <<>> => \A l \in Range(ls[st[i].on]) : h[l]["port"] = 0

(* The inductive invariant, by the variables its parts are about.          *)
Typed ==
  /\ ver \in [Kinds -> Nat] /\ heard \in [Listeners -> [Kinds -> Nat]]
  /\ dispatching \in BOOLEAN /\ queue \in Seq(Notes) /\ stack \in Seq(Frames)
  /\ list \in [{"active"} \cup Listeners -> Seq(Listeners)] /\ saved \in Seq(Listeners)
  /\ fresh \subseteq Listeners

EventsInv ==
  /\ Typed
  /\ Turn(stack, dispatching)
  /\ Places(stack, fresh)
  /\ Cursors(stack, list, saved)
  /\ Lists(list, saved, heard, fresh)
  /\ Alone(stack, list, heard)

-----------------------------------------------------------------------------
(* Stacks: a frame on top, another one in its place, one less.             *)

IsPush(st, s2, f) ==
  /\ s2 \in Seq(Frames) /\ Len(s2) = Len(st) + 1 /\ f \in Frames
  /\ \A i \in 1 .. Len(st) : s2[i] = st[i]
  /\ s2[Len(st) + 1] = f

IsPut(st, s2, f) ==
  /\ s2 \in Seq(Frames) /\ Len(s2) = Len(st) /\ Len(st) >= 1 /\ f \in Frames
  /\ \A i \in 1 .. Len(st) : i # Len(st) => s2[i] = st[i]
  /\ s2[Len(st)] = f

IsPop(st, s2) ==
  /\ s2 \in Seq(Frames) /\ Len(st) = Len(s2) + 1
  /\ \A i \in 1 .. Len(s2) : s2[i] = st[i]

(* The same frames but for their cursors.                                  *)
Alike(st, s2) ==
  /\ s2 \in Seq(Frames) /\ Len(s2) = Len(st)
  /\ \A i \in 1 .. Len(st) :
       /\ s2[i].op = st[i].op /\ s2[i].on = st[i].on /\ s2[i].claim = st[i].claim
       /\ s2[i].note = st[i].note /\ s2[i].rest = st[i].rest

\* A frame is pushed.
LEMMA PushFact ==
  ASSUME NEW st \in Seq(Frames), NEW f \in Frames
  PROVE  IsPush(st, Append(st, f), f)
BY DEF IsPush

\* The top frame is replaced.
LEMMA PutFact ==
  ASSUME NEW st \in Seq(Frames), st # <<>>, NEW f \in Frames
  PROVE  IsPut(st, [st EXCEPT ![Len(st)] = f], f)
<1>1. Len(st) \in Nat /\ Len(st) # 0 BY EmptySeq
<1>2. Len(st) \in 1 .. Len(st) BY <1>1
<1>3. DOMAIN st = 1 .. Len(st) OBVIOUS
<1> DEFINE s2 == [st EXCEPT ![Len(st)] = f]
<1>4. s2 \in Seq(Frames) /\ Len(s2) = Len(st) BY <1>2, <1>3, ExceptSeq
<1>5. s2[Len(st)] = f BY <1>2, <1>3
<1>6. \A i \in 1 .. Len(st) : i # Len(st) => s2[i] = st[i] BY <1>3
<1> HIDE DEF s2
<1>7. IsPut(st, s2, f) BY <1>1, <1>4, <1>5, <1>6 DEF IsPut
<1> QED BY <1>7 DEF s2

\* The first n of a sequence.
LEMMA PrefixOf ==
  ASSUME NEW S, NEW s \in Seq(S), NEW n \in 0 .. Len(s)
  PROVE  /\ SubSeq(s, 1, n) \in Seq(S) /\ Len(SubSeq(s, 1, n)) = n
         /\ \A i \in 1 .. n : SubSeq(s, 1, n)[i] = s[i]
OBVIOUS

\* The rest of a sequence behind the first n.
LEMMA SuffixOf ==
  ASSUME NEW S, NEW s \in Seq(S), NEW n \in 0 .. Len(s)
  PROVE  /\ SubSeq(s, n + 1, Len(s)) \in Seq(S) /\ Len(SubSeq(s, n + 1, Len(s))) = Len(s) - n
         /\ \A i \in 1 .. (Len(s) - n) : SubSeq(s, n + 1, Len(s))[i] = s[n + i]
OBVIOUS

\* The top frame goes.
LEMMA PopFact ==
  ASSUME NEW st \in Seq(Frames), st # <<>>
  PROVE  IsPop(st, SubSeq(st, 1, Len(st) - 1))
<1>1. Len(st) \in Nat /\ Len(st) # 0 BY EmptySeq
<1>2. Len(st) - 1 \in 0 .. Len(st) BY <1>1
<1> DEFINE s2 == SubSeq(st, 1, Len(st) - 1)
<1>3. /\ s2 \in Seq(Frames) /\ Len(s2) = Len(st) - 1
      /\ \A i \in 1 .. (Len(st) - 1) : s2[i] = st[i]
  BY <1>2, PrefixOf
<1> HIDE DEF s2
<1>4. IsPop(st, s2) BY <1>1, <1>3 DEF IsPop
<1> QED BY <1>4 DEF s2

\* A frame's fields.
LEMMA FrameFields ==
  ASSUME NEW st \in Seq(Frames)
  PROVE  /\ Len(st) \in Nat
         /\ \A i \in 1 .. Len(st) :
              /\ st[i] \in Frames /\ st[i].cur \in Nat /\ st[i].claim \in BOOLEAN
              /\ st[i].on \in {"active"} \cup Listeners
              /\ st[i].op \in {"drain", "initial", "result"}
              /\ st[i].note \in Notes /\ st[i].rest \in Seq(Notes)
<1>1. Len(st) \in Nat OBVIOUS
<1>2. \A i \in 1 .. Len(st) : st[i] \in Frames OBVIOUS
<1> QED BY <1>1, <1>2 DEF Frames

-----------------------------------------------------------------------------
(* The dispatch turn.                                                      *)

\* A turn is not affected by cursors.
LEMMA TurnAlike ==
  ASSUME NEW st \in Seq(Frames), NEW s2, NEW d, Alike(st, s2), Turn(st, d)
  PROVE  Turn(s2, d)
<1>1. Len(st) \in Nat /\ \A i \in 1 .. Len(st) : \A j \in 1 .. i : j \in 1 .. Len(st) OBVIOUS
<1> QED BY <1>1 DEF Alike, Turn

\* The owner of the turn takes the next notification.
LEMMA TurnPut ==
  ASSUME NEW st \in Seq(Frames), NEW s2, NEW f, NEW d, IsPut(st, s2, f), Turn(st, d),
         st[Len(st)].claim = TRUE, f.op = "drain", f.claim = TRUE
  PROVE  Turn(s2, d)
<1>1. Len(st) \in Nat /\ Len(st) \in 1 .. Len(st) BY DEF IsPut
<1>2. Len(s2) = Len(st) BY DEF IsPut
<1>3. \A i \in 1 .. Len(st) : s2[i].claim <=> st[i].claim BY <1>1 DEF IsPut
<1>4. \A i \in 1 .. Len(st) : i # Len(st) => s2[i].op = st[i].op BY DEF IsPut
<1>5. s2[Len(st)].op = "drain" BY DEF IsPut
<1>6. \A i \in 1 .. Len(st) : \A j \in 1 .. i : j \in 1 .. Len(st) BY <1>1
<1> QED BY <1>1, <1>2, <1>3, <1>4, <1>5, <1>6 DEF Turn

\* A listener goes on to its second snapshot.
LEMMA TurnNext ==
  ASSUME NEW st \in Seq(Frames), NEW s2, NEW f, NEW d, IsPut(st, s2, f), Turn(st, d),
         f.claim = st[Len(st)].claim, f.op = st[Len(st)].op
  PROVE  Turn(s2, d)
<1>1. Len(st) \in Nat /\ Len(st) \in 1 .. Len(st) BY DEF IsPut
<1>2. Len(s2) = Len(st) BY DEF IsPut
<1>3. \A i \in 1 .. Len(st) : s2[i].claim = st[i].claim /\ s2[i].op = st[i].op
  BY <1>1 DEF IsPut
<1>6. \A i \in 1 .. Len(st) : \A j \in 1 .. i : j \in 1 .. Len(st) BY <1>1
<1> QED BY <1>1, <1>2, <1>3, <1>6 DEF Turn

\* The owner of the turn returns it.
LEMMA TurnPopOwner ==
  ASSUME NEW st \in Seq(Frames), NEW s2, NEW d, NEW e, IsPop(st, s2), Turn(st, d),
         st[Len(st)].claim = TRUE, e = FALSE
  PROVE  Turn(s2, e)
<1>1. /\ Len(st) \in Nat /\ Len(st) = Len(s2) + 1 /\ Len(s2) \in Nat
      /\ Len(st) \in 1 .. Len(st)
  BY DEF IsPop
<1>2. \A i \in 1 .. Len(s2) : s2[i] = st[i] /\ i \in 1 .. Len(st) /\ i # Len(st)
  BY <1>1 DEF IsPop
<1>3. \A i \in 1 .. Len(s2) : ~s2[i].claim BY <1>1, <1>2 DEF Turn
<1>4. \A i \in 1 .. Len(s2) : \A j \in 1 .. i : j \in 1 .. Len(s2) /\ ~st[j].claim
  BY <1>1, <1>2, <1>3
<1>5. \A i \in 1 .. Len(s2) : s2[i].op # "initial" /\ s2[i].op # "drain"
  BY <1>2, <1>3, <1>4 DEF Turn
<1> QED BY <1>3, <1>5 DEF Turn

\* Somebody else returns.
LEMMA TurnPopOther ==
  ASSUME NEW st \in Seq(Frames), NEW s2, NEW d, IsPop(st, s2), Turn(st, d),
         st[Len(st)].claim = FALSE
  PROVE  Turn(s2, d)
<1>1. Len(st) \in Nat /\ Len(st) = Len(s2) + 1 /\ Len(s2) \in Nat BY DEF IsPop
<1>2. \A i \in 1 .. Len(s2) : s2[i] = st[i] /\ i \in 1 .. Len(st) BY <1>1 DEF IsPop
<1>3. \A i \in 1 .. Len(st) : st[i].claim => i \in 1 .. Len(s2) BY <1>1
<1>4. \A i \in 1 .. Len(s2) : \A j \in 1 .. i : j \in 1 .. Len(s2) BY <1>1
<1> QED BY <1>2, <1>3, <1>4 DEF Turn

\* The free turn is taken.
LEMMA TurnPushOwner ==
  ASSUME NEW st \in Seq(Frames), NEW s2, NEW f, NEW d, NEW e, IsPush(st, s2, f),
         Turn(st, d), d = FALSE, e = TRUE, f.claim = TRUE, f.op # "result"
  PROVE  Turn(s2, e)
<1>1. Len(st) \in Nat /\ Len(s2) = Len(st) + 1 BY DEF IsPush
<1>2. \A i \in 1 .. Len(s2) : i \in 1 .. Len(st) \/ i = Len(s2) BY <1>1
<1>3. s2[Len(s2)] = f /\ Len(s2) \in 1 .. Len(s2) BY <1>1 DEF IsPush
<1>4. \A i \in 1 .. Len(st) : s2[i] = st[i] BY DEF IsPush
<1>5. \A i \in 1 .. Len(st) : ~st[i].claim /\ \A j \in 1 .. i : j \in 1 .. Len(st)
  BY <1>1 DEF Turn
<1>6. \A i \in 1 .. Len(st) : st[i].op # "initial" /\ st[i].op # "drain" BY <1>5 DEF Turn
<1> QED BY <1>2, <1>3, <1>4, <1>5, <1>6 DEF Turn

\* A call that leaves the turn to its owner.
LEMMA TurnPushOther ==
  ASSUME NEW st \in Seq(Frames), NEW s2, NEW f, NEW d, IsPush(st, s2, f), Turn(st, d),
         f.claim = FALSE, f.op = "result" \/ (f.op = "initial" /\ d = TRUE)
  PROVE  Turn(s2, d)
<1>1. Len(st) \in Nat /\ Len(s2) = Len(st) + 1 BY DEF IsPush
<1>2. \A i \in 1 .. Len(s2) : i \in 1 .. Len(st) \/ i = Len(s2) BY <1>1
<1>3. s2[Len(s2)] = f /\ Len(s2) \in 1 .. Len(s2) BY <1>1 DEF IsPush
<1>4. \A i \in 1 .. Len(st) : s2[i] = st[i] /\ i \in 1 .. Len(s2) BY <1>1 DEF IsPush
<1>5. \A i \in 1 .. Len(st) : \A j \in 1 .. i : j \in 1 .. Len(st) BY <1>1
<1> QED BY <1>2, <1>3, <1>4, <1>5 DEF Turn

\* While a drain is on top, or any owner, nobody below is in its initial
\* callbacks.
LEMMA TurnAbove ==
  ASSUME NEW st \in Seq(Frames), NEW d, Turn(st, d), st # <<>>,
         st[Len(st)].claim = TRUE
  PROVE  \A i \in 1 .. Len(st) : st[i].op = "initial" => i = Len(st)
<1>1. Len(st) \in Nat /\ Len(st) # 0 BY EmptySeq
<1>2. Len(st) \in 1 .. Len(st) /\ \A i \in 1 .. Len(st) : \A j \in 1 .. i : j \in 1 .. Len(st)
  BY <1>1
<1> QED BY <1>1, <1>2 DEF Turn
-----------------------------------------------------------------------------
(* The listeners in their initial callbacks.                               *)

\* Places do not depend on cursors.
LEMMA PlacesAlike ==
  ASSUME NEW st \in Seq(Frames), NEW s2, NEW new, Alike(st, s2), Places(st, new)
  PROVE  Places(s2, new)
<1>1. Len(st) \in Nat /\ \A i \in 1 .. Len(st) : \A j \in 1 .. i : j \in 1 .. Len(st) OBVIOUS
<1>2. \A i \in 2 .. Len(st) : i \in 1 .. Len(st) /\ i - 1 \in 1 .. Len(st) BY <1>1
<1>3. Len(s2) = Len(st) BY DEF Alike
<1>4. \A i \in 1 .. Len(st) :
        /\ s2[i].op = st[i].op /\ s2[i].on = st[i].on /\ s2[i].claim = st[i].claim
        /\ s2[i].note = st[i].note /\ s2[i].rest = st[i].rest
  BY DEF Alike
<1>5. \A i, j \in 1 .. Len(st) :
        s2[i].op = "initial" /\ s2[j].op = "initial" /\ s2[i].on = s2[j].on => i = j
  BY <1>4 DEF Places
<1>6. \A i \in 1 .. Len(st) : s2[i].op = "initial" =>
        /\ s2[i].on = "active" => s2[i].claim
        /\ s2[i].on \notin new
        /\ Len(s2[i].rest) <= 1
        /\ s2[i].rest # <<>> => s2[i].note.type = "node"
  BY <1>4 DEF Places
<1>7. \A i \in 1 .. Len(st) : s2[i].on # "active" =>
        \E j \in 1 .. i : s2[j].op = "initial" /\ s2[j].on = s2[i].on
  BY <1>1, <1>4 DEF Places
<1>8. \A i \in 2 .. Len(st) : s2[i].op = "result" /\ s2[i - 1].op = "initial" =>
        s2[i].on = s2[i - 1].on
  BY <1>2, <1>4 DEF Places
<1>9. \A i \in 1 .. Len(st) : /\ s2[i].op = "drain" => s2[i].on = "active"
                              /\ s2[i].op = "result" => s2[i].note.type = "result"
  BY <1>4 DEF Places
<1> QED BY <1>3, <1>5, <1>6, <1>7, <1>8, <1>9 DEF Places

\* The frame on top gets another note, or becomes the drain of the turn.
LEMMA PlacesPut ==
  ASSUME NEW st \in Seq(Frames), NEW s2, NEW f, NEW new, IsPut(st, s2, f), Places(st, new),
         st[Len(st)].op # "result", f.op # "result",
         \/ f.op = "drain" /\ f.on = "active"
         \/ /\ f.op = "initial" /\ f.op = st[Len(st)].op /\ f.on = st[Len(st)].on
            /\ f.claim = st[Len(st)].claim /\ f.rest = <<>>
  PROVE  Places(s2, new)
<1>1. Len(st) \in Nat /\ Len(st) \in 1 .. Len(st) /\ Len(s2) = Len(st) BY DEF IsPut
<1>2. \A i \in 1 .. Len(st) : \A j \in 1 .. i : j \in 1 .. Len(st) BY <1>1
<1>3. \A i \in 1 .. Len(st) : i # Len(st) => s2[i] = st[i] BY DEF IsPut
<1>4. s2[Len(st)] = f BY DEF IsPut
<1>5. \A i \in 2 .. Len(st) : i \in 1 .. Len(st) /\ i - 1 \in 1 .. Len(st) /\ i - 1 # Len(st)
  BY <1>1
<1>6. \A i \in 1 .. Len(st) : s2[i].op = "initial" => st[i].op = "initial" /\ st[i].on = s2[i].on
  BY <1>3, <1>4
<1>7. \A i, j \in 1 .. Len(st) :
        s2[i].op = "initial" /\ s2[j].op = "initial" /\ s2[i].on = s2[j].on => i = j
  BY <1>6 DEF Places
<1>8. \A i \in 1 .. Len(st) : s2[i].op = "initial" =>
        /\ s2[i].on = "active" => s2[i].claim
        /\ s2[i].on \notin new
        /\ Len(s2[i].rest) <= 1
        /\ s2[i].rest # <<>> => s2[i].note.type = "node"
  <2> SUFFICES ASSUME NEW i \in 1 .. Len(st), s2[i].op = "initial"
               PROVE  /\ s2[i].on = "active" => s2[i].claim
                      /\ s2[i].on \notin new
                      /\ Len(s2[i].rest) <= 1
                      /\ s2[i].rest # <<>> => s2[i].note.type = "node"
    OBVIOUS
  <2>1. CASE i # Len(st) BY <1>3, <2>1 DEF Places
  <2>2. CASE i = Len(st)
    <3>1. Len(<<>>) = 0 OBVIOUS
    <3> QED BY <1>1, <1>4, <1>6, <2>2, <3>1 DEF Places
  <2> QED BY <2>1, <2>2
<1>9. ASSUME NEW i \in 1 .. Len(st), s2[i].on # "active"
      PROVE  \E j \in 1 .. i : s2[j].op = "initial" /\ s2[j].on = s2[i].on
  <2>1. CASE i # Len(st)
    <3>1. PICK j \in 1 .. i : st[j].op = "initial" /\ st[j].on = st[i].on
      BY <1>3, <1>9, <2>1 DEF Places
    <3>2. j \in 1 .. Len(st) /\ j # Len(st) BY <1>1, <2>1
    <3> QED BY <1>3, <2>1, <3>1, <3>2
  <2>2. CASE i = Len(st)
    <3>1. f.op = "initial" BY <1>4, <1>9, <2>2
    <3> QED BY <1>4, <2>2, <3>1
  <2> QED BY <2>1, <2>2
<1>10. \A i \in 2 .. Len(st) : s2[i].op = "result" /\ s2[i - 1].op = "initial" =>
         s2[i].on = s2[i - 1].on
  BY <1>3, <1>4, <1>5 DEF Places
<1>11. \A i \in 1 .. Len(st) : /\ s2[i].op = "drain" => s2[i].on = "active"
                               /\ s2[i].op = "result" => s2[i].note.type = "result"
  BY <1>3, <1>4 DEF Places
<1> QED BY <1>1, <1>7, <1>8, <1>9, <1>10, <1>11 DEF Places

\* A call returns.
LEMMA PlacesPop ==
  ASSUME NEW st \in Seq(Frames), NEW s2, NEW new, IsPop(st, s2), Places(st, new)
  PROVE  Places(s2, new)
<1>1. Len(st) \in Nat /\ Len(st) = Len(s2) + 1 /\ Len(s2) \in Nat BY DEF IsPop
<1>2. \A i \in 1 .. Len(s2) : s2[i] = st[i] /\ i \in 1 .. Len(st) BY <1>1 DEF IsPop
<1>3. \A i \in 1 .. Len(s2) : \A j \in 1 .. i : j \in 1 .. Len(s2) BY <1>1
<1>4. \A i \in 2 .. Len(s2) : /\ i \in 1 .. Len(s2) /\ i - 1 \in 1 .. Len(s2)
                              /\ i \in 2 .. Len(st)
  BY <1>1
<1>5. \A i, j \in 1 .. Len(s2) :
        s2[i].op = "initial" /\ s2[j].op = "initial" /\ s2[i].on = s2[j].on => i = j
  BY <1>2 DEF Places
<1>6. \A i \in 1 .. Len(s2) : s2[i].op = "initial" =>
        /\ s2[i].on = "active" => s2[i].claim
        /\ s2[i].on \notin new
        /\ Len(s2[i].rest) <= 1
        /\ s2[i].rest # <<>> => s2[i].note.type = "node"
  BY <1>2 DEF Places
<1>7. \A i \in 1 .. Len(s2) : s2[i].on # "active" =>
        \E j \in 1 .. i : s2[j].op = "initial" /\ s2[j].on = s2[i].on
  BY <1>2, <1>3 DEF Places
<1>8. \A i \in 2 .. Len(s2) : s2[i].op = "result" /\ s2[i - 1].op = "initial" =>
        s2[i].on = s2[i - 1].on
  BY <1>2, <1>4 DEF Places
<1>9. \A i \in 1 .. Len(s2) : /\ s2[i].op = "drain" => s2[i].on = "active"
                              /\ s2[i].op = "result" => s2[i].note.type = "result"
  BY <1>2 DEF Places
<1> QED BY <1>5, <1>6, <1>7, <1>8, <1>9 DEF Places

\* A drain or a result is pushed.
LEMMA PlacesPush ==
  ASSUME NEW st \in Seq(Frames), NEW s2, NEW f, NEW new, IsPush(st, s2, f), Places(st, new),
         f.op # "initial", f.op = "drain" => f.on = "active",
         f.op = "result" => f.note.type = "result",
         f.on # "active" => \E j \in 1 .. Len(st) : st[j].op = "initial" /\ st[j].on = f.on,
         st # <<>> /\ f.op = "result" /\ st[Len(st)].op = "initial" => f.on = st[Len(st)].on
  PROVE  Places(s2, new)
<1>1. Len(st) \in Nat /\ Len(s2) = Len(st) + 1 BY DEF IsPush
<1>2. \A i \in 1 .. Len(s2) : i \in 1 .. Len(st) \/ i = Len(s2) BY <1>1
<1>3. s2[Len(s2)] = f /\ Len(s2) \in 1 .. Len(s2) BY <1>1 DEF IsPush
<1>4. \A i \in 1 .. Len(st) : s2[i] = st[i] /\ i \in 1 .. Len(s2) BY <1>1 DEF IsPush
<1>5. \A i \in 1 .. Len(st) : \A j \in 1 .. i : j \in 1 .. Len(st) BY <1>1
<1>6. \A i \in 2 .. Len(s2) : i \in 2 .. Len(st) \/ (i = Len(s2) /\ i - 1 = Len(st) /\ st # <<>>)
  <2>1. Len(st) >= 1 => st # <<>> OBVIOUS
  <2> QED BY <1>1, <2>1
<1>7. \A i \in 2 .. Len(st) : i \in 1 .. Len(st) /\ i - 1 \in 1 .. Len(st) BY <1>1
<1>8. st # <<>> => Len(st) \in 1 .. Len(st)
  <2>1. st # <<>> => Len(st) # 0 BY EmptySeq
  <2> QED BY <1>1, <2>1
<1>9. \A i \in 1 .. Len(s2) : s2[i].op = "initial" => i \in 1 .. Len(st) /\ st[i].op = "initial"
  BY <1>2, <1>3, <1>4
<1>10. ASSUME NEW i \in 1 .. Len(s2), s2[i].on # "active"
       PROVE  \E j \in 1 .. i : s2[j].op = "initial" /\ s2[j].on = s2[i].on
  <2>1. CASE i \in 1 .. Len(st)
    <3>1. PICK j \in 1 .. i : st[j].op = "initial" /\ st[j].on = st[i].on
      BY <1>4, <1>10, <2>1 DEF Places
    <3>2. j \in 1 .. Len(st) BY <1>5, <2>1
    <3> QED BY <1>4, <2>1, <3>1, <3>2
  <2>2. CASE i = Len(s2)
    <3>1. PICK j \in 1 .. Len(st) : st[j].op = "initial" /\ st[j].on = f.on
      BY <1>3, <1>10, <2>2
    <3>2. j \in 1 .. i BY <1>1, <2>2
    <3> QED BY <1>3, <1>4, <2>2, <3>1, <3>2
  <2> QED BY <1>2, <2>1, <2>2
<1>11. ASSUME NEW i \in 2 .. Len(s2), s2[i].op = "result", s2[i - 1].op = "initial"
       PROVE  s2[i].on = s2[i - 1].on
  <2>1. CASE i \in 2 .. Len(st) BY <1>4, <1>7, <1>11, <2>1 DEF Places
  <2>2. CASE i = Len(s2) /\ i - 1 = Len(st) /\ st # <<>>
    BY <1>3, <1>4, <1>8, <1>11, <2>2
  <2> QED BY <1>6, <2>1, <2>2
<1>12. \A i, j \in 1 .. Len(s2) :
       s2[i].op = "initial" /\ s2[j].op = "initial" /\ s2[i].on = s2[j].on => i = j
  BY <1>4, <1>9 DEF Places
<1>13. \A i \in 1 .. Len(s2) : s2[i].op = "initial" =>
       /\ s2[i].on = "active" => s2[i].claim
       /\ s2[i].on \notin new
       /\ Len(s2[i].rest) <= 1
       /\ s2[i].rest # <<>> => s2[i].note.type = "node"
  BY <1>4, <1>9 DEF Places
<1>14. \A i \in 1 .. Len(s2) : /\ s2[i].op = "drain" => s2[i].on = "active"
                               /\ s2[i].op = "result" => s2[i].note.type = "result"
  BY <1>2, <1>3, <1>4 DEF Places
<1> QED BY <1>10, <1>11, <1>12, <1>13, <1>14 DEF Places

\* A new listener is called.
LEMMA PlacesAdd ==
  ASSUME NEW st \in Seq(Frames), NEW s2, NEW f, NEW new, IsPush(st, s2, f), Places(st, new),
         NEW l \in new, "active" \notin new,
         f.op = "initial", f.note.type = "node", Len(f.rest) <= 1,
         \/ f.on = l
         \/ f.on = "active" /\ f.claim /\ \A i \in 1 .. Len(st) : st[i].op # "initial"
  PROVE  Places(s2, new \ {l})
<1>1. Len(st) \in Nat /\ Len(s2) = Len(st) + 1 BY DEF IsPush
<1>2. \A i \in 1 .. Len(s2) : i \in 1 .. Len(st) \/ i = Len(s2) BY <1>1
<1>3. s2[Len(s2)] = f /\ Len(s2) \in 1 .. Len(s2) BY <1>1 DEF IsPush
<1>4. \A i \in 1 .. Len(st) : s2[i] = st[i] /\ i \in 1 .. Len(s2) BY <1>1 DEF IsPush
<1>5. \A i \in 1 .. Len(st) : \A j \in 1 .. i : j \in 1 .. Len(st) BY <1>1
<1>6. \A i \in 2 .. Len(s2) : i \in 2 .. Len(st) \/ i = Len(s2) BY <1>1
<1>7. \A i \in 2 .. Len(st) : i \in 1 .. Len(st) /\ i - 1 \in 1 .. Len(st) BY <1>1
<1>8. \A i \in 1 .. Len(st) : st[i].op = "initial" => st[i].on # f.on BY DEF Places
<1>9. \A i, j \in 1 .. Len(s2) :
        s2[i].op = "initial" /\ s2[j].op = "initial" /\ s2[i].on = s2[j].on => i = j
  <2> SUFFICES ASSUME NEW i \in 1 .. Len(s2), NEW j \in 1 .. Len(s2),
                      s2[i].op = "initial", s2[j].op = "initial", s2[i].on = s2[j].on
               PROVE  i = j
    OBVIOUS
  <2>1. CASE i \in 1 .. Len(st) /\ j \in 1 .. Len(st) BY <1>4, <2>1 DEF Places
  <2>2. CASE i = Len(s2) /\ j \in 1 .. Len(st) BY <1>3, <1>4, <1>8, <2>2
  <2>3. CASE j = Len(s2) /\ i \in 1 .. Len(st) BY <1>3, <1>4, <1>8, <2>3
  <2> QED BY <1>2, <2>1, <2>2, <2>3
<1>10. ASSUME NEW i \in 1 .. Len(s2), s2[i].op = "initial"
       PROVE  /\ s2[i].on = "active" => s2[i].claim
              /\ s2[i].on \notin new \ {l}
              /\ Len(s2[i].rest) <= 1
              /\ s2[i].rest # <<>> => s2[i].note.type = "node"
  <2>1. CASE i \in 1 .. Len(st) BY <1>4, <1>10, <2>1 DEF Places
  <2>2. CASE i = Len(s2) BY <1>3, <2>2
  <2> QED BY <1>2, <2>1, <2>2
<1>11. ASSUME NEW i \in 1 .. Len(s2), s2[i].on # "active"
       PROVE  \E j \in 1 .. i : s2[j].op = "initial" /\ s2[j].on = s2[i].on
  <2>1. CASE i \in 1 .. Len(st)
    <3>1. PICK j \in 1 .. i : st[j].op = "initial" /\ st[j].on = st[i].on
      BY <1>4, <1>11, <2>1 DEF Places
    <3>2. j \in 1 .. Len(st) BY <1>5, <2>1
    <3> QED BY <1>4, <2>1, <3>1, <3>2
  <2>2. CASE i = Len(s2)
    <3>1. i \in 1 .. i BY <1>1, <2>2
    <3> QED BY <1>3, <2>2, <3>1
  <2> QED BY <1>2, <2>1, <2>2
<1>12. \A i \in 2 .. Len(s2) : s2[i].op = "result" /\ s2[i - 1].op = "initial" =>
         s2[i].on = s2[i - 1].on
  BY <1>3, <1>4, <1>6, <1>7 DEF Places
<1>13. \A i \in 1 .. Len(s2) : /\ s2[i].op = "drain" => s2[i].on = "active"
                               /\ s2[i].op = "result" => s2[i].note.type = "result"
  BY <1>2, <1>3, <1>4 DEF Places
<1> QED BY <1>9, <1>10, <1>11, <1>12, <1>13 DEF Places
-----------------------------------------------------------------------------
(* Hooks and the cursors that walk them.                                   *)

\* What a list holds.
LEMMA RangeFact ==
  /\ \A s : Range(s) = {s[i] : i \in DOMAIN s}
  /\ Range(<<>>) = {}
  /\ \A x : Range(<<x>>) = {x}
  /\ \A s \in Seq(Listeners) : Range(s) \subseteq Listeners
<1>1. Range(<<>>) = {} BY DEF Range
<1>2. ASSUME NEW x PROVE Range(<<x>>) = {x}
  <2>1. DOMAIN <<x>> = {1} /\ <<x>>[1] = x OBVIOUS
  <2> QED BY <2>1 DEF Range
<1>3. ASSUME NEW s \in Seq(Listeners) PROVE Range(s) \subseteq Listeners
  <2>1. \A i \in DOMAIN s : s[i] \in Listeners OBVIOUS
  <2> QED BY <2>1 DEF Range
<1> QED BY <1>1, <1>2, <1>3 DEF Range

\* What two lists hold together.
LEMMA RangeJoined ==
  ASSUME NEW s \in Seq(Listeners), NEW t \in Seq(Listeners)
  PROVE  s \o t \in Seq(Listeners) /\ Len(s \o t) = Len(s) + Len(t)
         /\ Range(s \o t) = Range(s) \cup Range(t)
<1> DEFINE q == s \o t
<1>1. q \in Seq(Listeners) /\ Len(q) = Len(s) + Len(t) /\ Len(s) \in Nat /\ Len(t) \in Nat
  OBVIOUS
<1>2. DOMAIN q = 1 .. (Len(s) + Len(t)) /\ DOMAIN s = 1 .. Len(s) /\ DOMAIN t = 1 .. Len(t)
  BY <1>1
<1>3. \A i \in 1 .. Len(s) : q[i] = s[i] OBVIOUS
<1>4. \A j \in 1 .. Len(t) : q[Len(s) + j] = t[j] OBVIOUS
<1> HIDE DEF q
<1>5. ASSUME NEW x \in Range(q) PROVE x \in Range(s) \cup Range(t)
  <2>1. PICK i \in 1 .. (Len(s) + Len(t)) : x = q[i] BY <1>2 DEF Range
  <2>2. CASE i <= Len(s) 
    <3>1. i \in 1 .. Len(s) BY <1>1, <2>2
    <3> QED BY <1>2, <1>3, <2>1, <3>1 DEF Range
  <2>3. CASE i > Len(s)
    <3>1. i - Len(s) \in 1 .. Len(t) /\ Len(s) + (i - Len(s)) = i BY <1>1, <2>3
    <3>2. q[i] = t[i - Len(s)] BY <1>4, <3>1
    <3> QED BY <1>2, <2>1, <3>1, <3>2 DEF Range
  <2> QED BY <1>1, <2>2, <2>3
<1>6. Range(s) \subseteq Range(q)
  <2>1. \A i \in 1 .. Len(s) : i \in 1 .. (Len(s) + Len(t)) BY <1>1
  <2> QED BY <1>2, <1>3, <2>1 DEF Range
<1>7. Range(t) \subseteq Range(q)
  <2>1. \A j \in 1 .. Len(t) : Len(s) + j \in 1 .. (Len(s) + Len(t)) BY <1>1
  <2> QED BY <1>2, <1>4, <2>1 DEF Range
<1>8. Range(q) = Range(s) \cup Range(t) BY <1>5, <1>6, <1>7
<1> QED BY <1>1, <1>8 DEF q

\* A list without one of its hooks.
LEMMA WithoutFact ==
  ASSUME NEW s \in Seq(Listeners), NEW l
  PROVE  /\ Without(s, l) \in Seq(Listeners)
         /\ Range(Without(s, l)) \subseteq Range(s)
         /\ Len(Without(s, l)) <= Len(s)
         /\ l \in Range(s) => Len(Without(s, l)) = Len(s) - 1
         /\ l \notin Range(s) => Without(s, l) = s
<1> DEFINE at == {p \in DOMAIN s : s[p] = l}
           p == CHOOSE p \in at : TRUE
           a == SubSeq(s, 1, p - 1)
           b == SubSeq(s, p + 1, Len(s))
<1>1. l \in Range(s) <=> at # {} BY DEF Range
<1>2. Len(s) \in Nat /\ DOMAIN s = 1 .. Len(s) OBVIOUS
<1>3. CASE at = {}
  <2>1. Without(s, l) = s BY <1>3 DEF Without
  <2>2. l \notin Range(s) /\ Len(s) <= Len(s) BY <1>1, <1>2, <1>3
  <2> QED BY <2>1, <2>2
<1>4. CASE at # {}
  <2>1. Without(s, l) = a \o b BY <1>4 DEF Without
  <2>2. p \in 1 .. Len(s) BY <1>2, <1>4
  <2> HIDE DEF p
  <2>3. p - 1 \in 0 .. Len(s) /\ p \in 0 .. Len(s) BY <1>2, <2>2
  <2>4. /\ a \in Seq(Listeners) /\ Len(a) = p - 1
        /\ \A i \in 1 .. (p - 1) : a[i] = s[i]
    BY <2>3, PrefixOf
  <2>5. /\ b \in Seq(Listeners) /\ Len(b) = Len(s) - p
        /\ \A i \in 1 .. (Len(s) - p) : b[i] = s[p + i]
    BY <2>3, SuffixOf
  <2> HIDE DEF a, b
  <2>6. Range(a) \subseteq Range(s)
    <3>1. DOMAIN a = 1 .. (p - 1) BY <2>4
    <3>2. \A i \in 1 .. (p - 1) : i \in 1 .. Len(s) BY <1>2, <2>2
    <3> QED BY <1>2, <2>4, <3>1, <3>2 DEF Range
  <2>7. Range(b) \subseteq Range(s)
    <3>1. DOMAIN b = 1 .. (Len(s) - p) BY <2>5
    <3>2. \A i \in 1 .. (Len(s) - p) : p + i \in 1 .. Len(s) BY <1>2, <2>2
    <3> QED BY <1>2, <2>5, <3>1, <3>2 DEF Range
  <2>8. /\ a \o b \in Seq(Listeners) /\ Len(a \o b) = Len(a) + Len(b)
        /\ Range(a \o b) = Range(a) \cup Range(b)
    BY <2>4, <2>5, RangeJoined
  <2>9. Len(a \o b) = Len(s) - 1 BY <1>2, <2>2, <2>4, <2>5, <2>8
  <2>10. l \in Range(s) BY <1>1, <1>4
  <2> DEFINE q == Without(s, l)
  <2>11. q \in Seq(Listeners) /\ Len(q) = Len(s) - 1 /\ Range(q) = Range(a) \cup Range(b)
    BY <2>1, <2>8, <2>9
  <2>12. Range(q) \subseteq Range(s) BY <2>6, <2>7, <2>11
  <2> HIDE DEF q, at
  <2>13. Len(q) <= Len(s) BY <1>2, <2>11
  <2> QED BY <2>10, <2>11, <2>12, <2>13 DEF q
<1> QED BY <1>3, <1>4

\* Where the hooks of the frame on top are: never aside.
LEMMA HeldTop ==
  ASSUME NEW st \in Seq(Frames), NEW ls, NEW sv
  PROVE  Held(st, ls, sv, Len(st)) = ls[st[Len(st)].on]
<1>1. Len(st) \in Nat OBVIOUS
<1>2. ~Aside(st, Len(st)) BY <1>1 DEF Aside
<1> QED BY <1>2 DEF Held

\* The hooks of a frame do not depend on cursors.
LEMMA AsideAlike ==
  ASSUME NEW st \in Seq(Frames), NEW s2, Alike(st, s2)
  PROVE  \A i \in 1 .. Len(st) : Aside(s2, i) <=> Aside(st, i)
BY DEF Alike, Aside

\* The frame on top is replaced, and nobody isolated or joined.
LEMMA CursorsPut ==
  ASSUME NEW st \in Seq(Frames), NEW s2, NEW f, NEW ls, NEW sv, IsPut(st, s2, f),
         Cursors(st, ls, sv), f.cur <= Len(ls[f.on]),
         (f.op = "initial" /\ f.on = "active")
           <=> (st[Len(st)].op = "initial" /\ st[Len(st)].on = "active")
  PROVE  Cursors(s2, ls, sv)
<1>1. Len(st) \in Nat /\ Len(st) \in 1 .. Len(st) /\ Len(s2) = Len(st) /\ s2 \in Seq(Frames)
  BY DEF IsPut
<1>2. \A i \in 1 .. Len(st) : i # Len(st) => s2[i] = st[i] BY DEF IsPut
<1>3. s2[Len(st)] = f BY DEF IsPut
<1>4. \A i \in 1 .. Len(st) : Aside(s2, i) <=> Aside(st, i) BY <1>1, <1>2, <1>3 DEF Aside
<1>5. \A i \in 1 .. Len(st) : i # Len(st) => Held(s2, ls, sv, i) = Held(st, ls, sv, i)
  BY <1>2, <1>4 DEF Held
<1>6. Held(s2, ls, sv, Len(st)) = ls[f.on] BY <1>1, <1>3, HeldTop
<1> QED BY <1>1, <1>2, <1>3, <1>5, <1>6 DEF Cursors

\* A frame is pushed in front of the hooks it walks.
LEMMA CursorsPush ==
  ASSUME NEW st \in Seq(Frames), NEW s2, NEW f, NEW ls, NEW sv, IsPush(st, s2, f),
         Cursors(st, ls, sv), f.cur <= Len(ls[f.on]),
         ~(f.op = "initial" /\ f.on = "active")
  PROVE  Cursors(s2, ls, sv)
<1>1. Len(st) \in Nat /\ Len(s2) = Len(st) + 1 /\ s2 \in Seq(Frames) BY DEF IsPush
<1>2. \A i \in 1 .. Len(s2) : i \in 1 .. Len(st) \/ i = Len(s2) BY <1>1
<1>3. s2[Len(s2)] = f /\ Len(s2) \in 1 .. Len(s2) BY <1>1 DEF IsPush
<1>4. \A i \in 1 .. Len(st) : s2[i] = st[i] /\ i \in 1 .. Len(s2) BY <1>1 DEF IsPush
<1>5. \A i \in 1 .. Len(st) : Aside(s2, i) <=> Aside(st, i) BY <1>2, <1>3, <1>4 DEF Aside
<1>6. \A i \in 1 .. Len(st) : Held(s2, ls, sv, i) = Held(st, ls, sv, i) BY <1>4, <1>5 DEF Held
<1>7. Held(s2, ls, sv, Len(s2)) = ls[f.on] BY <1>1, <1>3, HeldTop
<1> QED BY <1>2, <1>3, <1>4, <1>6, <1>7 DEF Cursors

\* A frame that isolates nobody goes.
LEMMA CursorsPop ==
  ASSUME NEW st \in Seq(Frames), NEW s2, NEW ls, NEW sv, IsPop(st, s2), Cursors(st, ls, sv),
         ~(st[Len(st)].op = "initial" /\ st[Len(st)].on = "active")
  PROVE  Cursors(s2, ls, sv)
<1>1. Len(st) \in Nat /\ Len(st) = Len(s2) + 1 /\ Len(s2) \in Nat BY DEF IsPop
<1>2. \A i \in 1 .. Len(s2) : s2[i] = st[i] /\ i \in 1 .. Len(st) BY <1>1 DEF IsPop
<1>3. \A i \in 1 .. Len(st) : i \in 1 .. Len(s2) \/ i = Len(st) BY <1>1
<1>4. \A i \in 1 .. Len(s2) : Aside(s2, i) <=> Aside(st, i) BY <1>2, <1>3 DEF Aside
<1>5. \A i \in 1 .. Len(s2) : Held(s2, ls, sv, i) = Held(st, ls, sv, i) BY <1>2, <1>4 DEF Held
<1> QED BY <1>2, <1>5 DEF Cursors

\* Lists in which every frame finds at least as much as before.
LEMMA CursorsGrow ==
  ASSUME NEW st \in Seq(Frames), NEW ls, NEW sv, NEW l2, NEW v2, Cursors(st, ls, sv),
         \A i \in 1 .. Len(st) : /\ Len(Held(st, ls, sv, i)) \in Nat
                                 /\ Len(Held(st, l2, v2, i)) \in Nat
                                 /\ Len(Held(st, ls, sv, i)) <= Len(Held(st, l2, v2, i))
  PROVE  Cursors(st, l2, v2)
<1>1. \A i \in 1 .. Len(st) : st[i].cur \in Nat BY FrameFields
<1> QED BY <1>1 DEF Cursors
-----------------------------------------------------------------------------
(* The parts together.                                                     *)

\* The drain that flush begins, and the one that goes on with a notification.
LEMMA DrainFrame ==
  ASSUME NEW note \in Notes
  PROVE  LET f == Frame("drain", "active", note, <<>>, TRUE)
         IN  /\ f \in Frames /\ f.op = "drain" /\ f.on = "active" /\ f.cur = 0 /\ f.claim
             /\ f.note = note
<1> DEFINE f == Frame("drain", "active", note, <<>>, TRUE)
<1>1. <<>> \in Seq(Notes) OBVIOUS
<1>2. f \in Frames BY <1>1 DEF Frame, Frames
<1>3. f.op = "drain" /\ f.on = "active" /\ f.cur = 0 /\ f.note = note BY DEF Frame
<1>4. f.claim = TRUE BY DEF Frame
<1> QED BY <1>2, <1>3, <1>4

\* The kinds of notifications.
LEMMA NoteFact ==
  /\ Nothing \in Notes /\ Note("result", 0) \in Notes /\ Note("result", 0).type = "result"
  /\ \A n \in Notes : n.type \in Kinds => n.what \in Nat
  /\ \A n \in Notes : n.type = "activate" => n.what \in Listeners
  /\ \A k \in Kinds, v \in Nat : Note(k, v) \in Notes /\ Note(k, v).type = k
  /\ \A v \in [Kinds -> Nat] : Note("done", v) \in Notes
  /\ \A l \in Listeners : Note("activate", l) \in Notes
BY DEF Notes, Note, Nothing, Kinds

\* What the variables hold.
LEMMA TypedFacts ==
  ASSUME Typed
  PROVE  /\ stack \in Seq(Frames) /\ Len(stack) \in Nat /\ queue \in Seq(Notes)
         /\ \A x \in {"active"} \cup Listeners :
              list[x] \in Seq(Listeners) /\ Len(list[x]) \in Nat
         /\ saved \in Seq(Listeners) /\ Len(saved) \in Nat
         /\ "active" \notin fresh /\ "active" \notin Listeners
         /\ \A l \in Listeners : heard[l] \in [Kinds -> Nat] /\ heard[l]["port"] \in Nat
<1>1. "port" \in Kinds BY DEF Kinds
<1> QED BY <1>1, ListenersAssumption DEF Typed

\* The cursor of every frame is within its list.
LEMMA HeldTyped ==
  ASSUME Typed, NEW i \in 1 .. Len(stack)
  PROVE  Held(stack, list, saved, i) \in Seq(Listeners)
         /\ Len(Held(stack, list, saved, i)) \in Nat
<1>1. stack[i].on \in {"active"} \cup Listeners BY TypedFacts, FrameFields
<1> QED BY <1>1, TypedFacts DEF Held

\* A hook of a list was added.
LEMMA NotFresh ==
  ASSUME Typed, Lists(list, saved, heard, fresh), NEW x \in {"active"} \cup Listeners,
         NEW l \in Range(list[x])
  PROVE  l \in Listeners /\ l \notin fresh
<1>1. l \in Listeners BY TypedFacts, RangeFact
<1> QED BY <1>1, TypedFacts DEF Lists

\* Two lists have no hook in common.
LEMMA Apart ==
  ASSUME Typed, Lists(list, saved, heard, fresh), NEW x \in {"active"} \cup Listeners,
         NEW y \in {"active"} \cup Listeners, x # y,
         NEW l \in Range(list[x])
  PROVE  l \notin Range(list[y])
<1>1. "active" \notin Listeners BY TypedFacts
<1> QED BY <1>1 DEF Lists

\* Nobody is alone when nobody is in its initial callbacks.
LEMMA AloneNobody ==
  ASSUME NEW st, NEW ls, NEW h, \A i \in 1 .. Len(st) : st[i].op # "initial"
  PROVE  Alone(st, ls, h)
BY DEF Alone

\* One frame less, or one more that is not a new listener's.
LEMMA AloneFewer ==
  ASSUME NEW st \in Seq(Frames), NEW s2, NEW ls, NEW h, Alone(st, ls, h),
         IsPop(st, s2) \/ \E f : IsPush(st, s2, f) /\ f.op # "initial"
  PROVE  Alone(s2, ls, h)
<1>1. CASE IsPop(st, s2)
  <2>1. Len(st) \in Nat /\ Len(st) = Len(s2) + 1 /\ Len(s2) \in Nat BY <1>1 DEF IsPop
  <2>2. \A i \in 1 .. Len(s2) : s2[i] = st[i] /\ i \in 1 .. Len(st) BY <1>1, <2>1 DEF IsPop
  <2> QED BY <2>2 DEF Alone
<1>2. ASSUME NEW f, IsPush(st, s2, f), f.op # "initial" PROVE Alone(s2, ls, h)
  <2>1. Len(st) \in Nat /\ Len(s2) = Len(st) + 1 BY <1>2 DEF IsPush
  <2>2. \A i \in 1 .. Len(s2) : i \in 1 .. Len(st) \/ i = Len(s2) BY <2>1
  <2>3. s2[Len(s2)] = f BY <1>2, <2>1 DEF IsPush
  <2>4. \A i \in 1 .. Len(st) : s2[i] = st[i] BY <1>2 DEF IsPush
  <2> QED BY <1>2, <2>2, <2>3, <2>4 DEF Alone
<1> QED BY <1>1, <1>2

\* The queue changes and the turn is taken if it is free.
LEMMA Flushes ==
  ASSUME EventsInv, Flush, ver' \in [Kinds -> Nat], queue' \in Seq(Notes),
         UNCHANGED <<list, saved, heard, fresh>>
  PROVE  EventsInv'
<1>1. /\ Typed /\ Turn(stack, dispatching) /\ Places(stack, fresh)
      /\ Cursors(stack, list, saved) /\ Lists(list, saved, heard, fresh)
      /\ Alone(stack, list, heard)
  BY DEF EventsInv
<1>2. CASE dispatching
  <2>1. dispatching' = dispatching /\ stack' = stack BY <1>2 DEF Flush
  <2>2. Typed' BY <1>1, <2>1 DEF Typed
  <2> QED BY <1>1, <2>1, <2>2 DEF EventsInv
<1>3. CASE ~dispatching
  <2> DEFINE f == Frame("drain", "active", Nothing, <<>>, TRUE)
  <2>1. dispatching' = TRUE /\ stack' = Append(stack, f) BY <1>3 DEF Flush
  <2>2. f \in Frames /\ f.op = "drain" /\ f.on = "active" /\ f.cur = 0 /\ f.claim
    BY NoteFact, DrainFrame
  <2> HIDE DEF f
  <2>3. stack \in Seq(Frames) BY <1>1, TypedFacts
  <2>4. IsPush(stack, stack', f) BY <2>1, <2>2, <2>3, PushFact
  <2>5. stack' \in Seq(Frames) BY <2>4 DEF IsPush
  <2>6. Typed' BY <1>1, <2>1, <2>5 DEF Typed
  <2>7. Turn(stack', dispatching')
    <3>1. f.op # "result" BY <2>2
    <3>2. dispatching = FALSE BY <1>1, <1>3 DEF Typed
    <3>3. f.claim = TRUE BY <2>2 DEF Frames
    <3> QED BY <1>1, <2>1, <2>3, <2>4, <3>1, <3>2, <3>3, TurnPushOwner
  <2>8. Places(stack', fresh) BY <1>1, <2>2, <2>3, <2>4, PlacesPush
  <2>9. f.cur <= Len(list[f.on]) BY <1>1, <2>2, TypedFacts
  <2>10. Cursors(stack', list, saved) BY <1>1, <2>2, <2>3, <2>4, <2>9, CursorsPush
  <2>11. Alone(stack', list, heard) BY <1>1, <2>2, <2>3, <2>4, AloneFewer
  <2> QED BY <1>1, <2>6, <2>7, <2>8, <2>10, <2>11 DEF EventsInv
<1> QED BY <1>2, <1>3
-----------------------------------------------------------------------------
(* The calls of the host and the steps of the node.                        *)

\* What the invariant says of the frame on top.
LEMMA TopFact ==
  ASSUME EventsInv, stack # <<>>
  PROVE  /\ Len(stack) \in Nat /\ Len(stack) \in 1 .. Len(stack)
         /\ Top = stack[Len(stack)] /\ Top \in Frames
         /\ Top.on \in {"active"} \cup Listeners /\ Top.cur \in Nat
         /\ Top.claim \in BOOLEAN /\ Top.note \in Notes /\ Top.rest \in Seq(Notes)
         /\ Top.op \in {"drain", "initial", "result"}
         /\ list[Top.on] \in Seq(Listeners) /\ Len(list[Top.on]) \in Nat
         /\ Top.cur <= Len(list[Top.on])
         /\ Top.op = "drain" => Top.claim = TRUE
         /\ Top.op = "result" => Top.claim = FALSE
<1>1. Typed /\ Turn(stack, dispatching) /\ Cursors(stack, list, saved) BY DEF EventsInv
<1>2. stack \in Seq(Frames) BY <1>1, TypedFacts
<1>3. Len(stack) \in Nat /\ Len(stack) # 0 BY <1>2, EmptySeq
<1>4. Len(stack) \in 1 .. Len(stack) BY <1>3
<1>5. /\ Top \in Frames /\ Top.on \in {"active"} \cup Listeners /\ Top.cur \in Nat
      /\ Top.claim \in BOOLEAN /\ Top.note \in Notes /\ Top.rest \in Seq(Notes)
      /\ Top.op \in {"drain", "initial", "result"}
  BY <1>2, <1>4, FrameFields DEF Top
<1>6. list[Top.on] \in Seq(Listeners) /\ Len(list[Top.on]) \in Nat BY <1>1, <1>5, TypedFacts
<1>7. Top.cur <= Len(list[Top.on]) BY <1>1, <1>2, <1>4, HeldTop DEF Cursors, Top
<1>8. /\ Top.op = "drain" => Top.claim
      /\ Top.op = "result" => ~Top.claim
  BY <1>1, <1>4 DEF Turn, Top
<1>9. /\ Top.op = "drain" => Top.claim = TRUE
      /\ Top.op = "result" => Top.claim = FALSE
  BY <1>5, <1>8
<1> QED BY <1>3, <1>4, <1>5, <1>6, <1>7, <1>9 DEF Top

\* A handler changes the node's info or the port's.
LEMMA ChangeKeeps ==
  ASSUME EventsInv, NEW ks, Change(ks)
  PROVE  EventsInv'
<1>1. ver \in [Kinds -> Nat] /\ queue \in Seq(Notes) BY DEF EventsInv, Typed
<1>2. \A k \in Kinds : ver[k] \in Nat /\ ver[k] + 1 \in Nat BY <1>1
<1>3. ver' \in [Kinds -> Nat] BY <1>2 DEF Change
<1>4. Note("node", ver["node"] + 1) \in Notes /\ Note("port", ver["port"] + 1) \in Notes
  BY <1>2, NoteFact DEF Kinds
<1>5. Snapshots(ks) \in Seq(Notes)
  <2> DEFINE a == IF "node" \in ks THEN <<Note("node", ver["node"] + 1)>> ELSE <<>>
             b == IF "port" \in ks THEN <<Note("port", ver["port"] + 1)>> ELSE <<>>
  <2>1. a \in Seq(Notes) BY <1>4
  <2>2. b \in Seq(Notes) BY <1>4
  <2>3. Snapshots(ks) = a \o b BY DEF Snapshots
  <2> HIDE DEF a, b
  <2> QED BY <2>1, <2>2, <2>3
<1>6. queue' \in Seq(Notes) BY <1>1, <1>5 DEF Change
<1> QED BY <1>3, <1>6, Flushes DEF Change

\* The host asks for a sync.
LEMMA SyncKeeps ==
  ASSUME EventsInv, Sync
  PROVE  EventsInv'
<1>1. ver \in [Kinds -> Nat] /\ queue \in Seq(Notes) BY DEF EventsInv, Typed
<1>2. Note("done", ver) \in Notes BY <1>1, NoteFact
<1>3. queue' \in Seq(Notes) BY <1>1, <1>2 DEF Sync, DoneLast
<1>4. ver' \in [Kinds -> Nat] BY <1>1 DEF Sync
<1> QED BY <1>3, <1>4, Flushes DEF Sync

\* A listener is called: it may hear of the port only when the traversal is
\* not that of its own first snapshot.
LEMMA CallKeeps ==
  ASSUME EventsInv, Call
  PROVE  EventsInv'
<1>1. /\ Typed /\ Turn(stack, dispatching) /\ Places(stack, fresh)
      /\ Cursors(stack, list, saved) /\ Lists(list, saved, heard, fresh)
      /\ Alone(stack, list, heard)
  BY DEF EventsInv
<1>2. stack # <<>> /\ stack \in Seq(Frames) BY <1>1, TypedFacts DEF Call
<1>3. /\ Len(stack) \in Nat /\ Len(stack) \in 1 .. Len(stack)
      /\ Top = stack[Len(stack)] /\ Top \in Frames
      /\ Top.on \in {"active"} \cup Listeners /\ Top.cur \in Nat /\ Top.note \in Notes
      /\ Top.op \in {"drain", "initial", "result"}
      /\ list[Top.on] \in Seq(Listeners) /\ Len(list[Top.on]) \in Nat
      /\ Top.cur <= Len(list[Top.on])
      /\ Top.op = "drain" => Top.claim = TRUE
  BY <1>2, TopFact
<1>4. Top.cur # Len(list[Top.on]) BY DEF Call, AtEnd
<1>5. Top.cur + 1 \in 1 .. Len(list[Top.on]) /\ Top.cur + 1 \in Nat BY <1>3, <1>4
<1> DEFINE l == list[Top.on][Top.cur + 1]
           f == Hop(Top)
<1>6. l \in Range(list[Top.on]) BY <1>3, <1>5 DEF Range
<1>7. l \in Listeners /\ l \notin fresh BY <1>1, <1>3, <1>6, NotFresh
<1>8. /\ f \in Frames /\ f.op = Top.op /\ f.on = Top.on /\ f.note = Top.note
      /\ f.rest = Top.rest /\ f.claim = Top.claim /\ f.cur = Top.cur + 1
  BY <1>3, <1>5 DEF Hop, Frames
<1>9. stack' = [stack EXCEPT ![Len(stack)] = f] BY DEF Call, SetTop
<1>10. heard' = IF Top.note.type \in Kinds
                THEN [heard EXCEPT ![l][Top.note.type] = Top.note.what] ELSE heard
  BY DEF Call
<1>11. UNCHANGED <<ver, queue, dispatching, list, saved, fresh, live, calls>> BY DEF Call
<1> HIDE DEF l, f
<1>12. IsPut(stack, stack', f) BY <1>2, <1>8, <1>9, PutFact
<1>13. Alike(stack, stack')
  <2>1. stack' \in Seq(Frames) /\ Len(stack') = Len(stack) BY <1>12 DEF IsPut
  <2>2. \A i \in 1 .. Len(stack) : i # Len(stack) => stack'[i] = stack[i] BY <1>12 DEF IsPut
  <2>3. stack'[Len(stack)] = f BY <1>12 DEF IsPut
  <2> QED BY <1>3, <1>8, <2>1, <2>2, <2>3 DEF Alike
<1>14. heard \in [Listeners -> [Kinds -> Nat]] BY <1>1 DEF Typed
<1>15. heard' \in [Listeners -> [Kinds -> Nat]]
  <2>1. Top.note.type \in Kinds => Top.note.what \in Nat BY <1>3, NoteFact
  <2> QED BY <1>7, <1>10, <1>14, <2>1
<1>16. ASSUME NEW m \in Listeners, m # l \/ Top.note.type # "port"
       PROVE  heard'[m]["port"] = heard[m]["port"]
  BY <1>7, <1>10, <1>14, <1>16 DEF Kinds
<1>17. Typed'
  <2>1. stack' \in Seq(Frames) BY <1>12 DEF IsPut
  <2> QED BY <1>1, <1>11, <1>15, <2>1 DEF Typed
<1>18. Turn(stack', dispatching) BY <1>1, <1>2, <1>13, TurnAlike
<1>19. Places(stack', fresh) BY <1>1, <1>2, <1>13, PlacesAlike
<1>20. Cursors(stack', list, saved)
  <2>1. f.cur <= Len(list[f.on]) BY <1>3, <1>5, <1>8
  <2>2. (f.op = "initial" /\ f.on = "active")
          <=> (stack[Len(stack)].op = "initial" /\ stack[Len(stack)].on = "active")
    BY <1>3, <1>8
  <2> QED BY <1>1, <1>2, <1>12, <2>1, <2>2, CursorsPut
<1>21. Lists(list, saved, heard', fresh)
  <2>1. \A m \in fresh : m \in Listeners /\ m # l BY <1>1, <1>7 DEF Typed
  <2>2. \A m \in fresh : heard'[m]["port"] = heard[m]["port"] BY <1>16, <2>1
  <2> QED BY <1>1, <2>2 DEF Lists
<1>22. ASSUME NEW i \in 1 .. Len(stack), stack[i].op = "initial", stack[i].rest # <<>>
       PROVE  l \notin Range(list[stack[i].on]) \/ Top.note.type # "port"
  <2>1. CASE Top.op = "result"
    <3>1. Top.note.type = "result" BY <1>1, <1>3, <2>1 DEF Places
    <3> QED BY <3>1
  <2>2. CASE Top.op = "drain"
    <3>1. i = Len(stack) BY <1>1, <1>2, <1>3, <1>22, <2>2, TurnAbove
    <3> QED BY <1>3, <1>22, <2>2, <3>1
  <2>3. CASE Top.op = "initial" /\ i = Len(stack)
    <3>1. Top.note.type = "node" BY <1>1, <1>3, <1>22, <2>3 DEF Places
    <3> QED BY <3>1
  <2>4. CASE Top.op = "initial" /\ i # Len(stack)
    <3>1. stack[i].on # Top.on BY <1>1, <1>3, <1>22, <2>4 DEF Places
    <3>2. stack[i].on \in {"active"} \cup Listeners BY <1>2, FrameFields
    <3> QED BY <1>1, <1>3, <1>6, <3>1, <3>2, Apart
  <2> QED BY <1>3, <2>1, <2>2, <2>3, <2>4
<1>23. Alone(stack', list, heard')
  <2>1. Len(stack') = Len(stack) BY <1>13 DEF Alike
  <2> SUFFICES ASSUME NEW i \in 1 .. Len(stack), stack'[i].op = "initial"
               PROVE  /\ stack'[i].on = "active" => Len(list["active"]) <= 1
                      /\ stack'[i].rest # <<>> =>
                           \A m \in Range(list[stack'[i].on]) : heard'[m]["port"] = 0
    BY <2>1 DEF Alone
  <2>2. stack[i].op = "initial" /\ stack'[i].on = stack[i].on /\ stack'[i].rest = stack[i].rest
    BY <1>13 DEF Alike
  <2>3. stack[i].on \in {"active"} \cup Listeners BY <1>2, FrameFields
  <2>4. \A m \in Range(list[stack[i].on]) : m \in Listeners BY <1>1, <2>3, NotFresh
  <2>5. ASSUME stack[i].rest # <<>>, NEW m \in Range(list[stack[i].on])
        PROVE  heard'[m]["port"] = 0
    <3>1. heard[m]["port"] = 0 BY <1>1, <2>2, <2>5 DEF Alone
    <3>2. m # l \/ Top.note.type # "port" BY <1>22, <2>2, <2>5
    <3> QED BY <1>16, <2>4, <3>1, <3>2
  <2>6. stack[i].on = "active" => Len(list["active"]) <= 1 BY <1>1, <2>2 DEF Alone
  <2> QED BY <2>2, <2>5, <2>6
<1> QED BY <1>11, <1>17, <1>18, <1>19, <1>20, <1>21, <1>23 DEF EventsInv

\* A cursor within a list is within a longer one.
LEMMA Longer ==
  /\ \A n \in Nat : 0 <= n
  /\ \A a, b, n \in Nat : n <= a => n <= a + b /\ n <= b + a
OBVIOUS

\* Below the owner of the turn every traversal is of active hooks: the list
\* itself, or the part put aside for an isolated listener.
LEMMA BelowOwner ==
  ASSUME EventsInv, stack # <<>>, Top.claim = TRUE,
         NEW i \in 1 .. Len(stack), i # Len(stack)
  PROVE  /\ stack[i].op # "initial" /\ stack[i].on = "active" /\ stack[i].cur \in Nat
         /\ stack[i].cur <= Len(IF Top.op = "initial" /\ Top.on = "active"
                                THEN saved ELSE list["active"])
<1>1. /\ Typed /\ Turn(stack, dispatching) /\ Places(stack, fresh)
      /\ Cursors(stack, list, saved)
  BY DEF EventsInv
<1>2. stack \in Seq(Frames) BY <1>1, TypedFacts
<1>3. Len(stack) \in Nat /\ Len(stack) \in 1 .. Len(stack) /\ Top = stack[Len(stack)]
  BY TopFact
<1>4. \A j \in 1 .. Len(stack) : stack[j].op = "initial" => j = Len(stack)
  BY <1>1, <1>2, <1>3, TurnAbove
<1>5. stack[i].op # "initial" BY <1>4
<1>6. \A j \in 1 .. i : j \in 1 .. Len(stack) /\ j # Len(stack) BY <1>3
<1>7. stack[i].on = "active" BY <1>1, <1>4, <1>6 DEF Places
<1>8. Aside(stack, i) <=> Top.op = "initial" /\ Top.on = "active"
  <2>1. Len(stack) > i BY <1>3
  <2> QED BY <1>3, <1>4, <2>1 DEF Aside
<1>9. Held(stack, list, saved, i)
        = IF Top.op = "initial" /\ Top.on = "active" THEN saved ELSE list["active"]
  BY <1>7, <1>8 DEF Held
<1>10. stack[i].cur \in Nat BY <1>2, FrameFields
<1> QED BY <1>1, <1>5, <1>7, <1>9, <1>10 DEF Cursors

\* The owner of the turn drains, with the active hooks in one list.
LEMMA DrainGoesOn ==
  ASSUME EventsInv, stack # <<>>, Top.op # "result", Top.claim = TRUE, NEW note \in Notes,
         stack' = [stack EXCEPT ![Len(stack)] = Frame("drain", "active", note, <<>>, TRUE)],
         queue' \in Seq(Notes), saved' \in Seq(Listeners),
         list' \in [{"active"} \cup Listeners -> Seq(Listeners)],
         UNCHANGED <<ver, heard, dispatching, fresh>>,
         Lists(list', saved', heard, fresh),
         \A i \in 1 .. Len(stack) : i # Len(stack) => stack[i].cur <= Len(list'["active"])
  PROVE  EventsInv'
<1>1. /\ Typed /\ Turn(stack, dispatching) /\ Places(stack, fresh)
  BY DEF EventsInv
<1>2. stack \in Seq(Frames) BY <1>1, TypedFacts
<1>3. Len(stack) \in Nat /\ Len(stack) \in 1 .. Len(stack) /\ Top = stack[Len(stack)]
  BY TopFact
<1> DEFINE f == Frame("drain", "active", note, <<>>, TRUE)
<1>4. f \in Frames /\ f.op = "drain" /\ f.on = "active" /\ f.cur = 0 /\ f.claim
  BY DrainFrame
<1> HIDE DEF f
<1>5. IsPut(stack, stack', f) BY <1>2, <1>4, PutFact DEF f
<1>6. stack' \in Seq(Frames) /\ Len(stack') = Len(stack) /\ stack'[Len(stack)] = f
  BY <1>5 DEF IsPut
<1>7. \A i \in 1 .. Len(stack) : i # Len(stack) => stack'[i] = stack[i] BY <1>5 DEF IsPut
<1>8. Typed' BY <1>1, <1>6 DEF Typed
<1>9. Turn(stack', dispatching)
  <2>1. f.claim = TRUE /\ stack[Len(stack)].claim = TRUE BY <1>3, <1>4 DEF Frames
  <2> QED BY <1>1, <1>2, <1>4, <1>5, <2>1, TurnPut
<1>10. Places(stack', fresh)
  <2>1. f.op # "result" /\ stack[Len(stack)].op # "result" BY <1>3, <1>4
  <2> QED BY <1>1, <1>2, <1>4, <1>5, <2>1, PlacesPut
<1>11. \A i \in 1 .. Len(stack) : stack'[i].op # "initial" BY <1>4, <1>6, <1>7, BelowOwner
<1>12. \A i \in 1 .. Len(stack) : stack'[i].on = "active" BY <1>4, <1>6, <1>7, BelowOwner
<1>13. Cursors(stack', list', saved')
  <2>1. \A i \in 1 .. Len(stack) : ~Aside(stack', i) BY <1>6, <1>11 DEF Aside
  <2>2. \A i \in 1 .. Len(stack) : Held(stack', list', saved', i) = list'["active"]
    BY <1>12, <2>1 DEF Held
  <2>3. stack'[Len(stack)].cur <= Len(list'["active"])
    <3>1. list'["active"] \in Seq(Listeners) OBVIOUS
    <3>2. Len(list'["active"]) \in Nat BY <3>1
    <3>3. stack'[Len(stack)].cur = 0 BY <1>4, <1>6
    <3> QED BY <3>2, <3>3, Longer, Zenon
  <2>4. \A i \in 1 .. Len(stack) : stack'[i].cur <= Len(list'["active"]) BY <1>7, <2>3
  <2> QED BY <1>6, <2>2, <2>4 DEF Cursors
<1>14. Alone(stack', list', heard) BY <1>6, <1>11, AloneNobody
<1> QED BY <1>8, <1>9, <1>10, <1>13, <1>14 DEF EventsInv

\* The next notification is taken.
LEMMA DrainNextKeeps ==
  ASSUME EventsInv, DrainNext
  PROVE  EventsInv'
<1>1. Typed /\ Lists(list, saved, heard, fresh) BY DEF EventsInv
<1>2. stack # <<>> /\ Top.op = "drain" /\ queue # <<>> BY DEF DrainNext
<1>3. Top.claim = TRUE BY <1>2, TopFact
<1>4. queue \in Seq(Notes) BY <1>1, TypedFacts
<1>5. Head(queue) \in Notes /\ Tail(queue) \in Seq(Notes) BY <1>2, <1>4
<1>6. /\ queue' = Tail(queue) /\ UNCHANGED <<ver, dispatching, list, saved, heard, fresh>>
      /\ stack' = [stack EXCEPT ![Len(stack)] =
                     Frame("drain", "active", Head(queue), <<>>, TRUE)]
  BY DEF DrainNext, SetTop
<1>7. \A i \in 1 .. Len(stack) : i # Len(stack) => stack[i].cur <= Len(list["active"])
  BY <1>2, <1>3, BelowOwner
<1>8. list \in [{"active"} \cup Listeners -> Seq(Listeners)] /\ saved \in Seq(Listeners)
  BY <1>1 DEF Typed
<1>9. Top.op # "result" BY <1>2
<1> QED BY <1>1, <1>2, <1>3, <1>5, <1>6, <1>7, <1>8, <1>9, DrainGoesOn

\* A cohort joins the active hooks.
LEMMA DrainActivateKeeps ==
  ASSUME EventsInv, DrainActivate
  PROVE  EventsInv'
<1>1. Typed /\ Lists(list, saved, heard, fresh) BY DEF EventsInv
<1>2. stack # <<>> /\ Top.op = "drain" /\ queue # <<>> /\ Head(queue).type = "activate"
  BY DEF DrainActivate
<1>3. Top.claim = TRUE BY <1>2, TopFact
<1>4. queue \in Seq(Notes) BY <1>1, TypedFacts
<1>5. Head(queue) \in Notes /\ Tail(queue) \in Seq(Notes) BY <1>2, <1>4
<1> DEFINE c == Head(queue).what
<1>6. c \in Listeners BY <1>2, <1>5, NoteFact
<1>7. /\ queue' = Tail(queue) /\ UNCHANGED <<ver, dispatching, saved, heard, fresh>>
      /\ stack' = [stack EXCEPT ![Len(stack)] = Frame("drain", "active", Nothing, <<>>, TRUE)]
      /\ list' = [list EXCEPT !["active"] = @ \o list[c], ![c] = <<>>]
  BY DEF DrainActivate, SetTop, AppendFrom
<1> HIDE DEF c
<1>8. list \in [{"active"} \cup Listeners -> Seq(Listeners)] /\ saved \in Seq(Listeners)
  BY <1>1 DEF Typed
<1>9. "active" \notin Listeners /\ list["active"] \in Seq(Listeners) /\ list[c] \in Seq(Listeners)
  BY <1>1, <1>6, TypedFacts
<1>10. /\ list["active"] \o list[c] \in Seq(Listeners)
       /\ Len(list["active"] \o list[c]) = Len(list["active"]) + Len(list[c])
       /\ Range(list["active"] \o list[c]) = Range(list["active"]) \cup Range(list[c])
  BY <1>9, RangeJoined
<1>11. <<>> \in Seq(Listeners) /\ Range(<<>>) = {} BY RangeFact
<1>12. /\ list' \in [{"active"} \cup Listeners -> Seq(Listeners)]
       /\ list'["active"] = list["active"] \o list[c] /\ list'[c] = <<>>
       /\ \A l \in Listeners : l # c => list'[l] = list[l]
  <2>1. c # "active" BY <1>6, <1>9
  <2>2. list' \in [{"active"} \cup Listeners -> Seq(Listeners)]
    BY <1>6, <1>7, <1>8, <1>10, <1>11
  <2>3. list'["active"] = list["active"] \o list[c] BY <1>6, <1>7, <1>8, <2>1
  <2>4. list'[c] = <<>> BY <1>6, <1>7, <1>8
  <2>5. \A l \in Listeners : l # c => list'[l] = list[l] BY <1>7, <1>8, <1>9
  <2> QED BY <2>2, <2>3, <2>4, <2>5
<1>13. Lists(list', saved, heard, fresh)
  <2>1. Range(list'[c]) = {} BY <1>11, <1>12
  <2>2. Range(list'["active"]) = Range(list["active"]) \cup Range(list[c]) BY <1>10, <1>12
  <2>3. Range(list[c]) \subseteq {c} BY <1>1, <1>6 DEF Lists
  <2>4. \A l \in Listeners : Range(list'[l]) \subseteq {l} BY <1>1, <1>12, <2>1 DEF Lists
  <2>5. \A l \in Listeners :
          l \in Range(list'[l]) => l \notin Range(list'["active"]) \cup Range(saved)
    BY <1>1, <1>12, <2>1, <2>2, <2>3 DEF Lists
  <2>6. fresh \subseteq Listeners BY <1>1 DEF Typed
  <2>7. \A l \in fresh : /\ l \notin Range(list'[l]) \cup Range(list'["active"]) \cup Range(saved)
                         /\ heard[l]["port"] = 0
    BY <1>1, <1>12, <2>1, <2>2, <2>3, <2>6 DEF Lists
  <2> QED BY <2>4, <2>5, <2>7 DEF Lists
<1>14. \A i \in 1 .. Len(stack) : i # Len(stack) =>
          stack[i].cur \in Nat /\ stack[i].cur <= Len(list["active"])
  BY <1>2, <1>3, BelowOwner
<1>15. \A i \in 1 .. Len(stack) : i # Len(stack) => stack[i].cur <= Len(list'["active"])
  <2>1. Len(list["active"]) \in Nat /\ Len(list[c]) \in Nat BY <1>9
  <2>2. Len(list'["active"]) = Len(list["active"]) + Len(list[c]) BY <1>10, <1>12
  <2>3. \A n \in Nat : n <= Len(list["active"]) => n <= Len(list["active"]) + Len(list[c])
    BY <2>1, Longer, Zenon
  <2> QED BY <1>14, <2>2, <2>3
<1>16. Top.op # "result" /\ Nothing \in Notes BY <1>2, NoteFact
<1>17. queue' \in Seq(Notes) /\ saved' \in Seq(Listeners) BY <1>5, <1>7, <1>8
<1>18. Lists(list', saved', heard, fresh) BY <1>7, <1>13
<1>19. list' \in [{"active"} \cup Listeners -> Seq(Listeners)] BY <1>12
<1> QED BY <1>2, <1>3, <1>7, <1>15, <1>16, <1>17, <1>18, <1>19, DrainGoesOn

\* A call that changes no list returns.
LEMMA Returns ==
  ASSUME EventsInv, stack # <<>>, stack' = Below, ~(Top.op = "initial" /\ Top.on = "active"),
         UNCHANGED <<ver, queue, list, saved, heard, fresh>>,
         \/ Top.claim = TRUE /\ dispatching' = FALSE
         \/ Top.claim = FALSE /\ dispatching' = dispatching
  PROVE  EventsInv'
<1>1. /\ Typed /\ Turn(stack, dispatching) /\ Places(stack, fresh)
      /\ Cursors(stack, list, saved) /\ Lists(list, saved, heard, fresh)
      /\ Alone(stack, list, heard)
  BY DEF EventsInv
<1>2. stack \in Seq(Frames) BY <1>1, TypedFacts
<1>3. IsPop(stack, stack') BY <1>2, PopFact DEF Below
<1>4. stack' \in Seq(Frames) BY <1>3 DEF IsPop
<1>5. dispatching' \in BOOLEAN BY <1>1 DEF Typed
<1>6. Typed' BY <1>1, <1>4, <1>5 DEF Typed
<1>7. Turn(stack', dispatching')
  <2>1. CASE Top.claim = TRUE /\ dispatching' = FALSE
    BY <1>1, <1>2, <1>3, <2>1, TurnPopOwner DEF Top
  <2>2. CASE Top.claim = FALSE /\ dispatching' = dispatching
    BY <1>1, <1>2, <1>3, <2>2, TurnPopOther DEF Top
  <2> QED BY <2>1, <2>2
<1>8. Places(stack', fresh) BY <1>1, <1>2, <1>3, PlacesPop
<1>9. Cursors(stack', list, saved) BY <1>1, <1>2, <1>3, CursorsPop DEF Top
<1>10. Alone(stack', list, heard) BY <1>1, <1>2, <1>3, AloneFewer
<1> QED BY <1>1, <1>6, <1>7, <1>8, <1>9, <1>10 DEF EventsInv

\* The queue is empty, or a result has reached everybody it is for.
LEMMA EndsKeep ==
  ASSUME EventsInv, DrainEnd \/ ResultEnd
  PROVE  EventsInv'
<1>1. CASE DrainEnd
  <2>1. stack # <<>> /\ Top.op = "drain" BY <1>1 DEF DrainEnd
  <2>2. Top.claim = TRUE BY <2>1, TopFact
  <2> QED BY <1>1, <2>1, <2>2, Returns DEF DrainEnd
<1>2. CASE ResultEnd
  <2>1. stack # <<>> /\ Top.op = "result" BY <1>2 DEF ResultEnd
  <2>2. Top.claim = FALSE BY <2>1, TopFact
  <2> QED BY <1>2, <2>1, <2>2, Returns DEF ResultEnd
<1> QED BY <1>1, <1>2

\* Nothing follows the last notification.
LEMMA LastOne ==
  ASSUME NEW s \in Seq(Notes), s # <<>>, Len(s) <= 1
  PROVE  Tail(s) = <<>>
<1>1. Len(s) \in Nat /\ Len(s) # 0 BY EmptySeq
<1>2. Tail(s) \in Seq(Notes) /\ Len(Tail(s)) = Len(s) - 1 OBVIOUS
<1>3. Len(Tail(s)) = 0 BY <1>1, <1>2
<1> QED BY <1>2, <1>3, EmptySeq

\* The second snapshot follows the first.
LEMMA InitialNextKeeps ==
  ASSUME EventsInv, InitialNext
  PROVE  EventsInv'
<1>1. /\ Typed /\ Turn(stack, dispatching) /\ Places(stack, fresh)
      /\ Cursors(stack, list, saved) /\ Lists(list, saved, heard, fresh)
      /\ Alone(stack, list, heard)
  BY DEF EventsInv
<1>2. stack # <<>> /\ stack \in Seq(Frames) /\ Top.op = "initial" /\ Top.rest # <<>>
  BY <1>1, TypedFacts DEF InitialNext
<1>3. /\ Len(stack) \in Nat /\ Len(stack) \in 1 .. Len(stack) /\ Top = stack[Len(stack)]
      /\ Top.on \in {"active"} \cup Listeners /\ Top.claim \in BOOLEAN
      /\ Top.rest \in Seq(Notes) /\ Len(list[Top.on]) \in Nat
  BY <1>2, TopFact
<1>4. Len(Top.rest) <= 1 BY <1>1, <1>2, <1>3 DEF Places
<1>5. Head(Top.rest) \in Notes /\ Tail(Top.rest) \in Seq(Notes) BY <1>2, <1>3
<1>6. Tail(Top.rest) = <<>> BY <1>2, <1>3, <1>4, LastOne
<1> DEFINE f == Frame("initial", Top.on, Head(Top.rest), Tail(Top.rest), Top.claim)
<1>7. /\ f \in Frames /\ f.op = "initial" /\ f.on = Top.on /\ f.cur = 0
      /\ f.rest = Tail(Top.rest) /\ f.claim = Top.claim
  <2>1. f \in Frames BY <1>3, <1>5 DEF Frame, Frames
  <2> QED BY <2>1 DEF Frame
<1>8. /\ stack' = [stack EXCEPT ![Len(stack)] = f]
      /\ UNCHANGED <<ver, queue, dispatching, list, saved, heard, fresh>>
  BY DEF InitialNext, SetTop
<1> HIDE DEF f
<1>9. IsPut(stack, stack', f) BY <1>2, <1>7, <1>8, PutFact
<1>10. stack' \in Seq(Frames) /\ Len(stack') = Len(stack) /\ stack'[Len(stack)] = f
  BY <1>9 DEF IsPut
<1>11. \A i \in 1 .. Len(stack) : i # Len(stack) => stack'[i] = stack[i] BY <1>9 DEF IsPut
<1>12. Typed' BY <1>1, <1>8, <1>10 DEF Typed
<1>13. f.claim = stack[Len(stack)].claim /\ f.op = stack[Len(stack)].op
       /\ f.on = stack[Len(stack)].on /\ f.rest = <<>>
  BY <1>2, <1>3, <1>6, <1>7
<1>14. Turn(stack', dispatching) BY <1>1, <1>2, <1>9, <1>13, TurnNext
<1>15. f.op # "result" /\ stack[Len(stack)].op # "result" BY <1>7, <1>13
<1>16. Places(stack', fresh) BY <1>1, <1>2, <1>7, <1>9, <1>13, <1>15, PlacesPut
<1>17. f.cur <= Len(list[f.on]) BY <1>3, <1>7, Longer
<1>18. Cursors(stack', list, saved) BY <1>1, <1>2, <1>9, <1>13, <1>17, CursorsPut
<1>19. Alone(stack', list, heard)
  <2>1. \A i \in 1 .. Len(stack) :
          /\ stack'[i].op = stack[i].op /\ stack'[i].on = stack[i].on
          /\ stack'[i].rest # <<>> => stack[i].rest # <<>>
    BY <1>10, <1>11, <1>13
  <2> QED BY <1>1, <1>10, <2>1 DEF Alone
<1> QED BY <1>1, <1>8, <1>12, <1>14, <1>16, <1>18, <1>19 DEF EventsInv

\* The new listener has both snapshots: the hooks are joined again, and the
\* owner of the turn drains.
LEMMA InitialEndKeeps ==
  ASSUME EventsInv, InitialEnd
  PROVE  EventsInv'
<1>1. Typed /\ Places(stack, fresh) /\ Lists(list, saved, heard, fresh) BY DEF EventsInv
<1>2. stack # <<>> /\ Top.op = "initial" BY DEF InitialEnd
<1>3. /\ Len(stack) \in Nat /\ Len(stack) \in 1 .. Len(stack) /\ Top = stack[Len(stack)]
      /\ Top.on \in {"active"} \cup Listeners /\ Top.claim \in BOOLEAN
  BY <1>2, TopFact
<1>4. UNCHANGED <<ver, queue, dispatching, heard, fresh>> BY DEF InitialEnd
<1>5. /\ list \in [{"active"} \cup Listeners -> Seq(Listeners)] /\ saved \in Seq(Listeners)
      /\ queue \in Seq(Notes)
  BY <1>1 DEF Typed
<1>6. Top.op # "result" /\ Nothing \in Notes BY <1>2, NoteFact
<1>7. CASE Top.on = "active"
  <2>1. Top.claim = TRUE BY <1>1, <1>2, <1>3, <1>7 DEF Places
  <2>2. stack' = [stack EXCEPT ![Len(stack)] = Frame("drain", "active", Nothing, <<>>, TRUE)]
    BY <2>1 DEF InitialEnd, SetTop
  <2>3. list' = [list EXCEPT !["active"] = saved \o @] /\ saved' = <<>>
    BY <1>7 DEF InitialEnd
  <2>4. list["active"] \in Seq(Listeners) BY <1>5
  <2>5. /\ saved \o list["active"] \in Seq(Listeners)
        /\ Len(saved \o list["active"]) = Len(saved) + Len(list["active"])
        /\ Range(saved \o list["active"]) = Range(saved) \cup Range(list["active"])
    BY <1>5, <2>4, RangeJoined
  <2>6. /\ list' \in [{"active"} \cup Listeners -> Seq(Listeners)]
        /\ list'["active"] = saved \o list["active"]
    BY <1>5, <2>3, <2>5
  <2>7. "active" \notin Listeners BY <1>1, TypedFacts
  <2>8. \A l \in Listeners : list'[l] = list[l] BY <1>5, <2>3, <2>7
  <2>9. <<>> \in Seq(Listeners) /\ Range(<<>>) = {} BY RangeFact
  <2>10. Range(saved') = {} /\ saved' \in Seq(Listeners) BY <2>3, <2>9
  <2>11. Range(list'["active"]) = Range(saved) \cup Range(list["active"]) BY <2>5, <2>6
  <2>12. fresh \subseteq Listeners BY <1>1 DEF Typed
  <2>13. Lists(list', saved', heard, fresh)
    <3>1. \A l \in Listeners : Range(list'[l]) \subseteq {l} BY <1>1, <2>8 DEF Lists
    <3>2. \A l \in Listeners :
            l \in Range(list'[l]) => l \notin Range(list'["active"]) \cup Range(saved')
      BY <1>1, <2>8, <2>10, <2>11 DEF Lists
    <3>3. \A l \in fresh : /\ l \notin Range(list'[l]) \cup Range(list'["active"]) \cup Range(saved')
                           /\ heard[l]["port"] = 0
      BY <1>1, <2>8, <2>10, <2>11, <2>12 DEF Lists
    <3> QED BY <3>1, <3>2, <3>3 DEF Lists
  <2>14. \A i \in 1 .. Len(stack) : i # Len(stack) =>
           stack[i].cur \in Nat /\ stack[i].cur <= Len(saved)
    BY <1>2, <1>7, <2>1, BelowOwner
  <2>15. \A i \in 1 .. Len(stack) : i # Len(stack) => stack[i].cur <= Len(list'["active"])
    <3>1. Len(saved) \in Nat /\ Len(list["active"]) \in Nat BY <1>5, <2>4
    <3>2. Len(list'["active"]) = Len(saved) + Len(list["active"]) BY <2>5, <2>6
    <3>3. \A n \in Nat : n <= Len(saved) => n <= Len(saved) + Len(list["active"])
      BY <3>1, Longer, Zenon
    <3> QED BY <2>14, <3>2, <3>3
  <2>16. queue' \in Seq(Notes) BY <1>4, <1>5
  <2> QED BY <1>2, <1>4, <1>6, <2>1, <2>2, <2>6, <2>10, <2>13, <2>15, <2>16, DrainGoesOn
<1>8. CASE Top.on # "active" /\ Top.claim = TRUE
  <2>1. stack' = [stack EXCEPT ![Len(stack)] = Frame("drain", "active", Nothing, <<>>, TRUE)]
    BY <1>8 DEF InitialEnd, SetTop
  <2>2. list' = list /\ saved' = saved BY <1>8 DEF InitialEnd
  <2>3. \A i \in 1 .. Len(stack) : i # Len(stack) => stack[i].cur <= Len(list["active"])
    BY <1>2, <1>8, BelowOwner
  <2>4. /\ queue' \in Seq(Notes) /\ saved' \in Seq(Listeners)
        /\ list' \in [{"active"} \cup Listeners -> Seq(Listeners)]
        /\ Lists(list', saved', heard, fresh)
    BY <1>1, <1>4, <1>5, <2>2
  <2>5. \A i \in 1 .. Len(stack) : i # Len(stack) => stack[i].cur <= Len(list'["active"])
    BY <2>2, <2>3
  <2> QED BY <1>2, <1>4, <1>6, <1>8, <2>1, <2>4, <2>5, DrainGoesOn
<1>9. CASE Top.on # "active" /\ Top.claim = FALSE
  <2>1. stack' = Below /\ list' = list /\ saved' = saved BY <1>9 DEF InitialEnd
  <2> QED BY <1>2, <1>4, <1>9, <2>1, Returns
<1> QED BY <1>3, <1>7, <1>8, <1>9

\* The greatest of some positions.
LEMMA Innermost ==
  ASSUME NEW n \in Nat, NEW T, T \subseteq 1 .. n, T # {}
  PROVE  \E x \in T : \A y \in T : y <= x
<1> DEFINE R == OpToRel(<, Nat)
           U == {n - x : x \in T}
<1>1. IsWellFoundedOn(R, Nat) BY NatLessThanWellFounded, Zenon
<1>2. \A x, y \in Nat : <<y, x>> \in R <=> y < x BY DEF OpToRel
<1> HIDE DEF R
<1>3. \A x \in T : n - x \in Nat /\ x \in Nat OBVIOUS
<1>4. U \subseteq Nat /\ U # {} BY <1>3
<1>5. PICK u \in U : \A w \in U : ~(<<w, u>> \in R) BY <1>1, <1>4, WFMin, Zenon
<1>6. PICK x \in T : u = n - x OBVIOUS
<1>7. \A y \in T : ~(n - y < n - x)
  <2> TAKE y \in T
  <2>1. n - y \in U /\ n - y \in Nat /\ n - x \in Nat BY <1>3
  <2> QED BY <1>2, <1>5, <1>6, <2>1
<1>8. \A y \in T : y <= x BY <1>3, <1>7
<1> QED BY <1>8

\* Whom a result is for.
LEMMA TargetFact ==
  ASSUME EventsInv
  PROVE  /\ CurrentTarget \in {"active"} \cup Listeners
         /\ CurrentTarget # "active" =>
              \E j \in 1 .. Len(stack) : stack[j].op = "initial" /\ stack[j].on = CurrentTarget
         /\ stack # <<>> /\ Top.op = "initial" => CurrentTarget = Top.on
<1>1. stack \in Seq(Frames) /\ Len(stack) \in Nat BY TypedFacts DEF EventsInv
<1>2. CASE InitialFrames = {}
  <2>1. CurrentTarget = "active" BY <1>2 DEF CurrentTarget
  <2>2. stack # <<>> => Top.op # "initial" BY <1>2, TopFact DEF InitialFrames
  <2> QED BY <2>1, <2>2
<1>3. CASE InitialFrames # {}
  <2> DEFINE m == CHOOSE i \in InitialFrames : \A j \in InitialFrames : j <= i
  <2>1. InitialFrames \subseteq 1 .. Len(stack) BY DEF InitialFrames
  <2>2. \E i \in InitialFrames : \A j \in InitialFrames : j <= i
    BY <1>1, <1>3, <2>1, Innermost
  <2>3. m \in InitialFrames /\ \A j \in InitialFrames : j <= m BY <2>2
  <2>4. CurrentTarget = stack[m].on BY <1>3 DEF CurrentTarget
  <2> HIDE DEF m
  <2>5. m \in 1 .. Len(stack) /\ stack[m].op = "initial" BY <2>3 DEF InitialFrames
  <2>6. stack[m].on \in {"active"} \cup Listeners BY <1>1, <2>5, FrameFields
  <2>7. ASSUME stack # <<>>, Top.op = "initial" PROVE m = Len(stack)
    <3>1. Len(stack) \in 1 .. Len(stack) /\ Top = stack[Len(stack)] BY <2>7, TopFact
    <3>2. Len(stack) \in InitialFrames BY <2>7, <3>1 DEF InitialFrames
    <3>3. Len(stack) <= m BY <2>3, <3>2
    <3> QED BY <1>1, <2>5, <3>3
  <2> QED BY <2>4, <2>5, <2>6, <2>7 DEF Top
<1> QED BY <1>2, <1>3

\* A result is emitted at once.
LEMMA EnumParamsKeeps ==
  ASSUME EventsInv, EnumParams
  PROVE  EventsInv'
<1>1. /\ Typed /\ Turn(stack, dispatching) /\ Places(stack, fresh)
      /\ Cursors(stack, list, saved) /\ Lists(list, saved, heard, fresh)
      /\ Alone(stack, list, heard)
  BY DEF EventsInv
<1>2. stack \in Seq(Frames) BY <1>1, TypedFacts
<1> DEFINE t == CurrentTarget
           f == Frame("result", t, Note("result", 0), <<>>, FALSE)
<1>3. /\ t \in {"active"} \cup Listeners
      /\ t # "active" => \E j \in 1 .. Len(stack) : stack[j].op = "initial" /\ stack[j].on = t
      /\ stack # <<>> /\ Top.op = "initial" => t = Top.on
  BY TargetFact
<1>4. <<>> \in Seq(Notes) /\ Note("result", 0) \in Notes /\ Note("result", 0).type = "result"
  BY NoteFact
<1> HIDE DEF t
<1>5. /\ f \in Frames /\ f.op = "result" /\ f.on = t /\ f.cur = 0 /\ f.note = Note("result", 0)
      /\ f.claim = FALSE
  <2>1. f \in Frames BY <1>3, <1>4 DEF Frame, Frames
  <2> QED BY <2>1 DEF Frame
<1>6. /\ stack' = Append(stack, f)
      /\ UNCHANGED <<ver, queue, dispatching, list, saved, heard, fresh>>
  BY DEF EnumParams, t
<1> HIDE DEF f
<1>7. IsPush(stack, stack', f) BY <1>2, <1>5, <1>6, PushFact
<1>8. stack' \in Seq(Frames) BY <1>7 DEF IsPush
<1>9. Typed' BY <1>1, <1>6, <1>8 DEF Typed
<1>10. Turn(stack', dispatching) BY <1>1, <1>2, <1>5, <1>7, TurnPushOther
<1>11. Places(stack', fresh)
  <2>1. f.op # "initial" /\ (f.op = "drain" => f.on = "active") /\ f.note.type = "result"
    BY <1>4, <1>5
  <2>2. f.on # "active" => \E j \in 1 .. Len(stack) : stack[j].op = "initial" /\ stack[j].on = f.on
    BY <1>3, <1>5
  <2>3. stack # <<>> /\ stack[Len(stack)].op = "initial" => f.on = stack[Len(stack)].on
    BY <1>3, <1>5 DEF Top
  <2> QED BY <1>1, <1>2, <1>7, <2>1, <2>2, <2>3, PlacesPush
<1>12. f.cur <= Len(list[f.on])
  <2>1. Len(list[t]) \in Nat BY <1>1, <1>3, TypedFacts
  <2> QED BY <1>5, <2>1, Longer
<1>13. Cursors(stack', list, saved) BY <1>1, <1>2, <1>5, <1>7, <1>12, CursorsPush
<1>14. Alone(stack', list, heard) BY <1>1, <1>2, <1>5, <1>7, AloneFewer
<1> QED BY <1>1, <1>6, <1>9, <1>10, <1>11, <1>13, <1>14 DEF EventsInv

\* Outside the dispatch turn nobody is in its initial callbacks, and every
\* traversal walks the active list.
LEMMA OutsideTurn ==
  ASSUME EventsInv, dispatching = FALSE, NEW i \in 1 .. Len(stack)
  PROVE  /\ stack[i].op # "initial" /\ stack[i].on = "active"
         /\ stack[i].cur <= Len(list["active"])
<1>1. /\ Typed /\ Turn(stack, dispatching) /\ Places(stack, fresh)
      /\ Cursors(stack, list, saved)
  BY DEF EventsInv
<1>2. Len(stack) \in Nat BY <1>1, TypedFacts
<1>3. \A n \in 1 .. Len(stack) : \A j \in 1 .. n : j \in 1 .. Len(stack) BY <1>2
<1>4. \A j \in 1 .. Len(stack) : ~stack[j].claim BY <1>1 DEF Turn
<1>5. \A j \in 1 .. Len(stack) : stack[j].op # "initial" BY <1>1, <1>3, <1>4 DEF Turn
<1>6. stack[i].on = "active" BY <1>1, <1>3, <1>5 DEF Places
<1>7. ~Aside(stack, i) BY <1>5 DEF Aside
<1>8. Held(stack, list, saved, i) = list["active"] BY <1>6, <1>7 DEF Held
<1> QED BY <1>1, <1>5, <1>6, <1>8 DEF Cursors

\* A listener is registered while older work exists: it gets a cohort.
LEMMA AddDeferred ==
  ASSUME EventsInv, NEW l \in fresh, AddListener(l), Deferred
  PROVE  EventsInv'
<1>1. /\ Typed /\ Turn(stack, dispatching) /\ Places(stack, fresh)
      /\ Cursors(stack, list, saved) /\ Lists(list, saved, heard, fresh)
      /\ Alone(stack, list, heard)
  BY DEF EventsInv
<1>2. /\ stack \in Seq(Frames) /\ Len(stack) \in Nat /\ queue \in Seq(Notes)
      /\ "active" \notin fresh /\ "active" \notin Listeners /\ fresh \subseteq Listeners
      /\ ver \in [Kinds -> Nat] /\ dispatching \in BOOLEAN /\ saved \in Seq(Listeners)
      /\ list \in [{"active"} \cup Listeners -> Seq(Listeners)]
  BY <1>1, TypedFacts DEF Typed
<1> DEFINE f == Frame("initial", l, Info("node"), <<Info("port")>>, ~dispatching)
<1>3. /\ queue' = Append(queue, Note("activate", l)) /\ list' = [list EXCEPT ![l] = <<l>>]
      /\ saved' = saved /\ stack' = Append(stack, f) /\ fresh' = fresh \ {l}
      /\ UNCHANGED <<ver, heard>>
  BY DEF AddListener, TakesTurn
<1>4. dispatching' = TRUE BY DEF AddListener, TakesTurn
<1>5. /\ Info("node") \in Notes /\ Info("port") \in Notes /\ Info("node").type = "node"
      /\ Note("activate", l) \in Notes
  BY <1>2, NoteFact DEF Info, Kinds
<1>6. /\ f \in Frames /\ f.op = "initial" /\ f.on = l /\ f.cur = 0 /\ f.note.type = "node"
      /\ Len(f.rest) <= 1 /\ f.claim = ~dispatching
  <2>1. (~dispatching) \in BOOLEAN OBVIOUS
  <2>2. <<Info("port")>> \in Seq(Notes) /\ Len(<<Info("port")>>) = 1 BY <1>5
  <2>3. f \in Frames BY <1>2, <1>5, <2>1, <2>2 DEF Frame, Frames
  <2>4. f.rest = <<Info("port")>> /\ f.op = "initial" /\ f.on = l /\ f.cur = 0
        /\ f.note = Info("node") /\ f.claim = ~dispatching
    BY DEF Frame
  <2> HIDE DEF f
  <2>5. f.note.type = "node" BY <1>5, <2>4
  <2>6. Len(f.rest) <= 1 BY <2>2, <2>4
  <2> QED BY <2>3, <2>4, <2>5, <2>6
<1> HIDE DEF f
<1>7. IsPush(stack, stack', f) BY <1>2, <1>3, <1>6, PushFact
<1>8. Len(stack') = Len(stack) + 1 /\ stack' \in Seq(Frames) /\ stack'[Len(stack')] = f
  BY <1>7 DEF IsPush
<1>9. \A i \in 1 .. Len(stack') : i \in 1 .. Len(stack) \/ i = Len(stack') BY <1>2, <1>8
<1>10. \A i \in 1 .. Len(stack) : stack'[i] = stack[i] BY <1>7 DEF IsPush
<1>11. <<l>> \in Seq(Listeners) /\ Len(<<l>>) = 1 /\ Range(<<l>>) = {l} BY <1>2, RangeFact
<1>12. /\ list' \in [{"active"} \cup Listeners -> Seq(Listeners)] /\ list'[l] = <<l>>
       /\ \A x \in {"active"} \cup Listeners : x # l => list'[x] = list[x]
  BY <1>2, <1>3, <1>11
<1>13. Typed'
  <2>1. queue' \in Seq(Notes) BY <1>2, <1>3, <1>5
  <2>2. fresh' \subseteq Listeners BY <1>2, <1>3
  <2> QED BY <1>1, <1>3, <1>4, <1>8, <1>12, <2>1, <2>2 DEF Typed
<1>14. Turn(stack', dispatching')
  <2>1. CASE dispatching = TRUE
    <3>1. f.claim = FALSE /\ dispatching' = dispatching BY <1>4, <1>6, <2>1
    <3>2. Turn(stack', dispatching) BY <1>1, <1>2, <1>6, <1>7, <2>1, <3>1, TurnPushOther
    <3> QED BY <3>1, <3>2
  <2>2. CASE dispatching = FALSE
    <3>1. f.claim = TRUE /\ f.op # "result" BY <1>6, <2>2
    <3> QED BY <1>1, <1>2, <1>4, <1>7, <2>2, <3>1, TurnPushOwner
  <2> QED BY <1>2, <2>1, <2>2
<1>15. Places(stack', fresh \ {l}) BY <1>1, <1>2, <1>6, <1>7, PlacesAdd
<1>16. \A i \in 1 .. Len(stack) : stack[i].on # l
  <2> SUFFICES ASSUME NEW i \in 1 .. Len(stack), stack[i].on = l PROVE FALSE OBVIOUS
  <2>1. stack[i].on # "active" BY <1>2
  <2>2. PICK j \in 1 .. i : stack[j].op = "initial" /\ stack[j].on = stack[i].on
    BY <1>1, <2>1 DEF Places
  <2>3. j \in 1 .. Len(stack) BY <1>2
  <2> QED BY <1>1, <2>2, <2>3 DEF Places
<1>17. \A i \in 1 .. Len(stack) : stack[i].on \in {"active"} \cup Listeners BY <1>2, FrameFields
<1>18. \A i \in 1 .. Len(stack) : list'[stack[i].on] = list[stack[i].on] BY <1>12, <1>16, <1>17
<1>19. Cursors(stack, list', saved)
  <2>1. \A i \in 1 .. Len(stack) : Held(stack, list', saved, i) = Held(stack, list, saved, i)
    BY <1>18 DEF Held
  <2> QED BY <1>1, <2>1 DEF Cursors
<1>20. Cursors(stack', list', saved')
  <2>1. f.cur <= Len(list'[f.on]) BY <1>6, <1>11, <1>12
  <2>2. ~(f.op = "initial" /\ f.on = "active") BY <1>2, <1>6
  <2>3. Cursors(stack', list', saved) BY <1>2, <1>7, <1>19, <2>1, <2>2, CursorsPush
  <2> QED BY <1>3, <2>3
<1>21. list'["active"] = list["active"] /\ \A m \in Listeners : m # l => list'[m] = list[m]
  BY <1>2, <1>12
<1>22. l \notin Range(list["active"]) \cup Range(saved) /\ heard[l]["port"] = 0
  BY <1>1 DEF Lists
<1>23. Lists(list', saved, heard, fresh \ {l})
  <2>1. \A m \in Listeners : Range(list'[m]) \subseteq {m}
    BY <1>1, <1>11, <1>12, <1>21 DEF Lists
  <2>2. \A m \in Listeners : m \in Range(list'[m]) => m \notin Range(list'["active"]) \cup Range(saved)
    BY <1>1, <1>21, <1>22 DEF Lists
  <2>3. \A m \in fresh \ {l} :
          /\ m \notin Range(list'[m]) \cup Range(list'["active"]) \cup Range(saved)
          /\ heard[m]["port"] = 0
    BY <1>1, <1>2, <1>21 DEF Lists
  <2> QED BY <2>1, <2>2, <2>3 DEF Lists
<1>24. Alone(stack', list', heard)
  <2> SUFFICES ASSUME NEW i \in 1 .. Len(stack'), stack'[i].op = "initial"
               PROVE  /\ stack'[i].on = "active" => Len(list'["active"]) <= 1
                      /\ stack'[i].rest # <<>> =>
                           \A m \in Range(list'[stack'[i].on]) : heard[m]["port"] = 0
    BY DEF Alone
  <2>1. CASE i \in 1 .. Len(stack)
    <3>1. /\ stack'[i] = stack[i] /\ list'[stack[i].on] = list[stack[i].on]
          /\ list'["active"] = list["active"]
      BY <1>10, <1>18, <1>21, <2>1
    <3> QED BY <1>1, <2>1, <3>1 DEF Alone
  <2>2. CASE i = Len(stack')
    <3>1. stack'[i].on = l /\ l # "active" BY <1>2, <1>6, <1>8, <2>2
    <3>2. Range(list'[l]) = {l} BY <1>11, <1>12
    <3> QED BY <1>22, <3>1, <3>2
  <2> QED BY <1>9, <2>1, <2>2
<1> QED BY <1>3, <1>13, <1>14, <1>15, <1>20, <1>23, <1>24 DEF EventsInv

\* A listener is registered with nothing else to do: it is isolated.
LEMMA AddIsolated ==
  ASSUME EventsInv, NEW l \in fresh, AddListener(l), ~Deferred
  PROVE  EventsInv'
<1>1. /\ Typed /\ Turn(stack, dispatching) /\ Places(stack, fresh)
      /\ Lists(list, saved, heard, fresh)
  BY DEF EventsInv
<1>2. /\ stack \in Seq(Frames) /\ Len(stack) \in Nat /\ queue \in Seq(Notes)
      /\ "active" \notin fresh /\ "active" \notin Listeners /\ fresh \subseteq Listeners
      /\ ver \in [Kinds -> Nat] /\ dispatching \in BOOLEAN
      /\ list \in [{"active"} \cup Listeners -> Seq(Listeners)]
      /\ list["active"] \in Seq(Listeners)
  BY <1>1, TypedFacts DEF Typed
<1>3. dispatching = FALSE BY <1>2 DEF Deferred
<1> DEFINE f == Frame("initial", "active", Info("node"), <<Info("port")>>, TRUE)
<1>4. /\ queue' = queue /\ list' = [list EXCEPT !["active"] = <<l>>]
      /\ saved' = list["active"] /\ fresh' = fresh \ {l} /\ UNCHANGED <<ver, heard>>
  BY DEF AddListener
<1>5. dispatching' = TRUE /\ stack' = Append(stack, f) BY <1>3 DEF AddListener, TakesTurn
<1>6. Info("node") \in Notes /\ Info("port") \in Notes /\ Info("node").type = "node"
  BY <1>2, NoteFact DEF Info, Kinds
<1>7. /\ f \in Frames /\ f.op = "initial" /\ f.on = "active" /\ f.cur = 0
      /\ f.note.type = "node" /\ Len(f.rest) <= 1 /\ f.claim = TRUE
  <2>1. <<Info("port")>> \in Seq(Notes) /\ Len(<<Info("port")>>) = 1 BY <1>6
  <2>2. f \in Frames BY <1>6, <2>1 DEF Frame, Frames
  <2>3. f.rest = <<Info("port")>> /\ f.op = "initial" /\ f.on = "active" /\ f.cur = 0
        /\ f.note = Info("node") /\ f.claim = TRUE
    BY DEF Frame
  <2> HIDE DEF f
  <2>4. f.note.type = "node" BY <1>6, <2>3
  <2>5. Len(f.rest) <= 1 BY <2>1, <2>3
  <2> QED BY <2>2, <2>3, <2>4, <2>5
<1> HIDE DEF f
<1>8. IsPush(stack, stack', f) BY <1>2, <1>5, <1>7, PushFact
<1>9. Len(stack') = Len(stack) + 1 /\ stack' \in Seq(Frames) /\ stack'[Len(stack')] = f
  BY <1>8 DEF IsPush
<1>10. \A i \in 1 .. Len(stack') : i \in 1 .. Len(stack) \/ i = Len(stack') BY <1>2, <1>9
<1>11. \A i \in 1 .. Len(stack) : stack'[i] = stack[i] BY <1>8 DEF IsPush
<1>12. <<l>> \in Seq(Listeners) /\ Len(<<l>>) = 1 /\ Range(<<l>>) = {l} BY <1>2, RangeFact
<1>13. /\ list' \in [{"active"} \cup Listeners -> Seq(Listeners)] /\ list'["active"] = <<l>>
       /\ \A m \in Listeners : list'[m] = list[m]
  BY <1>2, <1>4, <1>12
<1>14. Typed'
  <2>1. fresh' \subseteq Listeners BY <1>2, <1>4
  <2> QED BY <1>1, <1>2, <1>4, <1>5, <1>9, <1>13, <2>1 DEF Typed
<1>15. Turn(stack', dispatching')
  <2>1. f.op # "result" BY <1>7
  <2> QED BY <1>1, <1>2, <1>3, <1>5, <1>7, <1>8, <2>1, TurnPushOwner
<1>16. \A i \in 1 .. Len(stack) : /\ stack[i].op # "initial" /\ stack[i].on = "active"
                                  /\ stack[i].cur <= Len(list["active"])
  BY <1>3, OutsideTurn
<1>17. Places(stack', fresh \ {l}) BY <1>1, <1>2, <1>7, <1>8, <1>16, PlacesAdd
<1>18. Cursors(stack', list', saved')
  <2> SUFFICES ASSUME NEW i \in 1 .. Len(stack')
               PROVE  stack'[i].cur <= Len(Held(stack', list', saved', i))
    BY DEF Cursors
  <2>1. CASE i \in 1 .. Len(stack)
    <3>1. Len(stack') > i /\ Len(stack') \in 1 .. Len(stack') BY <1>2, <1>9, <2>1
    <3>2. Aside(stack', i) BY <1>7, <1>9, <3>1 DEF Aside
    <3>3. Held(stack', list', saved', i) = list["active"]
      BY <1>4, <1>11, <1>16, <2>1, <3>2 DEF Held
    <3> QED BY <1>11, <1>16, <2>1, <3>3
  <2>2. CASE i = Len(stack')
    <3>1. Held(stack', list', saved', i) = list'["active"] BY <1>7, <1>9, <2>2, HeldTop
    <3> QED BY <1>7, <1>9, <1>12, <1>13, <2>2, <3>1
  <2> QED BY <1>10, <2>1, <2>2
<1>19. l \notin Range(list[l]) \cup Range(list["active"]) /\ heard[l]["port"] = 0
  BY <1>1 DEF Lists
<1>20. Lists(list', saved', heard, fresh \ {l})
  <2>1. Range(list'["active"]) = {l} /\ Range(saved') = Range(list["active"])
    BY <1>4, <1>12, <1>13
  <2>2. \A m \in Listeners : Range(list'[m]) \subseteq {m} BY <1>1, <1>13 DEF Lists
  <2>3. \A m \in Listeners :
          m \in Range(list'[m]) => m \notin Range(list'["active"]) \cup Range(saved')
    BY <1>1, <1>13, <1>19, <2>1 DEF Lists
  <2>4. \A m \in fresh \ {l} :
          /\ m \notin Range(list'[m]) \cup Range(list'["active"]) \cup Range(saved')
          /\ heard[m]["port"] = 0
    BY <1>1, <1>2, <1>13, <2>1 DEF Lists
  <2> QED BY <2>2, <2>3, <2>4 DEF Lists
<1>21. Alone(stack', list', heard)
  <2> SUFFICES ASSUME NEW i \in 1 .. Len(stack'), stack'[i].op = "initial"
               PROVE  /\ Len(list'["active"]) <= 1
                      /\ \A m \in Range(list'[stack'[i].on]) : heard[m]["port"] = 0
    BY DEF Alone
  <2>1. i = Len(stack') BY <1>10, <1>11, <1>16
  <2>2. stack'[i].on = "active" BY <1>7, <1>9, <2>1
  <2>3. Range(list'["active"]) = {l} /\ Len(list'["active"]) = 1 BY <1>12, <1>13
  <2> QED BY <1>19, <2>2, <2>3
<1> QED BY <1>4, <1>14, <1>15, <1>17, <1>18, <1>20, <1>21 DEF EventsInv

\* Where a traversal's hooks are, for the model and for the invariant.
LEMMA HooksHeld ==
  ASSUME NEW i \in 1 .. Len(stack)
  PROVE  Hooks(i) = Held(stack, list, saved, i)
<1>1. (\E j \in InitialFrames : j > i /\ stack[j].on = "active") <=> Aside(stack, i)
  BY DEF InitialFrames, Aside
<1> QED BY <1>1 DEF Hooks, Held

\* A cursor behind the hooks it has visited stays within the list when one
\* hook is unlinked.
LEMMA UnhookFact ==
  ASSUME NEW s \in Seq(Listeners), NEW c \in Nat, c <= Len(s), NEW l
  PROVE  /\ (\E p \in 1 .. c : s[p] = l) => c - 1 \in Nat /\ c - 1 <= Len(Without(s, l))
         /\ ~(\E p \in 1 .. c : s[p] = l) => c <= Len(Without(s, l))
<1>1. Len(s) \in Nat /\ DOMAIN s = 1 .. Len(s) OBVIOUS
<1>2. /\ l \in Range(s) => Len(Without(s, l)) = Len(s) - 1
      /\ l \notin Range(s) => Without(s, l) = s
  BY WithoutFact
<1>3. CASE \E p \in 1 .. c : s[p] = l
  <2>1. PICK p \in 1 .. c : s[p] = l BY <1>3
  <2>2. p \in 1 .. Len(s) BY <1>1
  <2>3. l \in Range(s) BY <1>1, <2>1, <2>2 DEF Range
  <2>4. c - 1 \in Nat /\ c - 1 <= Len(s) - 1 BY <1>1
  <2> QED BY <1>2, <1>3, <2>3, <2>4
<1>4. CASE ~(\E p \in 1 .. c : s[p] = l)
  <2>1. CASE l \in Range(s)
    <3>1. PICK p \in 1 .. Len(s) : s[p] = l BY <1>1, <2>1 DEF Range
    <3>2. p \notin 1 .. c BY <1>4, <3>1
    <3>3. c <= Len(s) - 1 BY <1>1, <3>2
    <3> QED BY <1>2, <1>4, <2>1, <3>3
  <2>2. CASE l \notin Range(s) BY <1>2, <1>4, <2>2
  <2> QED BY <2>1, <2>2
<1> QED BY <1>3, <1>4

\* A hook is unlinked, whoever is walking over it.
LEMMA RemoveListenerKeeps ==
  ASSUME EventsInv, NEW l, RemoveListener(l)
  PROVE  EventsInv'
<1>1. /\ Typed /\ Turn(stack, dispatching) /\ Places(stack, fresh)
      /\ Cursors(stack, list, saved) /\ Lists(list, saved, heard, fresh)
      /\ Alone(stack, list, heard)
  BY DEF EventsInv
<1>2. /\ stack \in Seq(Frames) /\ Len(stack) \in Nat /\ saved \in Seq(Listeners)
      /\ list \in [{"active"} \cup Listeners -> Seq(Listeners)]
  BY <1>1, TypedFacts DEF Typed
<1>3. /\ list' = [x \in DOMAIN list |-> Without(list[x], l)] /\ saved' = Without(saved, l)
      /\ stack' = [i \in DOMAIN stack |-> Unhook(i, l)]
      /\ UNCHANGED <<ver, queue, dispatching, heard, fresh>>
  BY DEF RemoveListener
<1>4. DOMAIN stack = 1 .. Len(stack) BY <1>2
<1>5. \A i \in 1 .. Len(stack) :
        /\ stack[i] \in Frames /\ stack[i].cur \in Nat
        /\ stack[i].on \in {"active"} \cup Listeners
  BY <1>2, FrameFields
<1> DEFINE H(i) == Held(stack, list, saved, i)
<1>6. \A i \in 1 .. Len(stack) : H(i) \in Seq(Listeners) /\ stack[i].cur <= Len(H(i))
  BY <1>1, HeldTyped DEF Cursors
<1>7. \A i \in 1 .. Len(stack) :
        Unhook(i, l) = IF \E p \in 1 .. stack[i].cur : H(i)[p] = l
                       THEN [stack[i] EXCEPT !.cur = @ - 1] ELSE stack[i]
  BY HooksHeld DEF Unhook
<1> HIDE DEF H
<1>8. ASSUME NEW i \in 1 .. Len(stack)
      PROVE  /\ Unhook(i, l) \in Frames
             /\ Unhook(i, l).op = stack[i].op /\ Unhook(i, l).on = stack[i].on
             /\ Unhook(i, l).claim = stack[i].claim /\ Unhook(i, l).note = stack[i].note
             /\ Unhook(i, l).rest = stack[i].rest
             /\ Unhook(i, l).cur <= Len(Without(H(i), l))
  <2>1. /\ (\E p \in 1 .. stack[i].cur : H(i)[p] = l) =>
             stack[i].cur - 1 \in Nat /\ stack[i].cur - 1 <= Len(Without(H(i), l))
        /\ ~(\E p \in 1 .. stack[i].cur : H(i)[p] = l) => stack[i].cur <= Len(Without(H(i), l))
    BY <1>5, <1>6, UnhookFact
  <2>2. CASE \E p \in 1 .. stack[i].cur : H(i)[p] = l
    <3>1. Unhook(i, l) = [stack[i] EXCEPT !.cur = stack[i].cur - 1] BY <1>7, <2>2
    <3>2. stack[i] \in Frames /\ stack[i].cur - 1 \in Nat BY <1>5, <2>1, <2>2
    <3>3. Unhook(i, l) \in Frames BY <3>1, <3>2 DEF Frames
    <3>4. /\ Unhook(i, l).op = stack[i].op /\ Unhook(i, l).on = stack[i].on
          /\ Unhook(i, l).claim = stack[i].claim /\ Unhook(i, l).note = stack[i].note
          /\ Unhook(i, l).rest = stack[i].rest /\ Unhook(i, l).cur = stack[i].cur - 1
      BY <3>1, <3>2 DEF Frames
    <3> QED BY <2>1, <2>2, <3>3, <3>4
  <2>3. CASE ~(\E p \in 1 .. stack[i].cur : H(i)[p] = l)
    <3>1. Unhook(i, l) = stack[i] BY <1>7, <2>3
    <3> QED BY <1>5, <2>1, <2>3, <3>1
  <2> QED BY <2>2, <2>3
<1>9. stack' \in Seq(Frames) /\ Len(stack') = Len(stack)
      /\ \A i \in 1 .. Len(stack) : stack'[i] = Unhook(i, l)
  <2>1. stack' \in [1 .. Len(stack) -> Frames] BY <1>3, <1>4, <1>8
  <2>2. stack' \in Seq(Frames) BY <1>2, <2>1
  <2>3. DOMAIN stack' = 1 .. Len(stack) BY <2>1
  <2>4. Len(stack') = Len(stack) BY <1>2, <2>2, <2>3
  <2> QED BY <1>3, <1>4, <2>2, <2>4
<1>10. Alike(stack, stack') BY <1>8, <1>9 DEF Alike
<1>11. \A x \in {"active"} \cup Listeners : list'[x] = Without(list[x], l) BY <1>2, <1>3
<1>12. /\ list' \in [{"active"} \cup Listeners -> Seq(Listeners)] /\ saved' \in Seq(Listeners)
       /\ \A x \in {"active"} \cup Listeners :
            Range(list'[x]) \subseteq Range(list[x]) /\ Len(list'[x]) <= Len(list[x])
       /\ Range(saved') \subseteq Range(saved)
  <2>1. ASSUME NEW x \in {"active"} \cup Listeners
        PROVE  /\ list'[x] \in Seq(Listeners)
               /\ Range(list'[x]) \subseteq Range(list[x]) /\ Len(list'[x]) <= Len(list[x])
    <3>1. list[x] \in Seq(Listeners) BY <1>2
    <3> QED BY <1>11, <3>1, WithoutFact
  <2>2. saved' \in Seq(Listeners) /\ Range(saved') \subseteq Range(saved)
    BY <1>2, <1>3, WithoutFact
  <2>3. DOMAIN list = {"active"} \cup Listeners BY <1>2
  <2>4. list' \in [{"active"} \cup Listeners -> Seq(Listeners)] BY <1>3, <2>1, <2>3
  <2> QED BY <2>1, <2>2, <2>4
<1>13. Typed' BY <1>1, <1>3, <1>9, <1>12 DEF Typed
<1>14. Turn(stack', dispatching) BY <1>1, <1>2, <1>10, TurnAlike
<1>15. Places(stack', fresh) BY <1>1, <1>2, <1>10, PlacesAlike
<1>16. Cursors(stack', list', saved')
  <2>1. \A i \in 1 .. Len(stack) : Aside(stack', i) <=> Aside(stack, i)
    BY <1>2, <1>10, AsideAlike
  <2>2. ASSUME NEW i \in 1 .. Len(stack)
        PROVE  Held(stack', list', saved', i) = Without(H(i), l)
    <3>1. stack'[i].on = stack[i].on BY <1>8, <1>9
    <3>2. CASE stack[i].on = "active" /\ Aside(stack, i)
      <4>1. H(i) = saved /\ Held(stack', list', saved', i) = saved'
        BY <2>1, <3>1, <3>2 DEF Held, H
      <4> QED BY <1>3, <4>1
    <3>3. CASE ~(stack[i].on = "active" /\ Aside(stack, i))
      <4>1. H(i) = list[stack[i].on] /\ Held(stack', list', saved', i) = list'[stack[i].on]
        BY <2>1, <3>1, <3>3 DEF Held, H
      <4> QED BY <1>5, <1>11, <4>1
    <3> QED BY <3>2, <3>3
  <2> QED BY <1>8, <1>9, <2>2 DEF Cursors
<1>17. Lists(list', saved', heard, fresh)
  <2>1. fresh \subseteq Listeners BY <1>1 DEF Typed
  <2>2. \A m \in Listeners : Range(list'[m]) \subseteq {m} BY <1>1, <1>12 DEF Lists
  <2>3. \A m \in Listeners :
          m \in Range(list'[m]) => m \notin Range(list'["active"]) \cup Range(saved')
    BY <1>1, <1>12 DEF Lists
  <2>4. \A m \in fresh :
          /\ m \notin Range(list'[m]) \cup Range(list'["active"]) \cup Range(saved')
          /\ heard[m]["port"] = 0
    BY <1>1, <1>12, <2>1 DEF Lists
  <2> QED BY <2>2, <2>3, <2>4 DEF Lists
<1>18. Alone(stack', list', heard)
  <2> SUFFICES ASSUME NEW i \in 1 .. Len(stack), stack'[i].op = "initial"
               PROVE  /\ stack'[i].on = "active" => Len(list'["active"]) <= 1
                      /\ stack'[i].rest # <<>> =>
                           \A m \in Range(list'[stack'[i].on]) : heard[m]["port"] = 0
    BY <1>9 DEF Alone
  <2>1. stack[i].op = "initial" /\ stack'[i].on = stack[i].on /\ stack'[i].rest = stack[i].rest
    BY <1>10 DEF Alike
  <2>2. ASSUME stack[i].on = "active" PROVE Len(list'["active"]) <= 1
    <3>1. Len(list["active"]) <= 1 /\ Len(list'["active"]) <= Len(list["active"])
      BY <1>1, <1>12, <2>1, <2>2 DEF Alone
    <3>2. Len(list["active"]) \in Nat /\ Len(list'["active"]) \in Nat BY <1>2, <1>12
    <3> QED BY <3>1, <3>2
  <2>3. stack[i].rest # <<>> => \A m \in Range(list[stack[i].on]) : heard[m]["port"] = 0
    BY <1>1, <2>1 DEF Alone
  <2> QED BY <1>5, <1>12, <2>1, <2>2, <2>3
<1> QED BY <1>3, <1>13, <1>14, <1>15, <1>16, <1>17, <1>18 DEF EventsInv

\* Nobody is registered at first.
LEMMA EventsInit == Init => EventsInv
<1> SUFFICES ASSUME Init PROVE EventsInv OBVIOUS
<1>1. Typed
  <2>1. <<>> \in Seq(Listeners) /\ <<>> \in Seq(Frames) /\ <<>> \in Seq(Notes) OBVIOUS
  <2>2. list \in [{"active"} \cup Listeners -> Seq(Listeners)] BY <2>1 DEF Init
  <2>3. ver \in [Kinds -> Nat] /\ heard \in [Listeners -> [Kinds -> Nat]] BY DEF Init
  <2> QED BY <2>1, <2>2, <2>3 DEF Init, Typed
<1>2. stack = <<>> /\ Len(stack) = 0 /\ dispatching = FALSE BY DEF Init
<1>3. Turn(stack, dispatching) BY <1>2 DEF Turn
<1>4. Places(stack, fresh) BY <1>2 DEF Places
<1>5. Cursors(stack, list, saved) BY <1>2 DEF Cursors
<1>6. Lists(list, saved, heard, fresh)
  <2>1. \A x \in {"active"} \cup Listeners : Range(list[x]) = {} BY RangeFact DEF Init
  <2>2. Range(saved) = {} BY RangeFact DEF Init
  <2>3. \A l \in Listeners : heard[l]["port"] = 0 BY DEF Init, Kinds
  <2>4. fresh = Listeners BY DEF Init
  <2> QED BY <2>1, <2>2, <2>3, <2>4 DEF Lists
<1>7. Alone(stack, list, heard) BY <1>2 DEF Alone
<1> QED BY <1>1, <1>3, <1>4, <1>5, <1>6, <1>7 DEF EventsInv

\* The invariant of re-entrant notification, for every set of listeners and
\* every number of calls.
THEOREM EventsInvariance == Spec => []EventsInv
<1>1. ASSUME EventsInv, [Next]_vars PROVE EventsInv'
  <2>1. CASE UNCHANGED vars
    <3>1. /\ ver' = ver /\ queue' = queue /\ dispatching' = dispatching /\ list' = list
          /\ saved' = saved /\ stack' = stack /\ heard' = heard /\ fresh' = fresh
      BY <2>1 DEF vars
    <3>2. Typed' BY <1>1, <3>1 DEF EventsInv, Typed
    <3> QED BY <1>1, <3>1, <3>2 DEF EventsInv
  <2>2. ASSUME NEW ks \in {{"node"}, {"port"}, Kinds}, Change(ks) PROVE EventsInv'
    BY <2>2, ChangeKeeps, <1>1
  <2>3. CASE Sync BY <1>1, <2>3, SyncKeeps
  <2>4. CASE EnumParams BY <1>1, <2>4, EnumParamsKeeps
  <2>5. ASSUME NEW l \in Listeners, AddListener(l) PROVE EventsInv'
    <3>1. l \in fresh BY <2>5 DEF AddListener
    <3>2. CASE Deferred BY <1>1, <2>5, <3>1, <3>2, AddDeferred
    <3>3. CASE ~Deferred BY <1>1, <2>5, <3>1, <3>3, AddIsolated
    <3> QED BY <3>2, <3>3
  <2>6. ASSUME NEW l \in Listeners, RemoveListener(l) PROVE EventsInv'
    BY <1>1, <2>6, RemoveListenerKeeps
  <2>7. CASE Call BY <1>1, <2>7, CallKeeps
  <2>8. CASE DrainNext BY <1>1, <2>8, DrainNextKeeps
  <2>9. CASE DrainActivate BY <1>1, <2>9, DrainActivateKeeps
  <2>10. CASE DrainEnd \/ ResultEnd BY <1>1, <2>10, EndsKeep
  <2>11. CASE InitialNext BY <1>1, <2>11, InitialNextKeeps
  <2>12. CASE InitialEnd BY <1>1, <2>12, InitialEndKeeps
  <2> QED
    BY <1>1, <2>1, <2>2, <2>3, <2>4, <2>5, <2>6, <2>7, <2>8, <2>9, <2>10, <2>11, <2>12
    DEF Next, HostCall, Step
<1> QED BY <1>1, EventsInit, PTL DEF Spec

\* How many own the turn.
LEMMA OwnersCount ==
  ASSUME EventsInv
  PROVE  OneDispatcher
<1>1. Typed /\ Turn(stack, dispatching) BY DEF EventsInv
<1>2. stack \in Seq(Frames) /\ dispatching \in BOOLEAN BY <1>1, TypedFacts DEF Typed
<1>3. DOMAIN stack = 1 .. Len(stack) BY <1>2
<1> DEFINE O == {i \in DOMAIN stack : stack[i].claim}
<1>4. CASE dispatching
  <2>1. PICK i \in 1 .. Len(stack) : stack[i].claim BY <1>1, <1>4 DEF Turn
  <2>2. \A j \in O : j = i BY <1>1, <1>3, <2>1 DEF Turn
  <2>3. O = {i} BY <1>3, <2>1, <2>2
  <2>4. Cardinality(O) = 1 BY <2>3, FS_Singleton
  <2> QED BY <1>1, <1>3, <1>4, <2>4 DEF OneDispatcher, Turn
<1>5. CASE ~dispatching
  <2>1. O = {} BY <1>1, <1>3, <1>5 DEF Turn
  <2>2. Cardinality(O) = 0 BY <2>1, FS_EmptySet
  <2> QED BY <1>1, <1>3, <1>5, <2>2 DEF OneDispatcher, Turn
<1> QED BY <1>4, <1>5

\* No drain runs above initial callbacks, and the port's snapshot is not
\* preceded by another one.
LEMMA SnapshotsTogether ==
  ASSUME EventsInv
  PROVE  InitialIsAtomic
<1>1. Typed /\ Turn(stack, dispatching) /\ Alone(stack, list, heard) BY DEF EventsInv
<1>2. stack \in Seq(Frames) /\ Len(stack) \in Nat BY <1>1, TypedFacts
<1>3. DOMAIN stack = 1 .. Len(stack) BY <1>2
<1> SUFFICES ASSUME NEW i \in InitialFrames, NEW l \in Listeners, l \in Range(list[stack[i].on])
             PROVE  /\ \A j \in DOMAIN stack : j > i => stack[j].op # "drain"
                    /\ stack[i].rest # <<>> => heard[l]["port"] = 0
  BY DEF InitialIsAtomic
<1>4. i \in 1 .. Len(stack) /\ stack[i].op = "initial" BY DEF InitialFrames
<1>5. PICK k \in 1 .. i : stack[k].claim BY <1>1, <1>4 DEF Turn
<1>6. k \in 1 .. Len(stack) /\ k <= i BY <1>2, <1>4
<1>7. ASSUME NEW j \in 1 .. Len(stack), j > i PROVE stack[j].op # "drain"
  <2>1. j # k BY <1>2, <1>4, <1>6, <1>7
  <2>2. ~stack[j].claim BY <1>1, <1>5, <1>6, <2>1 DEF Turn
  <2> QED BY <1>1, <2>2 DEF Turn
<1>8. stack[i].rest # <<>> => heard[l]["port"] = 0 BY <1>1, <1>4 DEF Alone
<1> QED BY <1>3, <1>7, <1>8

\* What a new listener asks for, it alone is told.
LEMMA ResultsStay ==
  ASSUME EventsInv
  PROVE  ResultStaysLocal
<1>1. /\ Typed /\ Places(stack, fresh) /\ Lists(list, saved, heard, fresh)
      /\ Alone(stack, list, heard)
  BY DEF EventsInv
<1>2. stack \in Seq(Frames) /\ Len(stack) \in Nat BY <1>1, TypedFacts
<1>3. DOMAIN stack = 1 .. Len(stack) BY <1>2
<1> SUFFICES ASSUME NEW i \in 1 .. Len(stack), i > 1, stack[i].op = "result",
                    stack[i - 1].op = "initial"
             PROVE  /\ Range(list[stack[i].on]) = Range(list[stack[i - 1].on])
                    /\ Cardinality(Range(list[stack[i].on])) <= 1
  BY <1>3 DEF ResultStaysLocal
<1>4. i \in 2 .. Len(stack) /\ i - 1 \in 1 .. Len(stack) BY <1>2
<1>5. stack[i].on = stack[i - 1].on BY <1>1, <1>4 DEF Places
<1>6. stack[i].on \in {"active"} \cup Listeners BY <1>2, FrameFields
<1> DEFINE s == list[stack[i].on]
<1>7. s \in Seq(Listeners) BY <1>1, <1>6, TypedFacts
<1>8. \E x : Range(s) \subseteq {x}
  <2>1. CASE stack[i].on = "active"
    <3>1. Len(s) <= 1 BY <1>1, <1>4, <1>5, <2>1 DEF Alone
    <3> HIDE DEF s
    <3>2. Len(s) \in Nat /\ DOMAIN s = 1 .. Len(s) BY <1>7
    <3>3. \A p \in DOMAIN s : p = 1 BY <3>1, <3>2
    <3>4. Range(s) \subseteq {s[1]} BY <3>3 DEF Range
    <3> QED BY <3>4
  <2>2. CASE stack[i].on \in Listeners BY <1>1, <2>2 DEF Lists
  <2> QED BY <1>6, <2>1, <2>2
<1> HIDE DEF s
<1>9. PICK x : Range(s) \subseteq {x} BY <1>8
<1>10. Cardinality(Range(s)) <= 1
  <2>1. CASE Range(s) = {}
    <3>1. Cardinality(Range(s)) = 0 BY <2>1, FS_EmptySet
    <3> QED BY <3>1
  <2>2. CASE Range(s) = {x}
    <3>1. Cardinality(Range(s)) = 1 BY <2>2, FS_Singleton
    <3> QED BY <3>1
  <2>3. Range(s) = {} \/ Range(s) = {x} BY <1>9
  <2> QED BY <2>1, <2>2, <2>3
<1> QED BY <1>5, <1>10 DEF s

\* Re-entrant transactions do not mix, however the callbacks of however many
\* listeners nest: flush, with_new_listener and with_isolated_listener give
\* the dispatch turn to one owner, a new listener gets both its snapshots with
\* nothing in between, and what it asks for meanwhile is answered to it alone.
THEOREM TransactionsAreWhole == Spec => []TransactionsStayWhole
<1>1. EventsInv => TransactionsStayWhole
  BY OwnersCount, SnapshotsTogether, ResultsStay DEF TransactionsStayWhole
<1> QED BY <1>1, EventsInvariance, PTL

-----------------------------------------------------------------------------
(* What each listener knows.  A chain of versions runs along the queue:    *)
(* every notification moves the node's info, the port's or nothing on.     *)

Versions == [Kinds -> Nat \ {0}]

Moves(a, n, b) ==
  IF n.type \in Kinds
  THEN b = [a EXCEPT ![n.type] = a[n.type] + 1] /\ n.what = b[n.type]
  ELSE b = a /\ (n.type = "done" => n.what = b)

Told(W, q, v) ==
  /\ W \in Seq(Versions) /\ Len(W) = Len(q) + 1 /\ W[Len(q) + 1] = v
  /\ \A p \in 1 .. Len(q) : Moves(W[p], q[p], W[p + 1])

(* The frames of a kind.                                                   *)
Doing(st, op) == {st[i] : i \in {j \in 1 .. Len(st) : st[j].op = op}}

(* The hooks that follow the queue: the active ones, or those put aside    *)
(* for an isolated listener.                                               *)
Isolated(ns) == \E f \in ns : f.on = "active"
Hub(ns, ls, sv) == IF Isolated(ns) THEN sv ELSE ls["active"]

(* They know the version at the head of the queue, but for those that the  *)
(* drain has still to call with its notification.                          *)
Behind(ds, p) == \E f \in ds : f.cur < p
Draining(ds, A, b) == \A f \in ds : Moves(A, f.note, b)
Standing(ds, hub, h, A, b) ==
  \A p \in 1 .. Len(hub) : h[hub[p]] = IF Behind(ds, p) THEN A ELSE b

(* A new listener is on its way to the two snapshots of version S.         *)
Newcomer(f, x, S) ==
  /\ f.rest # <<>> => /\ f.note = Note("node", S["node"]) /\ f.rest = <<Note("port", S["port"])>>
                      /\ x["port"] = 0 /\ x["node"] = IF f.cur = 0 THEN 0 ELSE S["node"]
  /\ f.rest = <<>> => /\ f.note = Note("port", S["port"]) /\ x["node"] = S["node"]
                      /\ x["port"] = IF f.cur = 0 THEN 0 ELSE S["port"]

(* The isolated listener starts from the head of the queue, a cohort from  *)
(* its barrier.                                                            *)
Guests(ns, ls, h, b) ==
  \A f \in ns : f.on = "active" => \A l \in Range(ls["active"]) : Newcomer(f, h[l], b)
Cohort(ns, l, x, S) ==
  /\ \A f \in ns : f.on = l => Newcomer(f, x, S)
  /\ (\A f \in ns : f.on # l) => x = S
Cohorts(ns, ls, h, q, W) ==
  \A p \in 1 .. Len(q) : \A l \in Listeners :
    q[p] = Note("activate", l) /\ l \in Range(ls[l]) => Cohort(ns, l, h[l], W[p + 1])

(* A cohort has one barrier, which nobody else has.                        *)
Barriers(q, ls, sv, new) ==
  /\ \A l \in Listeners :
       l \in Range(ls[l]) => \E p \in 1 .. Len(q) : q[p] = Note("activate", l)
  /\ \A p \in 1 .. Len(q) : \A l \in Listeners :
       q[p] = Note("activate", l) => l \notin Range(ls["active"]) \cup Range(sv) \cup new
  /\ \A p, r \in 1 .. Len(q) : \A l \in Listeners :
       q[p] = Note("activate", l) /\ q[r] = Note("activate", l) => p = r

(* A registered listener is linked once, in one list.                      *)
Once(s) == \A p, r \in 1 .. Len(s) : s[p] = s[r] => p = r
Members(ls, sv, lv, new, h) ==
  /\ Once(ls["active"]) /\ Once(sv) /\ Range(ls["active"]) \cap Range(sv) = {}
  /\ lv \subseteq Listeners \ new
  /\ \A l \in Listeners :
       /\ Len(ls[l]) <= 1
       /\ l \in lv <=> l \in Range(ls[l]) \cup Range(ls["active"]) \cup Range(sv)
  /\ \A l \in new : h[l]["node"] = 0

(* Nothing waits outside the dispatch turn, which no cohort owns; a new    *)
(* listener is given snapshots only.                                       *)
Settled(ns, sv, q, d) ==
  /\ ~Isolated(ns) => sv = <<>>
  /\ d = FALSE => q = <<>>
  /\ \A f \in ns : /\ f.on # "active" => f.claim = FALSE
                   /\ f.note.type \in Kinds
                   /\ f.rest # <<>> => Head(f.rest).type \in Kinds

Delivery(A, W) ==
  /\ A \in Versions /\ Told(W, queue, ver)
  /\ Draining(Doing(stack, "drain"), A, W[1])
  /\ Standing(Doing(stack, "drain"), Hub(Doing(stack, "initial"), list, saved), heard, A, W[1])
  /\ Guests(Doing(stack, "initial"), list, heard, W[1])
  /\ Cohorts(Doing(stack, "initial"), list, heard, queue, W)
  /\ Barriers(queue, list, saved, fresh)
  /\ Members(list, saved, live, fresh, heard)
  /\ Settled(Doing(stack, "initial"), saved, queue, dispatching)

DeliveryInv == \E A, W : Delivery(A, W)
-----------------------------------------------------------------------------
(* Sets of frames.                                                         *)

\* A frame is pushed.
LEMMA DoingPush ==
  ASSUME NEW st \in Seq(Frames), NEW s2, NEW f, NEW op, IsPush(st, s2, f)
  PROVE  /\ f.op = op => Doing(s2, op) = Doing(st, op) \cup {f}
         /\ f.op # op => Doing(s2, op) = Doing(st, op)
<1>1. Len(st) \in Nat /\ Len(s2) = Len(st) + 1 BY DEF IsPush
<1>2. \A i \in 1 .. Len(s2) : i \in 1 .. Len(st) \/ i = Len(s2) BY <1>1
<1>3. s2[Len(s2)] = f /\ Len(s2) \in 1 .. Len(s2) BY <1>1 DEF IsPush
<1>4. \A i \in 1 .. Len(st) : s2[i] = st[i] /\ i \in 1 .. Len(s2) BY <1>1 DEF IsPush
<1>5. Doing(st, op) \subseteq Doing(s2, op) BY <1>4 DEF Doing
<1>6. f.op = op => f \in Doing(s2, op) BY <1>3 DEF Doing
<1>7. ASSUME NEW g \in Doing(s2, op) PROVE g \in Doing(st, op) \/ (g = f /\ f.op = op)
  <2>1. PICK i \in 1 .. Len(s2) : g = s2[i] /\ s2[i].op = op BY DEF Doing
  <2>2. CASE i \in 1 .. Len(st) BY <1>4, <2>1, <2>2 DEF Doing
  <2>3. CASE i = Len(s2) BY <1>3, <2>1, <2>3
  <2> QED BY <1>2, <2>2, <2>3
<1> QED BY <1>5, <1>6, <1>7

\* The top frame goes.
LEMMA DoingPop ==
  ASSUME NEW st \in Seq(Frames), NEW s2, NEW op, IsPop(st, s2)
  PROVE  /\ st[Len(st)].op # op => Doing(s2, op) = Doing(st, op)
         /\ (\A i \in 1 .. Len(st) : i # Len(st) /\ st[i].op = op => st[i] # st[Len(st)])
              => Doing(s2, op) = Doing(st, op) \ {st[Len(st)]}
<1>1. Len(st) \in Nat /\ Len(st) = Len(s2) + 1 /\ Len(s2) \in Nat BY DEF IsPop
<1>2. \A i \in 1 .. Len(s2) : s2[i] = st[i] /\ i \in 1 .. Len(st) /\ i # Len(st)
  BY <1>1 DEF IsPop
<1>3. \A i \in 1 .. Len(st) : i \in 1 .. Len(s2) \/ i = Len(st) BY <1>1
<1>4. Doing(s2, op) \subseteq Doing(st, op) BY <1>2 DEF Doing
<1>5. ASSUME NEW g \in Doing(st, op) PROVE g \in Doing(s2, op) \/ (g = st[Len(st)] /\ g.op = op)
  <2>1. PICK i \in 1 .. Len(st) : g = st[i] /\ st[i].op = op BY DEF Doing
  <2>2. CASE i \in 1 .. Len(s2) BY <1>2, <2>1, <2>2 DEF Doing
  <2>3. CASE i = Len(st) BY <2>1, <2>3
  <2> QED BY <1>3, <2>2, <2>3
<1>6. st[Len(st)].op # op => Doing(s2, op) = Doing(st, op) BY <1>4, <1>5
<1>7. ASSUME \A i \in 1 .. Len(st) : i # Len(st) /\ st[i].op = op => st[i] # st[Len(st)]
      PROVE  Doing(s2, op) = Doing(st, op) \ {st[Len(st)]}
  <2>1. ASSUME NEW g \in Doing(s2, op) PROVE g # st[Len(st)]
    <3>1. PICK i \in 1 .. Len(s2) : g = s2[i] /\ s2[i].op = op BY DEF Doing
    <3> QED BY <1>2, <1>7, <3>1
  <2> QED BY <1>4, <1>5, <2>1
<1> QED BY <1>6, <1>7

\* The top frame is replaced.
LEMMA DoingPut ==
  ASSUME NEW st \in Seq(Frames), NEW s2, NEW f, NEW op, IsPut(st, s2, f)
  PROVE  /\ st[Len(st)].op # op /\ f.op # op => Doing(s2, op) = Doing(st, op)
         /\ st[Len(st)].op # op /\ f.op = op => Doing(s2, op) = Doing(st, op) \cup {f}
         /\ (\A i \in 1 .. Len(st) : i # Len(st) /\ st[i].op = op => st[i] # st[Len(st)])
              => /\ f.op = op => Doing(s2, op) = (Doing(st, op) \ {st[Len(st)]}) \cup {f}
                 /\ f.op # op => Doing(s2, op) = Doing(st, op) \ {st[Len(st)]}
<1>1. Len(st) \in Nat /\ Len(st) \in 1 .. Len(st) /\ Len(s2) = Len(st) BY DEF IsPut
<1>2. \A i \in 1 .. Len(st) : i # Len(st) => s2[i] = st[i] BY DEF IsPut
<1>3. s2[Len(st)] = f BY DEF IsPut
<1>4. ASSUME NEW g \in Doing(s2, op)
      PROVE  (g = f /\ f.op = op) \/ \E i \in 1 .. Len(st) : i # Len(st) /\ g = st[i] /\ g.op = op
  <2>1. PICK i \in 1 .. Len(st) : g = s2[i] /\ s2[i].op = op BY <1>1 DEF Doing
  <2> QED BY <1>2, <1>3, <2>1
<1>5. ASSUME NEW g \in Doing(st, op) PROVE g \in Doing(s2, op) \/ (g = st[Len(st)] /\ g.op = op)
  <2>1. PICK i \in 1 .. Len(st) : g = st[i] /\ st[i].op = op BY DEF Doing
  <2>2. CASE i # Len(st) BY <1>1, <1>2, <2>1, <2>2 DEF Doing
  <2>3. CASE i = Len(st) BY <2>1, <2>3
  <2> QED BY <2>2, <2>3
<1>6. f.op = op => f \in Doing(s2, op) BY <1>1, <1>3 DEF Doing
<1>7. \A i \in 1 .. Len(st) : st[i].op = op => st[i] \in Doing(st, op) BY DEF Doing
<1>8. st[Len(st)].op # op => Doing(st, op) \subseteq Doing(s2, op) BY <1>5
<1>9. Doing(s2, op) \subseteq Doing(st, op) \cup (IF f.op = op THEN {f} ELSE {}) BY <1>4, <1>7
<1>10. ASSUME \A i \in 1 .. Len(st) : i # Len(st) /\ st[i].op = op => st[i] # st[Len(st)]
       PROVE  /\ f.op = op => Doing(s2, op) = (Doing(st, op) \ {st[Len(st)]}) \cup {f}
              /\ f.op # op => Doing(s2, op) = Doing(st, op) \ {st[Len(st)]}
  <2>1. Doing(st, op) \ {st[Len(st)]} \subseteq Doing(s2, op) BY <1>5
  <2>2. \A g \in Doing(s2, op) : (g = f /\ f.op = op) \/ (g \in Doing(st, op) /\ g # st[Len(st)])
    BY <1>4, <1>7, <1>10
  <2> QED BY <1>6, <2>1, <2>2
<1> QED BY <1>6, <1>8, <1>9, <1>10

\* What the invariant says of the frames as sets.
LEMMA DoingFacts ==
  ASSUME EventsInv
  PROVE  /\ \A op : \A f \in Doing(stack, op) : f \in Frames /\ f.op = op
         /\ \A f \in Doing(stack, "initial") :
              /\ f.on \in {"active"} \cup Listeners /\ f.cur \in Nat /\ f.cur <= Len(list[f.on])
              /\ f.on = "active" => f.claim = TRUE /\ Len(list["active"]) <= 1
              /\ f.on \notin fresh
         /\ \A f, g \in Doing(stack, "initial") : f.on = g.on => f = g
         /\ \A f \in Doing(stack, "drain") : f.cur \in Nat /\ f.cur <= Len(list["active"])
         /\ \A f, g \in Doing(stack, "drain") : f = g
         /\ \A f \in Doing(stack, "drain") : ~Isolated(Doing(stack, "initial"))
         /\ dispatching = FALSE => Doing(stack, "initial") = {} /\ Doing(stack, "drain") = {}
<1>1. /\ Typed /\ Turn(stack, dispatching) /\ Places(stack, fresh)
      /\ Cursors(stack, list, saved) /\ Alone(stack, list, heard)
  BY DEF EventsInv
<1>2. stack \in Seq(Frames) /\ Len(stack) \in Nat BY <1>1, TypedFacts
<1>3. \A op : \A f \in Doing(stack, op) : \E i \in 1 .. Len(stack) : f = stack[i] /\ stack[i].op = op
  BY DEF Doing
<1>4. \A i \in 1 .. Len(stack) :
        /\ stack[i] \in Frames /\ stack[i].cur \in Nat /\ stack[i].claim \in BOOLEAN
        /\ stack[i].on \in {"active"} \cup Listeners
  BY <1>2, FrameFields
<1>5. \A op : \A f \in Doing(stack, op) : f \in Frames /\ f.op = op BY <1>3, <1>4
<1>6. ASSUME NEW i \in 1 .. Len(stack), stack[i].op = "initial"
      PROVE  /\ stack[i].cur <= Len(list[stack[i].on])
             /\ stack[i].on = "active" => stack[i].claim = TRUE /\ Len(list["active"]) <= 1
             /\ stack[i].on \notin fresh
  <2>1. ~(stack[i].on = "active" /\ Aside(stack, i))
    <3> SUFFICES ASSUME stack[i].on = "active", Aside(stack, i) PROVE FALSE OBVIOUS
    <3>1. PICK j \in 1 .. Len(stack) : j > i /\ stack[j].op = "initial" /\ stack[j].on = "active"
      BY DEF Aside
    <3>2. j = i BY <1>1, <1>6, <3>1 DEF Places
    <3> QED BY <1>2, <3>1, <3>2
  <2>2. Held(stack, list, saved, i) = list[stack[i].on] BY <2>1 DEF Held
  <2>3. stack[i].cur <= Len(list[stack[i].on]) BY <1>1, <2>2 DEF Cursors
  <2>4. stack[i].on = "active" => stack[i].claim /\ Len(list["active"]) <= 1
    BY <1>1, <1>6 DEF Places, Alone
  <2>5. stack[i].on = "active" => stack[i].claim = TRUE BY <1>4, <2>4
  <2>6. stack[i].on \notin fresh BY <1>1, <1>6 DEF Places
  <2> QED BY <2>3, <2>4, <2>5, <2>6
<1>7. \A f \in Doing(stack, "initial") :
        /\ f.on \in {"active"} \cup Listeners /\ f.cur \in Nat /\ f.cur <= Len(list[f.on])
        /\ f.on = "active" => f.claim = TRUE /\ Len(list["active"]) <= 1
        /\ f.on \notin fresh
  <2> TAKE f \in Doing(stack, "initial")
  <2>1. PICK i \in 1 .. Len(stack) : f = stack[i] /\ stack[i].op = "initial" BY <1>3
  <2> QED BY <1>4, <1>6, <2>1
<1>8. \A f, g \in Doing(stack, "initial") : f.on = g.on => f = g
  <2> TAKE f, g \in Doing(stack, "initial")
  <2>1. PICK i \in 1 .. Len(stack) : f = stack[i] /\ stack[i].op = "initial" BY <1>3
  <2>2. PICK j \in 1 .. Len(stack) : g = stack[j] /\ stack[j].op = "initial" BY <1>3
  <2> QED BY <1>1, <2>1, <2>2 DEF Places
<1>9. \A i \in 1 .. Len(stack) : stack[i].op = "drain" => stack[i].claim BY <1>1 DEF Turn
<1>10. \A f, g \in Doing(stack, "drain") : f = g
  <2> TAKE f, g \in Doing(stack, "drain")
  <2>1. PICK i \in 1 .. Len(stack) : f = stack[i] /\ stack[i].op = "drain" BY <1>3
  <2>2. PICK j \in 1 .. Len(stack) : g = stack[j] /\ stack[j].op = "drain" BY <1>3
  <2>3. i = j BY <1>1, <1>9, <2>1, <2>2 DEF Turn
  <2> QED BY <2>1, <2>2, <2>3
<1>11. \A i, j \in 1 .. Len(stack) :
         ~(stack[i].op = "drain" /\ stack[j].op = "initial" /\ stack[j].on = "active")
  <2> SUFFICES ASSUME NEW i \in 1 .. Len(stack), NEW j \in 1 .. Len(stack),
                      stack[i].op = "drain", stack[j].op = "initial", stack[j].on = "active"
               PROVE  FALSE
    OBVIOUS
  <2>1. stack[j].claim BY <1>1 DEF Places
  <2>2. i = j BY <1>1, <1>9, <2>1 DEF Turn
  <2> QED BY <2>2
<1>12. \A f \in Doing(stack, "drain") : ~Isolated(Doing(stack, "initial"))
  <2> TAKE f \in Doing(stack, "drain")
  <2> SUFFICES ASSUME NEW g \in Doing(stack, "initial"), g.on = "active" PROVE FALSE
    BY DEF Isolated
  <2>1. PICK i \in 1 .. Len(stack) : f = stack[i] /\ stack[i].op = "drain" BY <1>3
  <2>2. PICK j \in 1 .. Len(stack) : g = stack[j] /\ stack[j].op = "initial" BY <1>3
  <2> QED BY <1>11, <2>1, <2>2
<1>13. \A f \in Doing(stack, "drain") : f.cur \in Nat /\ f.cur <= Len(list["active"])
  <2> TAKE f \in Doing(stack, "drain")
  <2>1. PICK i \in 1 .. Len(stack) : f = stack[i] /\ stack[i].op = "drain" BY <1>3
  <2>2. ~Aside(stack, i) BY <1>11, <2>1 DEF Aside
  <2>3. stack[i].on = "active" BY <1>1, <2>1 DEF Places
  <2>4. Held(stack, list, saved, i) = list["active"] BY <2>2, <2>3 DEF Held
  <2> QED BY <1>1, <1>4, <2>1, <2>4 DEF Cursors
<1>14. ASSUME dispatching = FALSE
       PROVE  Doing(stack, "initial") = {} /\ Doing(stack, "drain") = {}
  <2>1. \A i \in 1 .. Len(stack) : ~stack[i].claim BY <1>1, <1>14 DEF Turn
  <2>2. \A i \in 1 .. Len(stack) : stack[i].op # "initial" BY <1>14, OutsideTurn
  <2> QED BY <1>3, <1>9, <2>1, <2>2
<1> QED BY <1>5, <1>7, <1>8, <1>10, <1>12, <1>13, <1>14

-----------------------------------------------------------------------------
(* Chains of versions.                                                     *)

\* A chain has a version at every place of the queue and behind it.
LEMMA ToldFact ==
  ASSUME NEW W, NEW q \in Seq(Notes), NEW v, Told(W, q, v)
  PROVE  /\ Len(q) \in Nat /\ 1 \in 1 .. Len(W) /\ v \in Versions
         /\ \A p \in 1 .. Len(q) + 1 : W[p] \in Versions /\ p \in 1 .. Len(W)
<1>1. Len(q) \in Nat /\ W \in Seq(Versions) /\ Len(W) = Len(q) + 1 /\ W[Len(q) + 1] = v
  BY DEF Told
<1>2. \A p \in 1 .. Len(q) + 1 : p \in 1 .. Len(W) BY <1>1
<1>3. \A p \in 1 .. Len(W) : W[p] \in Versions BY <1>1
<1>4. 1 \in 1 .. Len(q) + 1 /\ Len(q) + 1 \in 1 .. Len(q) + 1 BY <1>1
<1> QED BY <1>1, <1>2, <1>3, <1>4

\* A notification goes to the end of the queue.
LEMMA ToldAppend ==
  ASSUME NEW W, NEW q \in Seq(Notes), NEW v, Told(W, q, v), NEW n \in Notes,
         NEW v2 \in Versions, Moves(v, n, v2)
  PROVE  /\ Told(Append(W, v2), Append(q, n), v2)
         /\ \A p \in 1 .. Len(q) + 1 : Append(W, v2)[p] = W[p]
<1>1. Len(q) \in Nat /\ W \in Seq(Versions) /\ Len(W) = Len(q) + 1 /\ W[Len(q) + 1] = v
  BY DEF Told
<1> DEFINE X == Append(W, v2)
           r == Append(q, n)
<1>2. X \in Seq(Versions) /\ Len(X) = Len(q) + 2 BY <1>1
<1>3. \A p \in 1 .. Len(q) + 1 : X[p] = W[p] BY <1>1
<1>4. X[Len(q) + 2] = v2 BY <1>1
<1>5. r \in Seq(Notes) /\ Len(r) = Len(q) + 1 /\ r[Len(q) + 1] = n OBVIOUS
<1>6. \A p \in 1 .. Len(q) : r[p] = q[p] OBVIOUS
<1> HIDE DEF X, r
<1>7. Len(X) = Len(r) + 1 /\ X[Len(r) + 1] = v2 BY <1>1, <1>2, <1>4, <1>5
<1>8. ASSUME NEW p \in 1 .. Len(r) PROVE Moves(X[p], r[p], X[p + 1])
  <2>1. CASE p \in 1 .. Len(q)
    <3>1. X[p] = W[p] /\ X[p + 1] = W[p + 1] BY <1>1, <1>3, <2>1
    <3> QED BY <1>6, <2>1, <3>1 DEF Told
  <2>2. CASE p = Len(q) + 1
    <3>1. X[p] = v /\ X[p + 1] = v2 BY <1>1, <1>3, <1>4, <2>2
    <3> QED BY <1>5, <2>2, <3>1
  <2> QED BY <1>1, <1>5, <2>1, <2>2
<1>9. Told(X, r, v2) BY <1>2, <1>7, <1>8 DEF Told
<1> QED BY <1>3, <1>9 DEF X, r

\* A notification is taken from the head of the queue.
LEMMA ToldTail ==
  ASSUME NEW W, NEW q \in Seq(Notes), NEW v, Told(W, q, v), q # <<>>
  PROVE  /\ Told(Tail(W), Tail(q), v) /\ Len(Tail(q)) = Len(q) - 1 /\ Len(q) >= 1
         /\ \A p \in 1 .. Len(q) : Tail(W)[p] = W[p + 1]
         /\ \A p \in 1 .. Len(q) - 1 : Tail(q)[p] = q[p + 1]
         /\ Moves(W[1], Head(q), W[2])
<1>1. Len(q) \in Nat /\ W \in Seq(Versions) /\ Len(W) = Len(q) + 1 /\ W[Len(q) + 1] = v
  BY DEF Told
<1>2. Len(q) # 0 BY EmptySeq
<1>3. W # <<>>
  <2>1. Len(W) # 0 BY <1>1
  <2> QED BY <2>1
<1> DEFINE X == Tail(W)
           r == Tail(q)
<1>4. X \in Seq(Versions) /\ Len(X) = Len(q) BY <1>1, <1>3
<1>5. \A p \in 1 .. Len(q) : X[p] = W[p + 1] BY <1>1, <1>3
<1>6. r \in Seq(Notes) /\ Len(r) = Len(q) - 1 OBVIOUS
<1>7. \A p \in 1 .. Len(q) - 1 : r[p] = q[p + 1] OBVIOUS
<1>8. Head(q) = q[1] OBVIOUS
<1> HIDE DEF X, r
<1>9. Len(X) = Len(r) + 1 /\ X[Len(r) + 1] = v BY <1>1, <1>2, <1>4, <1>5, <1>6
<1>10. ASSUME NEW p \in 1 .. Len(r) PROVE Moves(X[p], r[p], X[p + 1])
  <2>1. p \in 1 .. Len(q) - 1 /\ p + 1 \in 1 .. Len(q) /\ p \in 1 .. Len(q) BY <1>1, <1>6
  <2>2. X[p] = W[p + 1] /\ X[p + 1] = W[p + 1 + 1] /\ r[p] = q[p + 1] BY <1>5, <1>7, <2>1
  <2> QED BY <2>1, <2>2 DEF Told
<1>11. Told(X, r, v) BY <1>4, <1>9, <1>10 DEF Told
<1>12. Moves(W[1], Head(q), W[2])
  <2>1. 1 \in 1 .. Len(q) /\ 1 + 1 = 2 BY <1>1, <1>2
  <2> QED BY <1>8, <2>1 DEF Told
<1>13. Len(q) >= 1 BY <1>1, <1>2
<1> QED BY <1>5, <1>6, <1>7, <1>11, <1>12, <1>13 DEF X, r

(* A queue and its chain grow at the end, without a barrier.               *)
Grown(q, W, q2, W2) ==
  /\ q2 \in Seq(Notes) /\ Len(q2) >= Len(q)
  /\ \A p \in 1 .. Len(q) : q2[p] = q[p]
  /\ \A p \in 1 .. Len(q) + 1 : W2[p] = W[p]
  /\ \A p \in 1 .. Len(q2) : p > Len(q) => q2[p].type # "activate"

\* One notification more.
LEMMA GrownAppend ==
  ASSUME NEW W, NEW q \in Seq(Notes), NEW v, Told(W, q, v), NEW n \in Notes,
         NEW v2 \in Versions, Moves(v, n, v2), n.type # "activate"
  PROVE  Told(Append(W, v2), Append(q, n), v2) /\ Grown(q, W, Append(q, n), Append(W, v2))
<1>1. /\ Told(Append(W, v2), Append(q, n), v2)
      /\ \A p \in 1 .. Len(q) + 1 : Append(W, v2)[p] = W[p]
  BY ToldAppend
<1>2. /\ Append(q, n) \in Seq(Notes) /\ Len(Append(q, n)) = Len(q) + 1 /\ Len(q) \in Nat
      /\ \A p \in 1 .. Len(q) : Append(q, n)[p] = q[p]
      /\ Append(q, n)[Len(q) + 1] = n
  OBVIOUS
<1> DEFINE r == Append(q, n)
<1> HIDE DEF r
<1>3. Len(r) >= Len(q) /\ \A p \in 1 .. Len(r) : p > Len(q) => r[p].type # "activate"
  BY <1>2 DEF r
<1> QED BY <1>1, <1>2, <1>3 DEF Grown, r

\* Several more.
LEMMA GrownTwice ==
  ASSUME NEW q \in Seq(Notes), NEW W, NEW q2, NEW W2, NEW q3, NEW W3,
         Grown(q, W, q2, W2), Grown(q2, W2, q3, W3)
  PROVE  Grown(q, W, q3, W3)
<1>1. Len(q) \in Nat /\ Len(q2) \in Nat /\ Len(q3) \in Nat /\ Len(q2) >= Len(q)
      /\ Len(q3) >= Len(q2)
  BY DEF Grown
<1>2. q3 \in Seq(Notes) /\ Len(q3) >= Len(q) BY <1>1 DEF Grown
<1>3. \A p \in 1 .. Len(q) : q3[p] = q[p] /\ p \in 1 .. Len(q2) BY <1>1 DEF Grown
<1>4. \A p \in 1 .. Len(q) + 1 : W3[p] = W[p]
  <2>1. \A p \in 1 .. Len(q) + 1 : p \in 1 .. Len(q2) + 1 BY <1>1
  <2> QED BY <2>1 DEF Grown
<1>5. ASSUME NEW p \in 1 .. Len(q3), p > Len(q) PROVE q3[p].type # "activate"
  <2>1. CASE p > Len(q2) BY <2>1 DEF Grown
  <2>2. CASE ~(p > Len(q2))
    <3>1. p \in 1 .. Len(q2) BY <1>1, <2>2
    <3> QED BY <1>5, <3>1 DEF Grown
  <2> QED BY <2>1, <2>2
<1> QED BY <1>2, <1>3, <1>4, <1>5 DEF Grown

\* Barriers and cohorts stay where they are when the queue grows.
LEMMA GrownKeeps ==
  ASSUME NEW q \in Seq(Notes), NEW W, NEW q2, NEW W2, Grown(q, W, q2, W2),
         NEW ns, NEW ls, NEW sv, NEW h, NEW new,
         Barriers(q, ls, sv, new), Cohorts(ns, ls, h, q, W)
  PROVE  Barriers(q2, ls, sv, new) /\ Cohorts(ns, ls, h, q2, W2)
<1>1. Len(q) \in Nat /\ Len(q2) \in Nat /\ Len(q2) >= Len(q) BY DEF Grown
<1>2. \A p \in 1 .. Len(q) : q2[p] = q[p] /\ p \in 1 .. Len(q2) BY <1>1 DEF Grown
<1>3. \A l : Note("activate", l).type = "activate" BY DEF Note
<1>4. \A p \in 1 .. Len(q2) : \A l : q2[p] = Note("activate", l) =>
        p \in 1 .. Len(q) /\ q[p] = Note("activate", l)
  <2> SUFFICES ASSUME NEW p \in 1 .. Len(q2), NEW l, q2[p] = Note("activate", l)
               PROVE  p \in 1 .. Len(q) /\ q[p] = Note("activate", l)
    OBVIOUS
  <2>1. ~(p > Len(q)) BY <1>3 DEF Grown
  <2>2. p \in 1 .. Len(q) BY <1>1, <2>1
  <2> QED BY <1>2, <2>2
<1>5. \A p \in 1 .. Len(q) : W2[p + 1] = W[p + 1]
  <2>1. \A p \in 1 .. Len(q) : p + 1 \in 1 .. Len(q) + 1 BY <1>1
  <2> QED BY <2>1 DEF Grown
<1>6. \A l \in Listeners :
        l \in Range(ls[l]) => \E p \in 1 .. Len(q2) : q2[p] = Note("activate", l)
  BY <1>2 DEF Barriers
<1>7. \A p \in 1 .. Len(q2) : \A l \in Listeners :
        q2[p] = Note("activate", l) => l \notin Range(ls["active"]) \cup Range(sv) \cup new
  BY <1>4 DEF Barriers
<1>8. \A p, r \in 1 .. Len(q2) : \A l \in Listeners :
        q2[p] = Note("activate", l) /\ q2[r] = Note("activate", l) => p = r
  BY <1>4 DEF Barriers
<1>9. Cohorts(ns, ls, h, q2, W2) BY <1>4, <1>5 DEF Cohorts
<1> QED BY <1>6, <1>7, <1>8, <1>9 DEF Barriers

\* What stands where in two sequences put together.
LEMMA Joined ==
  ASSUME NEW S, NEW s \in Seq(S), NEW t \in Seq(S)
  PROVE  /\ s \o t \in Seq(S) /\ Len(s \o t) = Len(s) + Len(t)
         /\ Len(s) \in Nat /\ Len(t) \in Nat
         /\ \A p \in 1 .. Len(s) : (s \o t)[p] = s[p]
         /\ \A j \in 1 .. Len(t) : (s \o t)[Len(s) + j] = t[j]
OBVIOUS

\* Two notifications are queued one after the other.
LEMMA TwoMore ==
  ASSUME NEW q \in Seq(Notes), NEW n \in Notes, NEW m \in Notes
  PROVE  q \o (<<n>> \o <<m>>) = Append(Append(q, n), m)
<1> DEFINE b == Append(Append(q, n), m)
<1>1. PICK t : t = <<n>> \o <<m>> OBVIOUS
<1>2. t \in Seq(Notes) BY <1>1
<1>3. Len(t) = 2 /\ t[1] = n /\ t[2] = m BY <1>1
<1>4. /\ q \o t \in Seq(Notes) /\ Len(q \o t) = Len(q) + Len(t) /\ Len(q) \in Nat
      /\ \A p \in 1 .. Len(q) : (q \o t)[p] = q[p]
      /\ \A j \in 1 .. Len(t) : (q \o t)[Len(q) + j] = t[j]
  BY <1>2
<1>5. PICK a : a = q \o t OBVIOUS
<1>6. /\ a \in Seq(Notes) /\ Len(a) = Len(q) + 2 /\ Len(q) \in Nat
      /\ \A p \in 1 .. Len(q) : a[p] = q[p]
  BY <1>3, <1>4, <1>5, Zenon
<1>7. a[Len(q) + 1] = n /\ a[Len(q) + 2] = m
  <2>1. 1 \in 1 .. Len(t) /\ 2 \in 1 .. Len(t) BY <1>3
  <2> QED BY <1>3, <1>4, <1>5, <2>1, Zenon
<1>8. b \in Seq(Notes) /\ Len(b) = Len(q) + 2 OBVIOUS
<1>9. \A p \in 1 .. Len(q) : b[p] = q[p] OBVIOUS
<1>10. b[Len(q) + 1] = n /\ b[Len(q) + 2] = m OBVIOUS
<1> HIDE DEF b
<1>11. \A p \in 1 .. Len(q) + 2 : a[p] = b[p]
  <2>1. \A p \in 1 .. Len(q) + 2 : p \in 1 .. Len(q) \/ p = Len(q) + 1 \/ p = Len(q) + 2 BY <1>6
  <2> QED BY <1>6, <1>7, <1>9, <1>10, <2>1
<1>12. a = b BY <1>6, <1>8, <1>11, SeqEqual
<1> QED BY <1>1, <1>5, <1>12 DEF b

-----------------------------------------------------------------------------
(* The steps keep the deliveries.                                          *)

\* The drain that begins has nothing to say yet.
LEMMA NothingMoves == \A a : Moves(a, Nothing, a)
<1>1. Nothing.type = "none" BY DEF Nothing, Note
<1> QED BY <1>1 DEF Moves, Kinds

\* The queue grows and the turn is taken if it is free.
LEMMA FlushDelivers ==
  ASSUME EventsInv, NEW A, NEW W, Delivery(A, W), Flush,
         NEW X, Told(X, queue', ver'), Grown(queue, W, queue', X),
         UNCHANGED <<list, saved, heard, fresh, live>>
  PROVE  DeliveryInv'
<1> DEFINE ds == Doing(stack, "drain")
           ns == Doing(stack, "initial")
<1>1. /\ A \in Versions /\ Told(W, queue, ver) /\ Draining(ds, A, W[1])
      /\ Standing(ds, Hub(ns, list, saved), heard, A, W[1])
      /\ Guests(ns, list, heard, W[1]) /\ Cohorts(ns, list, heard, queue, W)
      /\ Barriers(queue, list, saved, fresh) /\ Members(list, saved, live, fresh, heard)
      /\ Settled(ns, saved, queue, dispatching)
  BY DEF Delivery
<1>2. Typed BY DEF EventsInv
<1>3. stack \in Seq(Frames) /\ queue \in Seq(Notes) /\ dispatching \in BOOLEAN
  BY <1>2, TypedFacts DEF Typed
<1>4. X[1] = W[1] /\ W[1] \in Versions
  <2>1. 1 \in 1 .. Len(queue) + 1 BY <1>3
  <2> QED BY <1>1, <1>3, <2>1, ToldFact DEF Grown
<1>5. Barriers(queue', list, saved, fresh) /\ Cohorts(ns, list, heard, queue', X)
  BY <1>1, <1>3, GrownKeeps
<1>6. CASE dispatching = TRUE
  <2>1. dispatching' = TRUE /\ stack' = stack BY <1>6 DEF Flush
  <2>2. Settled(ns, saved, queue', TRUE) BY <1>1 DEF Settled
  <2>3. Delivery(A, X)' BY <1>1, <1>4, <1>5, <2>1, <2>2 DEF Delivery
  <2> QED BY <2>3 DEF DeliveryInv
<1>7. CASE dispatching = FALSE
  <2> DEFINE f == Frame("drain", "active", Nothing, <<>>, TRUE)
  <2>1. dispatching' = TRUE /\ stack' = Append(stack, f) BY <1>7 DEF Flush
  <2>2. f \in Frames /\ f.op = "drain" /\ f.cur = 0 /\ f.note = Nothing
    BY NoteFact, DrainFrame
  <2> HIDE DEF f
  <2>3. IsPush(stack, stack', f) BY <1>3, <2>1, <2>2, PushFact
  <2>4. ns = {} /\ ds = {} BY <1>7, DoingFacts
  <2>5. Doing(stack', "drain") = {f} BY <1>3, <2>2, <2>3, <2>4, DoingPush
  <2>6. Doing(stack', "initial") = ns BY <1>3, <2>2, <2>3, DoingPush
  <2> HIDE DEF ns, ds
  <2>7. Draining({f}, W[1], W[1]) BY <2>2, NothingMoves DEF Draining
  <2>8. Standing({f}, Hub(ns, list, saved), heard, W[1], W[1])
    <3>1. \A p : ~Behind(ds, p) BY <2>4 DEF Behind
    <3> QED BY <1>1, <3>1 DEF Standing
  <2>9. Settled(ns, saved, queue', TRUE) BY <1>1 DEF Settled
  <2>10. Delivery(W[1], X)' BY <1>1, <1>4, <1>5, <2>1, <2>5, <2>6, <2>7, <2>8, <2>9 DEF Delivery
  <2> QED BY <2>10 DEF DeliveryInv
<1> QED BY <1>3, <1>6, <1>7

\* The host changes the node's info or the port's.
LEMMA ChangeDelivers ==
  ASSUME EventsInv, NEW A, NEW W, Delivery(A, W),
         NEW ks \in {{"node"}, {"port"}, Kinds}, Change(ks)
  PROVE  DeliveryInv'
<1>1. Told(W, queue, ver) /\ queue \in Seq(Notes) BY DEF Delivery, EventsInv, Typed
<1>2. ver \in Versions BY <1>1, ToldFact
<1> DEFINE n == Note("node", ver["node"] + 1)
           m == Note("port", ver["port"] + 1)
           vn == [ver EXCEPT !["node"] = ver["node"] + 1]
           vm == [ver EXCEPT !["port"] = ver["port"] + 1]
           vnm == [vn EXCEPT !["port"] = vn["port"] + 1]
<1>3. ver["node"] \in Nat \ {0} /\ ver["port"] \in Nat \ {0} BY <1>2 DEF Versions, Kinds
<1>4. n \in Notes /\ m \in Notes BY <1>3, NoteFact DEF Kinds
<1>5. n.type = "node" /\ n.what = ver["node"] + 1 /\ m.type = "port" /\ m.what = ver["port"] + 1
  BY DEF Note
<1>6. vn \in Versions /\ vm \in Versions BY <1>2, <1>3 DEF Versions, Kinds
<1>7. vn["port"] = ver["port"] /\ vn["node"] = ver["node"] + 1 /\ vm["port"] = ver["port"] + 1
  BY <1>2 DEF Versions, Kinds
<1>8. vnm \in Versions BY <1>3, <1>6, <1>7 DEF Versions, Kinds
<1>9. vnm["port"] = ver["port"] + 1 BY <1>6, <1>7 DEF Versions, Kinds
<1>10. Moves(ver, n, vn) /\ Moves(ver, m, vm) /\ Moves(vn, m, vnm)
  BY <1>5, <1>7, <1>9 DEF Moves, Kinds
<1>11. n.type # "activate" /\ m.type # "activate" BY <1>5
<1>12. /\ Flush /\ UNCHANGED <<list, saved, heard, fresh, live>>
       /\ ver' = [k \in Kinds |-> IF k \in ks THEN ver[k] + 1 ELSE ver[k]]
       /\ queue' = queue \o Snapshots(ks)
  BY DEF Change
<1>13. "node" \in Kinds /\ "port" \in Kinds /\ \A k \in Kinds : k = "node" \/ k = "port"
  BY DEF Kinds
<1>14. CASE ks = {"node"}
  <2>1. Snapshots(ks) = <<n>> \o <<>> BY <1>14 DEF Snapshots
  <2>2. <<n>> \o <<>> = <<n>> BY <1>4
  <2>3. queue' = Append(queue, n) BY <1>1, <1>4, <1>12, <2>1, <2>2
  <2>4. ver' = vn BY <1>2, <1>12, <1>13, <1>14 DEF Versions
  <2> HIDE DEF n, m, vn, vm, vnm
  <2>5. Told(Append(W, vn), queue', ver') /\ Grown(queue, W, queue', Append(W, vn))
    BY <1>1, <1>4, <1>6, <1>10, <1>11, <2>3, <2>4, GrownAppend
  <2> QED BY <1>12, <2>5, FlushDelivers
<1>15. CASE ks = {"port"}
  <2>1. Snapshots(ks) = <<>> \o <<m>> BY <1>15 DEF Snapshots
  <2>2. <<>> \o <<m>> = <<m>> BY <1>4
  <2>3. queue' = Append(queue, m) BY <1>1, <1>4, <1>12, <2>1, <2>2
  <2>4. ver' = vm BY <1>2, <1>12, <1>13, <1>15 DEF Versions
  <2> HIDE DEF n, m, vn, vm, vnm
  <2>5. Told(Append(W, vm), queue', ver') /\ Grown(queue, W, queue', Append(W, vm))
    BY <1>1, <1>4, <1>6, <1>10, <1>11, <2>3, <2>4, GrownAppend
  <2> QED BY <1>12, <2>5, FlushDelivers
<1>16. CASE ks = Kinds
  <2>1. Snapshots(ks) = <<n>> \o <<m>> BY <1>13, <1>16 DEF Snapshots
  <2>2. ver' = vnm BY <1>2, <1>7, <1>12, <1>13, <1>16 DEF Versions
  <2> HIDE DEF n, m, vn, vm, vnm
  <2> DEFINE q2 == Append(queue, n)
             W2 == Append(W, vn)
  <2>3. queue' = Append(q2, m) BY <1>1, <1>4, <1>12, <2>1, TwoMore
  <2>4. Told(W2, q2, vn) /\ Grown(queue, W, q2, W2)
    BY <1>1, <1>4, <1>6, <1>10, <1>11, GrownAppend
  <2>5. q2 \in Seq(Notes) BY <1>1, <1>4
  <2> HIDE DEF q2, W2
  <2>6. Told(Append(W2, vnm), queue', ver') /\ Grown(q2, W2, queue', Append(W2, vnm))
    BY <1>4, <1>8, <1>10, <1>11, <2>2, <2>3, <2>4, <2>5, GrownAppend
  <2>7. Grown(queue, W, queue', Append(W2, vnm)) BY <1>1, <2>4, <2>6, GrownTwice
  <2> QED BY <1>12, <2>6, <2>7, FlushDelivers
<1> QED BY <1>14, <1>15, <1>16

\* The host asks for a sync: the answer carries the version it stands for.
LEMMA SyncDelivers ==
  ASSUME EventsInv, NEW A, NEW W, Delivery(A, W), Sync
  PROVE  DeliveryInv'
<1>1. Told(W, queue, ver) /\ queue \in Seq(Notes) /\ ver \in [Kinds -> Nat]
  BY DEF Delivery, EventsInv, Typed
<1>2. ver \in Versions BY <1>1, ToldFact
<1> DEFINE n == Note("done", ver)
<1>3. n \in Notes /\ n.type = "done" /\ n.what = ver BY <1>1, NoteFact DEF Note
<1>4. Moves(ver, n, ver) /\ n.type # "activate" BY <1>3 DEF Moves, Kinds
<1>5. queue' = Append(queue, n) /\ ver' = ver /\ Flush /\ UNCHANGED <<list, saved, heard, fresh, live>>
  BY DEF Sync, DoneLast
<1> HIDE DEF n
<1>6. Told(Append(W, ver), queue', ver') /\ Grown(queue, W, queue', Append(W, ver))
  BY <1>1, <1>2, <1>3, <1>4, <1>5, GrownAppend
<1>7. Append(W, ver) \in Seq(Versions) BY <1>6 DEF Told
<1> QED BY <1>5, <1>6, FlushDelivers

-----------------------------------------------------------------------------
(* The drain.                                                              *)

\* The drain on top is the only one, and no new listener waits under it.
LEMMA DrainOnTop ==
  ASSUME EventsInv, stack # <<>>, Top.op = "drain"
  PROVE  Doing(stack, "drain") = {Top} /\ Doing(stack, "initial") = {} /\ dispatching = TRUE
<1>1. /\ Len(stack) \in 1 .. Len(stack) /\ Top = stack[Len(stack)] /\ Top.claim = TRUE
  BY TopFact
<1>2. Top \in Doing(stack, "drain") BY <1>1 DEF Doing
<1>3. Doing(stack, "drain") = {Top} BY <1>2, DoingFacts
<1>4. \A i \in 1 .. Len(stack) : stack[i].op # "initial" BY <1>1, BelowOwner
<1>5. Doing(stack, "initial") = {} BY <1>4 DEF Doing
<1>6. dispatching \in BOOLEAN /\ Turn(stack, dispatching) BY DEF EventsInv, Typed
<1>7. dispatching = TRUE BY <1>1, <1>6 DEF Turn
<1> QED BY <1>3, <1>5, <1>7

\* The owner of the turn goes on as a drain.
LEMMA DrainStays ==
  ASSUME EventsInv, stack # <<>>, Top.claim = TRUE, NEW f, f.op = "drain",
         IsPut(stack, stack', f)
  PROVE  Doing(stack', "drain") = {f} /\ Doing(stack', "initial") = {}
<1>1. Len(stack) \in 1 .. Len(stack) /\ Top = stack[Len(stack)] BY TopFact
<1>2. \A i \in 1 .. Len(stack) : i # Len(stack) => stack[i].op # "initial" BY BelowOwner
<1>3. \A i \in 1 .. Len(stack) : i # Len(stack) => stack[i].op # "drain"
  BY <1>1 DEF EventsInv, Turn
<1>4. Len(stack') = Len(stack) /\ stack'[Len(stack)] = f
      /\ \A i \in 1 .. Len(stack) : i # Len(stack) => stack'[i] = stack[i]
  BY DEF IsPut
<1>5. \A i \in 1 .. Len(stack') :
        stack'[i].op # "initial" /\ (stack'[i].op = "drain" => stack'[i] = f)
  BY <1>2, <1>3, <1>4
<1>6. \E i \in 1 .. Len(stack') : stack'[i].op = "drain" /\ stack'[i] = f BY <1>1, <1>4
<1> QED BY <1>5, <1>6 DEF Doing

\* When the drain has been through the list, every active hook knows the
\* version at the head of the queue.
LEMMA AllTold ==
  ASSUME EventsInv, NEW A, NEW W, Delivery(A, W), stack # <<>>, Top.op = "drain", AtEnd(Top)
  PROVE  \A p \in 1 .. Len(list["active"]) : heard[list["active"][p]] = W[1]
<1> DEFINE s == list["active"]
<1>1. Doing(stack, "drain") = {Top} /\ Doing(stack, "initial") = {} BY DrainOnTop
<1>2. Hub({}, list, saved) = s BY DEF Hub, Isolated
<1>3. Draining({Top}, A, W[1]) /\ Standing({Top}, s, heard, A, W[1])
  BY <1>1, <1>2 DEF Delivery
<1>4. Top.on = "active" /\ Top.cur \in Nat /\ Len(s) \in Nat
  <2>1. Places(stack, fresh) BY DEF EventsInv
  <2>2. Len(stack) \in 1 .. Len(stack) /\ Top = stack[Len(stack)] /\ Top.cur \in Nat
        /\ Len(list[Top.on]) \in Nat
    BY TopFact
  <2>3. Top.on = "active" BY <2>1, <2>2 DEF Places
  <2> QED BY <2>2, <2>3
<1> HIDE DEF s
<1>5. CASE Top.cur = Len(s)
  <2>1. \A p \in 1 .. Len(s) : ~(Top.cur < p) BY <1>4, <1>5
  <2>2. \A p \in 1 .. Len(s) : ~Behind({Top}, p) BY <2>1 DEF Behind
  <2> QED BY <1>3, <2>2 DEF Standing, s
<1>6. CASE Top.note = Nothing
  <2>1. Moves(A, Nothing, W[1]) BY <1>3, <1>6 DEF Draining
  <2>2. A = W[1] BY <2>1 DEF Moves, Nothing, Note, Kinds
  <2> QED BY <1>3, <2>2 DEF Standing, s
<1> QED BY <1>4, <1>5, <1>6 DEF AtEnd, s

\* Barriers and cohorts move up when the head of the queue is taken.
LEMMA QueueTail ==
  ASSUME NEW q \in Seq(Notes), NEW W, NEW v, Told(W, q, v), q # <<>>,
         NEW ns, NEW ls, NEW l2, NEW sv, NEW h, NEW new,
         Barriers(q, ls, sv, new), Cohorts(ns, ls, h, q, W),
         \A l \in Listeners : l \in Range(l2[l]) =>
           l \in Range(ls[l]) /\ Head(q) # Note("activate", l),
         \A l \in Range(l2["active"]) : l \in Range(ls["active"]) \/ Head(q) = Note("activate", l)
  PROVE  Barriers(Tail(q), l2, sv, new) /\ Cohorts(ns, l2, h, Tail(q), Tail(W))
<1> DEFINE r == Tail(q)
           X == Tail(W)
<1>0. Len(q) \in Nat OBVIOUS
<1>1. /\ Len(r) = Len(q) - 1 /\ Len(q) >= 1 /\ Len(q) \in Nat
      /\ \A p \in 1 .. Len(q) : X[p] = W[p + 1]
      /\ \A p \in 1 .. Len(q) - 1 : r[p] = q[p + 1]
  BY <1>0, ToldTail, Zenon
<1>2. Head(q) = q[1] OBVIOUS
<1> HIDE DEF r, X
<1>3. \A p \in 1 .. Len(r) : /\ r[p] = q[p + 1] /\ p + 1 \in 1 .. Len(q) /\ p + 1 # 1
                             /\ X[p + 1] = W[p + 1 + 1]
  BY <1>1
<1>4. 1 \in 1 .. Len(q) BY <1>1
<1>5. ASSUME NEW l \in Listeners, l \in Range(l2[l])
      PROVE  \E p \in 1 .. Len(r) : r[p] = Note("activate", l)
  <2>1. PICK p \in 1 .. Len(q) : q[p] = Note("activate", l) BY <1>5 DEF Barriers
  <2>2. p # 1 BY <1>2, <1>5, <2>1
  <2>3. p - 1 \in 1 .. Len(r) /\ p - 1 + 1 = p BY <1>1, <2>2
  <2>4. r[p - 1] = q[p] BY <1>3, <2>3
  <2> QED BY <2>1, <2>3, <2>4
<1>6. ASSUME NEW p \in 1 .. Len(r), NEW l \in Listeners, r[p] = Note("activate", l)
      PROVE  l \notin Range(l2["active"]) \cup Range(sv) \cup new
  <2>1. q[p + 1] = Note("activate", l) /\ p + 1 \in 1 .. Len(q) BY <1>3, <1>6
  <2>2. l \notin Range(ls["active"]) \cup Range(sv) \cup new BY <2>1 DEF Barriers
  <2>3. q[1] # Note("activate", l) BY <1>3, <1>4, <2>1 DEF Barriers
  <2> QED BY <1>2, <2>2, <2>3
<1>7. ASSUME NEW p \in 1 .. Len(r), NEW t \in 1 .. Len(r), NEW l \in Listeners,
             r[p] = Note("activate", l), r[t] = Note("activate", l)
      PROVE  p = t
  <2>1. p + 1 = t + 1 BY <1>3, <1>7 DEF Barriers
  <2> QED BY <2>1
<1>8. Barriers(r, l2, sv, new) BY <1>5, <1>6, <1>7 DEF Barriers
<1>9. ASSUME NEW p \in 1 .. Len(r), NEW l \in Listeners, r[p] = Note("activate", l),
             l \in Range(l2[l])
      PROVE  Cohort(ns, l, h[l], X[p + 1])
  <2>1. q[p + 1] = Note("activate", l) /\ p + 1 \in 1 .. Len(q) /\ X[p + 1] = W[p + 1 + 1]
    BY <1>3, <1>9
  <2> QED BY <1>9, <2>1 DEF Cohorts
<1>10. Cohorts(ns, l2, h, r, X) BY <1>9 DEF Cohorts
<1> QED BY <1>8, <1>10 DEF r, X

\* The next notification is taken.
LEMMA DrainNextDelivers ==
  ASSUME EventsInv, NEW A, NEW W, Delivery(A, W), DrainNext
  PROVE  DeliveryInv'
<1>1. stack # <<>> /\ Top.op = "drain" /\ AtEnd(Top) /\ queue # <<>> /\ Head(queue).type # "activate"
  BY DEF DrainNext
<1>2. stack \in Seq(Frames) /\ queue \in Seq(Notes) /\ list["active"] \in Seq(Listeners)
  BY TypedFacts DEF EventsInv
<1>3. Doing(stack, "initial") = {} /\ dispatching = TRUE /\ Top.claim = TRUE
  BY <1>1, DrainOnTop, TopFact
<1>4. /\ Told(W, queue, ver) /\ Cohorts({}, list, heard, queue, W)
      /\ Barriers(queue, list, saved, fresh) /\ Members(list, saved, live, fresh, heard)
      /\ Settled({}, saved, queue, dispatching)
  BY <1>3 DEF Delivery
<1> DEFINE f == Frame("drain", "active", Head(queue), <<>>, TRUE)
<1>5. stack' = [stack EXCEPT ![Len(stack)] = f] /\ queue' = Tail(queue)
      /\ UNCHANGED <<ver, dispatching, list, saved, heard, fresh, live>>
  BY DEF DrainNext, SetTop
<1>6. f \in Frames /\ f.op = "drain" /\ f.cur = 0 /\ f.note = Head(queue)
  <2>1. Head(queue) \in Notes BY <1>1, <1>2
  <2> QED BY <2>1, DrainFrame
<1> HIDE DEF f
<1>7. IsPut(stack, stack', f) BY <1>1, <1>2, <1>5, <1>6, PutFact
<1>8. Doing(stack', "drain") = {f} /\ Doing(stack', "initial") = {}
  BY <1>1, <1>3, <1>6, <1>7, DrainStays
<1>9. /\ Told(Tail(W), Tail(queue), ver) /\ Moves(W[1], Head(queue), W[2])
      /\ Tail(W)[1] = W[2] /\ W[1] \in Versions
  <2>1. /\ Told(Tail(W), Tail(queue), ver) /\ Moves(W[1], Head(queue), W[2]) /\ Len(queue) >= 1
        /\ \A p \in 1 .. Len(queue) : Tail(W)[p] = W[p + 1]
    BY <1>1, <1>2, <1>4, ToldTail
  <2>2. 1 \in 1 .. Len(queue) /\ 1 \in 1 .. Len(queue) + 1 /\ 1 + 1 = 2 BY <1>2, <2>1
  <2>3. W[1] \in Versions BY <1>2, <1>4, <2>2, ToldFact
  <2>4. Tail(W)[1] = W[1 + 1] BY <2>1, <2>2
  <2> QED BY <2>1, <2>2, <2>3, <2>4
<1>10. Draining({f}, W[1], W[2]) BY <1>6, <1>9 DEF Draining
<1>11. Standing({f}, Hub({}, list, saved), heard, W[1], W[2])
  <2>1. Hub({}, list, saved) = list["active"] BY DEF Hub, Isolated
  <2>2. \A p \in 1 .. Len(list["active"]) : 0 < p OBVIOUS
  <2>3. \A p \in 1 .. Len(list["active"]) : Behind({f}, p) BY <1>6, <2>2 DEF Behind
  <2>4. \A p \in 1 .. Len(list["active"]) : heard[list["active"][p]] = W[1]
    BY <1>1, AllTold
  <2> QED BY <2>1, <2>3, <2>4 DEF Standing
<1>12. \A l : Head(queue) # Note("activate", l) BY <1>1 DEF Note
<1>13. Barriers(Tail(queue), list, saved, fresh) /\ Cohorts({}, list, heard, Tail(queue), Tail(W))
  BY <1>1, <1>2, <1>4, <1>12, QueueTail
<1>14. Guests({}, list, heard, W[2]) BY DEF Guests
<1>15. Settled({}, saved, Tail(queue), TRUE) BY <1>4 DEF Settled
<1>16. Delivery(W[1], Tail(W))'
  BY <1>3, <1>4, <1>5, <1>8, <1>9, <1>10, <1>11, <1>13, <1>14, <1>15 DEF Delivery
<1> QED BY <1>16 DEF DeliveryInv

\* Two lists without a hook in common, put together.
LEMMA OnceJoined ==
  ASSUME NEW s \in Seq(Listeners), NEW t \in Seq(Listeners), Once(s), Once(t),
         Range(s) \cap Range(t) = {}
  PROVE  Once(s \o t)
<1>1. PICK u : u = s \o t OBVIOUS
<1>2. /\ Len(u) = Len(s) + Len(t) /\ Len(s) \in Nat /\ Len(t) \in Nat
      /\ \A p \in 1 .. Len(s) : u[p] = s[p]
      /\ \A j \in 1 .. Len(t) : u[Len(s) + j] = t[j]
  BY <1>1
<1>3. \A p \in 1 .. Len(s) : s[p] \in Range(s) BY DEF Range
<1>4. \A j \in 1 .. Len(t) : t[j] \in Range(t) BY DEF Range
<1>5. ASSUME NEW p \in 1 .. Len(u), ~(p \in 1 .. Len(s))
      PROVE  p - Len(s) \in 1 .. Len(t) /\ u[p] = t[p - Len(s)]
  <2>1. p - Len(s) \in 1 .. Len(t) /\ Len(s) + (p - Len(s)) = p BY <1>2, <1>5
  <2> QED BY <1>2, <2>1
<1>6. ASSUME NEW p \in 1 .. Len(u), NEW r \in 1 .. Len(u), u[p] = u[r] PROVE p = r
  <2>1. CASE p \in 1 .. Len(s) /\ r \in 1 .. Len(s) BY <1>2, <1>6, <2>1 DEF Once
  <2>2. CASE p \in 1 .. Len(s) /\ ~(r \in 1 .. Len(s)) BY <1>2, <1>3, <1>4, <1>5, <1>6, <2>2
  <2>3. CASE ~(p \in 1 .. Len(s)) /\ r \in 1 .. Len(s) BY <1>2, <1>3, <1>4, <1>5, <1>6, <2>3
  <2>4. CASE ~(p \in 1 .. Len(s)) /\ ~(r \in 1 .. Len(s))
    <3>1. /\ p - Len(s) \in 1 .. Len(t) /\ u[p] = t[p - Len(s)]
          /\ r - Len(s) \in 1 .. Len(t) /\ u[r] = t[r - Len(s)]
      BY <1>5, <2>4
    <3>2. p - Len(s) = r - Len(s) BY <1>6, <3>1 DEF Once
    <3> QED BY <1>2, <3>2
  <2> QED BY <2>1, <2>2, <2>3, <2>4
<1> QED BY <1>1, <1>6 DEF Once

\* A list of one hook at most.
LEMMA OnceShort ==
  ASSUME NEW s \in Seq(Listeners), Len(s) <= 1
  PROVE  Once(s)
<1>1. Len(s) \in Nat OBVIOUS
<1>2. \A p, r \in 1 .. Len(s) : p = r BY <1>1
<1> QED BY <1>2 DEF Once

\* A cohort joins the active hooks.
LEMMA ActivateFact ==
  ASSUME Typed, Lists(list, saved, heard, fresh), NEW c \in Listeners, AppendFrom(c)
  PROVE  /\ list' \in [{"active"} \cup Listeners -> Seq(Listeners)]
         /\ list'["active"] = list["active"] \o list[c] /\ Range(list'[c]) = {}
         /\ list'[c] = <<>>
         /\ Range(list'["active"]) = Range(list["active"]) \cup Range(list[c])
         /\ \A l \in Listeners : l # c => list'[l] = list[l]
         /\ Range(list[c]) \subseteq {c}
<1>1. list \in [{"active"} \cup Listeners -> Seq(Listeners)] BY DEF Typed
<1>2. list' = [list EXCEPT !["active"] = @ \o list[c], ![c] = <<>>] BY DEF AppendFrom
<1>3. "active" \notin Listeners /\ list["active"] \in Seq(Listeners) /\ list[c] \in Seq(Listeners)
  BY TypedFacts
<1>4. /\ list["active"] \o list[c] \in Seq(Listeners)
      /\ Range(list["active"] \o list[c]) = Range(list["active"]) \cup Range(list[c])
  BY <1>3, RangeJoined
<1>5. <<>> \in Seq(Listeners) /\ Range(<<>>) = {} BY RangeFact
<1>6. c # "active" BY <1>3
<1>7. list' \in [{"active"} \cup Listeners -> Seq(Listeners)] BY <1>1, <1>2, <1>4, <1>5
<1>8. list'["active"] = list["active"] \o list[c] BY <1>1, <1>2, <1>6
<1>9. list'[c] = <<>> BY <1>1, <1>2
<1>10. \A l \in Listeners : l # c => list'[l] = list[l] BY <1>1, <1>2, <1>3
<1>11. Range(list[c]) \subseteq {c} BY DEF Lists
<1> QED BY <1>4, <1>5, <1>7, <1>8, <1>9, <1>10, <1>11

\* A barrier says whose cohort is behind it.
LEMMA BarrierNote == \A n \in Notes : n.type = "activate" => n = Note("activate", n.what)
BY DEF Notes, Note, Nothing, Kinds

\* The barrier is taken: its cohort has heard what the active hooks have.
LEMMA DrainActivateDelivers ==
  ASSUME EventsInv, NEW A, NEW W, Delivery(A, W), DrainActivate
  PROVE  DeliveryInv'
<1>1. stack # <<>> /\ Top.op = "drain" /\ AtEnd(Top) /\ queue # <<>> /\ Head(queue).type = "activate"
  BY DEF DrainActivate
<1>2. /\ stack \in Seq(Frames) /\ queue \in Seq(Notes) /\ list["active"] \in Seq(Listeners)
      /\ Typed /\ Lists(list, saved, heard, fresh) /\ "active" \notin Listeners
  BY TypedFacts DEF EventsInv
<1>3. Doing(stack, "initial") = {} /\ dispatching = TRUE /\ Top.claim = TRUE
  BY <1>1, DrainOnTop, TopFact
<1>4. /\ Told(W, queue, ver) /\ Cohorts({}, list, heard, queue, W)
      /\ Barriers(queue, list, saved, fresh) /\ Members(list, saved, live, fresh, heard)
      /\ Settled({}, saved, queue, dispatching)
  BY <1>3 DEF Delivery
<1> DEFINE f == Frame("drain", "active", Nothing, <<>>, TRUE)
           c == Head(queue).what
<1>5. stack' = [stack EXCEPT ![Len(stack)] = f] /\ queue' = Tail(queue) /\ AppendFrom(c)
      /\ UNCHANGED <<ver, dispatching, saved, heard, fresh, live>>
  BY DEF DrainActivate, SetTop
<1>6. f \in Frames /\ f.op = "drain" /\ f.note = Nothing BY NoteFact, DrainFrame
<1>7. c \in Listeners /\ Head(queue) = Note("activate", c)
  <2>1. Head(queue) \in Notes BY <1>1, <1>2
  <2> QED BY <1>1, <2>1, NoteFact, BarrierNote
<1> HIDE DEF f, c
<1>8. IsPut(stack, stack', f) BY <1>1, <1>2, <1>5, <1>6, PutFact
<1>9. Doing(stack', "drain") = {f} /\ Doing(stack', "initial") = {}
  BY <1>1, <1>3, <1>6, <1>8, DrainStays
<1>10. /\ Told(Tail(W), Tail(queue), ver) /\ W[2] = W[1]
       /\ Tail(W)[1] = W[2] /\ W[1] \in Versions /\ 1 \in 1 .. Len(queue) /\ queue[1] = Head(queue)
  <2>1. /\ Told(Tail(W), Tail(queue), ver) /\ Moves(W[1], Head(queue), W[2]) /\ Len(queue) >= 1
        /\ \A p \in 1 .. Len(queue) : Tail(W)[p] = W[p + 1]
    BY <1>1, <1>2, <1>4, ToldTail
  <2>2. 1 \in 1 .. Len(queue) /\ 1 \in 1 .. Len(queue) + 1 /\ 1 + 1 = 2 BY <1>2, <2>1
  <2>3. W[1] \in Versions BY <1>2, <1>4, <2>2, ToldFact
  <2>4. Tail(W)[1] = W[1 + 1] BY <2>1, <2>2
  <2>5. W[2] = W[1] BY <1>1, <2>1 DEF Moves, Kinds
  <2>6. queue[1] = Head(queue) BY <1>1, <1>2
  <2> QED BY <2>1, <2>2, <2>3, <2>4, <2>5, <2>6
<1>11. /\ list' \in [{"active"} \cup Listeners -> Seq(Listeners)]
       /\ list'["active"] = list["active"] \o list[c] /\ Range(list'[c]) = {}
       /\ list'[c] = <<>>
       /\ Range(list'["active"]) = Range(list["active"]) \cup Range(list[c])
       /\ \A l \in Listeners : l # c => list'[l] = list[l]
       /\ Range(list[c]) \subseteq {c}
  BY <1>2, <1>5, <1>7, ActivateFact
<1>12. c \in Range(list[c]) => heard[c] = W[2]
  <2> SUFFICES ASSUME c \in Range(list[c]) PROVE heard[c] = W[2] OBVIOUS
  <2>1. Cohort({}, c, heard[c], W[1 + 1]) BY <1>4, <1>7, <1>10 DEF Cohorts
  <2>2. heard[c] = W[1 + 1] /\ 1 + 1 = 2 BY <2>1 DEF Cohort
  <2> QED BY <2>2
<1>13. Draining({f}, W[2], W[2]) BY <1>6, NothingMoves DEF Draining
<1>14. \A l \in Range(list'["active"]) : heard[l] = W[2]
  <2>1. \A p \in 1 .. Len(list["active"]) : heard[list["active"][p]] = W[1]
    BY <1>1, AllTold
  <2>2. DOMAIN list["active"] = 1 .. Len(list["active"]) BY <1>2
  <2>3. \A l \in Range(list["active"]) : heard[l] = W[1] BY <2>1, <2>2 DEF Range
  <2> QED BY <1>10, <1>11, <1>12, <2>3
<1>15. Standing({f}, Hub({}, list', saved), heard, W[2], W[2])
  <2>1. Hub({}, list', saved) = list'["active"] BY DEF Hub, Isolated
  <2>2. list'["active"] \in Seq(Listeners) BY <1>11
  <2>3. \A p \in 1 .. Len(list'["active"]) : list'["active"][p] \in Range(list'["active"])
    BY <2>2 DEF Range
  <2> QED BY <1>14, <2>1, <2>3 DEF Standing
<1>16. Barriers(Tail(queue), list', saved, fresh) /\ Cohorts({}, list', heard, Tail(queue), Tail(W))
  <2>1. \A l : Head(queue) = Note("activate", l) => l = c BY <1>7 DEF Note
  <2>2. \A l \in Listeners : l \in Range(list'[l]) =>
          l \in Range(list[l]) /\ Head(queue) # Note("activate", l)
    BY <1>11, <2>1
  <2>3. \A l \in Range(list'["active"]) :
          l \in Range(list["active"]) \/ Head(queue) = Note("activate", l)
    BY <1>7, <1>11
  <2> QED BY <1>1, <1>2, <1>4, <2>2, <2>3, QueueTail
<1>17. Guests({}, list', heard, W[2]) BY DEF Guests
<1>18. Settled({}, saved, Tail(queue), TRUE) BY <1>4 DEF Settled
<1>19. saved = <<>> /\ Range(saved) = {} BY <1>4, RangeFact DEF Settled, Isolated
<1>20. Members(list', saved, live, fresh, heard)
  <2>1. list[c] \in Seq(Listeners) /\ Len(list[c]) <= 1 BY <1>2, <1>4, <1>7, TypedFacts DEF Members
  <2>2. Range(list["active"]) \cap Range(list[c]) = {} BY <1>2, <1>7, <1>11 DEF Lists
  <2>3. Once(list'["active"])
    <3>1. Once(list[c]) BY <2>1, OnceShort
    <3>2. Once(list["active"]) BY <1>4 DEF Members
    <3> QED BY <1>2, <1>11, <2>1, <2>2, <3>1, <3>2, OnceJoined
  <2>4. Once(saved) /\ live \subseteq Listeners \ fresh /\ \A l \in fresh : heard[l]["node"] = 0
    BY <1>4 DEF Members
  <2>5. Range(list'["active"]) \cap Range(saved) = {} BY <1>19
  <2>6. ASSUME NEW l \in Listeners
        PROVE  /\ Len(list'[l]) <= 1
               /\ l \in live <=> l \in Range(list'[l]) \cup Range(list'["active"]) \cup Range(saved)
    <3>1. /\ Len(list[l]) <= 1
          /\ l \in live <=> l \in Range(list[l]) \cup Range(list["active"]) \cup Range(saved)
      BY <1>4 DEF Members
    <3>2. CASE l # c BY <1>11, <3>1, <3>2
    <3>3. CASE l = c
      <4>1. Len(list'[l]) <= 1 BY <1>11, <3>3
      <4> QED BY <1>11, <3>1, <3>3, <4>1
    <3> QED BY <3>2, <3>3
  <2> QED BY <2>3, <2>4, <2>5, <2>6 DEF Members
<1>21. Delivery(W[2], Tail(W))'
  BY <1>3, <1>5, <1>9, <1>10, <1>13, <1>15, <1>16, <1>17, <1>18, <1>20 DEF Delivery
<1> QED BY <1>21 DEF DeliveryInv

\* The queue is empty and the turn given back.
LEMMA DrainEndDelivers ==
  ASSUME EventsInv, NEW A, NEW W, Delivery(A, W), DrainEnd
  PROVE  DeliveryInv'
<1>1. stack # <<>> /\ Top.op = "drain" /\ AtEnd(Top) /\ queue = <<>> BY DEF DrainEnd
<1>2. stack \in Seq(Frames) BY TypedFacts DEF EventsInv
<1>3. Doing(stack, "initial") = {} /\ Doing(stack, "drain") = {Top}
      /\ Len(stack) \in 1 .. Len(stack) /\ Top = stack[Len(stack)] /\ Top.claim = TRUE
  BY <1>1, DrainOnTop, TopFact
<1>4. stack' = Below /\ dispatching' = FALSE /\ UNCHANGED <<ver, queue, list, saved, heard, fresh, live>>
  BY DEF DrainEnd
<1>5. IsPop(stack, stack') BY <1>1, <1>2, <1>4, PopFact DEF Below
<1>6. Doing(stack', "initial") = {} BY <1>1, <1>2, <1>3, <1>5, DoingPop
<1>7. Doing(stack', "drain") = {}
  <2>1. \A i \in 1 .. Len(stack) : i # Len(stack) => stack[i].op # "drain"
    BY <1>3 DEF EventsInv, Turn
  <2>2. Doing(stack', "drain") = {Top} \ {Top} BY <1>2, <1>3, <1>5, <2>1, DoingPop
  <2> QED BY <2>2
<1>8. Draining({}, A, W[1]) BY DEF Draining
<1>9. Standing({}, Hub({}, list, saved), heard, A, W[1])
  <2>1. Hub({}, list, saved) = list["active"] BY DEF Hub, Isolated
  <2>2. \A p : ~Behind({}, p) BY DEF Behind
  <2>3. \A p \in 1 .. Len(list["active"]) : heard[list["active"][p]] = W[1]
    BY <1>1, AllTold
  <2> QED BY <2>1, <2>2, <2>3 DEF Standing
<1>10. Settled({}, saved, queue, FALSE) BY <1>1, <1>3 DEF Delivery, Settled
<1>11. Delivery(A, W)' BY <1>3, <1>4, <1>6, <1>7, <1>8, <1>9, <1>10 DEF Delivery
<1> QED BY <1>11 DEF DeliveryInv

\* A result, or the end of one, is nobody's notification.
LEMMA ResultDelivers ==
  ASSUME EventsInv, NEW A, NEW W, Delivery(A, W), EnumParams \/ ResultEnd
  PROVE  DeliveryInv'
<1>1. stack \in Seq(Frames) BY TypedFacts DEF EventsInv
<1>2. UNCHANGED <<ver, queue, dispatching, list, saved, heard, fresh, live>>
  BY DEF EnumParams, ResultEnd
<1>3. Doing(stack', "drain") = Doing(stack, "drain")
      /\ Doing(stack', "initial") = Doing(stack, "initial")
  <2>1. CASE ResultEnd
    <3>1. stack # <<>> /\ Top.op = "result" /\ stack' = Below BY <2>1 DEF ResultEnd
    <3>2. IsPop(stack, stack') BY <1>1, <3>1, PopFact DEF Below
    <3>3. stack[Len(stack)].op = "result" BY <3>1 DEF Top
    <3> QED BY <1>1, <3>2, <3>3, DoingPop
  <2>2. CASE EnumParams
    <3> DEFINE f == Frame("result", CurrentTarget, Note("result", 0), <<>>, FALSE)
    <3>1. stack' = Append(stack, f) BY <2>2 DEF EnumParams
    <3>2. <<>> \in Seq(Notes) OBVIOUS
    <3>3. f \in Frames BY <3>2, NoteFact, TargetFact DEF Frame, Frames
    <3>4. f.op = "result" BY DEF Frame
    <3> HIDE DEF f
    <3>5. IsPush(stack, stack', f) BY <1>1, <3>1, <3>3, PushFact
    <3> QED BY <1>1, <3>4, <3>5, DoingPush
  <2> QED BY <2>1, <2>2
<1>4. Delivery(A, W)' BY <1>2, <1>3 DEF Delivery
<1> QED BY <1>4 DEF DeliveryInv

-----------------------------------------------------------------------------
(* The initial callbacks.                                                  *)

\* The first snapshot has reached the new listener.
LEMMA NewcomerNext ==
  ASSUME NEW f, NEW g, NEW x, NEW S, Newcomer(f, x, S), f.rest # <<>>, f.cur # 0,
         g.cur = 0, g.note = Head(f.rest), g.rest = Tail(f.rest)
  PROVE  Newcomer(g, x, S)
<1>1. f.rest = <<Note("port", S["port"])>> /\ x["port"] = 0 /\ x["node"] = S["node"]
  BY DEF Newcomer
<1>2. g.note = Note("port", S["port"]) /\ g.rest = <<>> BY <1>1
<1> QED BY <1>1, <1>2 DEF Newcomer

\* Both have.
LEMMA NewcomerEnd ==
  ASSUME NEW f, NEW x \in [Kinds -> Nat], NEW S \in Versions, Newcomer(f, x, S),
         f.rest = <<>>, f.cur # 0
  PROVE  x = S
<1>1. x["node"] = S["node"] /\ x["port"] = S["port"] BY DEF Newcomer
<1>2. \A k \in Kinds : x[k] = S[k] BY <1>1 DEF Kinds
<1> QED BY <1>2 DEF Versions

\* A new listener that is still registered has been called.
LEMMA NewcomerCalled ==
  ASSUME EventsInv, stack # <<>>, Top.op = "initial", AtEnd(Top),
         NEW l \in Range(list[Top.on]), NEW x, NEW S, Newcomer(Top, x, S)
  PROVE  Top.cur # 0
<1>1. Top.note # Nothing BY DEF Newcomer, Nothing, Note
<1>2. list[Top.on] \in Seq(Listeners) BY TopFact
<1>3. Len(list[Top.on]) # 0
  <2>1. DOMAIN list[Top.on] = 1 .. Len(list[Top.on]) BY <1>2
  <2>2. 1 .. Len(list[Top.on]) # {} BY <2>1 DEF Range
  <2> QED BY <2>2
<1> QED BY <1>1, <1>3 DEF AtEnd

\* The frame of a new listener is its only one.
LEMMA InitialOnTop ==
  ASSUME EventsInv, stack # <<>>, Top.op = "initial"
  PROVE  /\ Top \in Doing(stack, "initial")
         /\ \A i \in 1 .. Len(stack) : i # Len(stack) /\ stack[i].op = "initial" =>
              stack[i] # stack[Len(stack)]
         /\ \A g \in Doing(stack, "initial") : g # Top => g.on # Top.on
<1>1. Len(stack) \in 1 .. Len(stack) /\ Top = stack[Len(stack)] BY TopFact
<1>2. Top \in Doing(stack, "initial") BY <1>1 DEF Doing
<1>3. Places(stack, fresh) BY DEF EventsInv
<1>4. \A i \in 1 .. Len(stack) : i # Len(stack) /\ stack[i].op = "initial" =>
        stack[i] # stack[Len(stack)]
  BY <1>1, <1>3 DEF Places
<1> QED BY <1>2, <1>4, DoingFacts

\* The second snapshot follows the first.
LEMMA InitialNextDelivers ==
  ASSUME EventsInv, NEW A, NEW W, Delivery(A, W), InitialNext
  PROVE  DeliveryInv'
<1>1. stack # <<>> /\ Top.op = "initial" /\ AtEnd(Top) /\ Top.rest # <<>> BY DEF InitialNext
<1>2. stack \in Seq(Frames) /\ Places(stack, fresh) BY TypedFacts DEF EventsInv
<1>3. /\ Len(stack) \in 1 .. Len(stack) /\ Top = stack[Len(stack)]
      /\ Top.on \in {"active"} \cup Listeners /\ Top.claim \in BOOLEAN /\ Top.rest \in Seq(Notes)
  BY <1>1, TopFact
<1> DEFINE f == Frame("initial", Top.on, Head(Top.rest), Tail(Top.rest), Top.claim)
<1>4. f \in Frames
  <2>1. Head(Top.rest) \in Notes /\ Tail(Top.rest) \in Seq(Notes) BY <1>1, <1>3
  <2> QED BY <1>3, <2>1 DEF Frame, Frames
<1>5. /\ f.op = "initial" /\ f.on = Top.on /\ f.cur = 0 /\ f.note = Head(Top.rest)
      /\ f.rest = Tail(Top.rest) /\ f.claim = Top.claim
  BY DEF Frame
<1>6. /\ stack' = [stack EXCEPT ![Len(stack)] = f]
      /\ UNCHANGED <<ver, queue, dispatching, list, saved, heard, fresh, live>>
  BY DEF InitialNext, SetTop
<1> HIDE DEF f
<1>7. IsPut(stack, stack', f) BY <1>1, <1>2, <1>4, <1>6, PutFact
<1> DEFINE ds == Doing(stack, "drain")
           ns == Doing(stack, "initial")
           n2 == (ns \ {Top}) \cup {f}
<1>8. Doing(stack', "drain") = ds
  <2>1. stack[Len(stack)].op # "drain" /\ f.op # "drain" BY <1>1, <1>3, <1>5
  <2> QED BY <1>2, <1>7, <2>1, DoingPut
<1>9. Doing(stack', "initial") = n2
  BY <1>1, <1>2, <1>3, <1>5, <1>7, InitialOnTop, DoingPut
<1>10. Top \in ns /\ \A g \in ns : g # Top => g.on # Top.on BY <1>1, InitialOnTop
<1>11. /\ A \in Versions /\ Told(W, queue, ver) /\ Draining(ds, A, W[1])
       /\ Standing(ds, Hub(ns, list, saved), heard, A, W[1])
       /\ Guests(ns, list, heard, W[1]) /\ Cohorts(ns, list, heard, queue, W)
       /\ Barriers(queue, list, saved, fresh) /\ Members(list, saved, live, fresh, heard)
       /\ Settled(ns, saved, queue, dispatching)
  BY DEF Delivery
<1>12. ASSUME NEW l \in Range(list[Top.on]), NEW x, NEW S, Newcomer(Top, x, S)
       PROVE  Newcomer(f, x, S)
  <2>1. Top.cur # 0 BY <1>1, <1>12, NewcomerCalled
  <2> QED BY <1>1, <1>5, <1>12, <2>1, NewcomerNext
<1> HIDE DEF ds, ns
<1>13. Isolated(n2) <=> Isolated(ns)
  <2>1. ASSUME NEW g \in n2, g.on = "active" PROVE Isolated(ns)
    <3>1. CASE g = f BY <1>5, <1>10, <2>1, <3>1 DEF Isolated
    <3>2. CASE g # f BY <2>1, <3>2 DEF Isolated
    <3> QED BY <3>1, <3>2
  <2>2. ASSUME NEW g \in ns, g.on = "active" PROVE Isolated(n2)
    <3>1. CASE g = Top BY <1>5, <2>2, <3>1 DEF Isolated
    <3>2. CASE g # Top BY <2>2, <3>2 DEF Isolated
    <3> QED BY <3>1, <3>2
  <2> QED BY <2>1, <2>2 DEF Isolated
<1>14. Hub(n2, list, saved) = Hub(ns, list, saved) BY <1>13 DEF Hub
<1>15. Guests(n2, list, heard, W[1])
  <2> SUFFICES ASSUME NEW g \in n2, g.on = "active", NEW l \in Range(list["active"])
               PROVE  Newcomer(g, heard[l], W[1])
    BY DEF Guests
  <2>1. CASE g = f
    <3>1. Newcomer(Top, heard[l], W[1]) BY <1>5, <1>10, <1>11, <2>1 DEF Guests
    <3> QED BY <1>5, <1>12, <2>1, <3>1
  <2>2. CASE g # f BY <1>11, <2>2 DEF Guests
  <2> QED BY <2>1, <2>2
<1>16. Cohorts(n2, list, heard, queue, W)
  <2> SUFFICES ASSUME NEW p \in 1 .. Len(queue), NEW l \in Listeners,
                      queue[p] = Note("activate", l), l \in Range(list[l])
               PROVE  Cohort(n2, l, heard[l], W[p + 1])
    BY DEF Cohorts
  <2>1. Cohort(ns, l, heard[l], W[p + 1]) BY <1>11 DEF Cohorts
  <2>2. ASSUME NEW g \in n2, g.on = l PROVE Newcomer(g, heard[l], W[p + 1])
    <3>1. CASE g = f
      <4>1. Top.on = l BY <1>5, <2>2, <3>1
      <4>2. Newcomer(Top, heard[l], W[p + 1]) BY <1>10, <2>1, <4>1 DEF Cohort
      <4> QED BY <1>12, <3>1, <4>1, <4>2
    <3>2. CASE g # f BY <2>1, <2>2, <3>2 DEF Cohort
    <3> QED BY <3>1, <3>2
  <2>3. ASSUME \A g \in n2 : g.on # l PROVE heard[l] = W[p + 1]
    <3>1. Top.on # l BY <1>5, <2>3
    <3>2. \A g \in ns : g.on # l BY <2>3, <3>1
    <3> QED BY <2>1, <3>2 DEF Cohort
  <2> QED BY <2>2, <2>3 DEF Cohort
<1>17. Settled(n2, saved, queue, dispatching)
  <2>1. ASSUME NEW g \in n2
        PROVE  /\ g.on # "active" => g.claim = FALSE
               /\ g.note.type \in Kinds
               /\ g.rest # <<>> => Head(g.rest).type \in Kinds
    <3>1. CASE g = f
      <4>1. Tail(Top.rest) = <<>>
        <5>1. Len(Top.rest) <= 1 BY <1>1, <1>2, <1>3 DEF Places
        <5> QED BY <1>1, <1>3, <5>1, LastOne
      <4>2. f.rest = <<>> BY <1>5, <4>1
      <4>3. f.on # "active" => f.claim = FALSE BY <1>5, <1>10, <1>11 DEF Settled
      <4>4. f.note.type \in Kinds BY <1>1, <1>5, <1>10, <1>11 DEF Settled
      <4> QED BY <3>1, <4>2, <4>3, <4>4
    <3>2. CASE g # f BY <1>11, <3>2 DEF Settled
    <3> QED BY <3>1, <3>2
  <2> QED BY <1>11, <1>13, <2>1 DEF Settled
<1>18. Delivery(A, W)'
  <2>1. Standing(ds, Hub(n2, list, saved), heard, A, W[1]) BY <1>11, <1>14
  <2> HIDE DEF n2
  <2> QED BY <1>6, <1>8, <1>9, <1>11, <1>15, <1>16, <1>17, <2>1 DEF Delivery
<1> QED BY <1>18 DEF DeliveryInv

\* An isolated listener has both snapshots and joins the others.
LEMMA IsolatedEnds ==
  ASSUME EventsInv, NEW A, NEW W, Delivery(A, W), InitialEnd, Top.on = "active"
  PROVE  DeliveryInv'
<1>1. stack # <<>> /\ Top.op = "initial" /\ AtEnd(Top) /\ Top.rest = <<>> BY DEF InitialEnd
<1>2. /\ stack \in Seq(Frames) /\ Typed /\ Turn(stack, dispatching) /\ dispatching \in BOOLEAN
      /\ list \in [{"active"} \cup Listeners -> Seq(Listeners)] /\ saved \in Seq(Listeners)
      /\ "active" \notin Listeners /\ queue \in Seq(Notes)
  BY TypedFacts DEF EventsInv, Typed
<1>3. Len(stack) \in 1 .. Len(stack) /\ Top = stack[Len(stack)] BY <1>1, TopFact
<1> DEFINE ds == Doing(stack, "drain")
           ns == Doing(stack, "initial")
<1>4. Top \in ns /\ Top.claim = TRUE /\ Isolated(ns)
  <2>1. Top \in ns BY <1>1, InitialOnTop
  <2> QED BY <2>1, DoingFacts DEF Isolated
<1>5. dispatching = TRUE BY <1>2, <1>3, <1>4 DEF Turn
<1>6. ds = {} BY <1>4, DoingFacts
<1>7. ns = {Top}
  <2>1. \A i \in 1 .. Len(stack) : i # Len(stack) => stack[i].op # "initial"
    BY <1>1, <1>4, BelowOwner
  <2>2. \A g \in ns : g = Top BY <1>3, <2>1 DEF Doing
  <2> QED BY <1>4, <2>2
<1>8. /\ Told(W, queue, ver)
      /\ Standing(ds, Hub(ns, list, saved), heard, A, W[1])
      /\ Guests(ns, list, heard, W[1]) /\ Cohorts(ns, list, heard, queue, W)
      /\ Barriers(queue, list, saved, fresh) /\ Members(list, saved, live, fresh, heard)
  BY DEF Delivery
<1> DEFINE f == Frame("drain", "active", Nothing, <<>>, TRUE)
<1>9. /\ stack' = [stack EXCEPT ![Len(stack)] = f]
      /\ list' = [list EXCEPT !["active"] = saved \o @] /\ saved' = <<>>
      /\ UNCHANGED <<ver, queue, dispatching, heard, fresh, live>>
  BY <1>4 DEF InitialEnd, SetTop
<1>10. f \in Frames /\ f.op = "drain" /\ f.note = Nothing BY NoteFact, DrainFrame
<1> HIDE DEF f, ds, ns
<1>11. IsPut(stack, stack', f) BY <1>1, <1>2, <1>9, <1>10, PutFact
<1>12. Doing(stack', "drain") = {f} /\ Doing(stack', "initial") = {}
  BY <1>1, <1>4, <1>10, <1>11, DrainStays
<1> DEFINE s == list["active"]
           t == saved \o s
<1>13. s \in Seq(Listeners) BY <1>2
<1>14. t \in Seq(Listeners) /\ Range(t) = Range(saved) \cup Range(s) BY <1>2, <1>13, RangeJoined
<1>15. list'["active"] = t /\ \A l \in Listeners : list'[l] = list[l] BY <1>2, <1>9
<1> HIDE DEF s, t
<1>16. W[1] \in Versions
  <2>1. 1 \in 1 .. Len(queue) + 1 BY <1>2
  <2> QED BY <1>2, <1>8, <2>1, ToldFact
<1>17. \A l \in Range(t) : heard[l] = W[1]
  <2>1. ASSUME NEW l \in Range(saved) PROVE heard[l] = W[1]
    <3>1. Hub(ns, list, saved) = saved BY <1>4 DEF Hub
    <3>2. \A p : ~Behind(ds, p) BY <1>6 DEF Behind
    <3>3. \A p \in 1 .. Len(saved) : heard[saved[p]] = W[1] BY <1>8, <3>1, <3>2 DEF Standing
    <3>4. DOMAIN saved = 1 .. Len(saved) BY <1>2
    <3> QED BY <3>3, <3>4 DEF Range
  <2>2. ASSUME NEW l \in Range(s) PROVE heard[l] = W[1]
    <3>1. Newcomer(Top, heard[l], W[1]) BY <1>4, <1>8 DEF Guests, s
    <3>2. Top.cur # 0 BY <1>1, <3>1, NewcomerCalled DEF s
    <3>3. l \in Listeners BY <1>13, RangeFact
    <3>4. heard[l] \in [Kinds -> Nat] BY <1>2, <3>3, TypedFacts
    <3> QED BY <1>1, <1>16, <3>1, <3>2, <3>4, NewcomerEnd
  <2> QED BY <1>14, <2>1, <2>2
<1>18. Standing({f}, Hub({}, list', saved'), heard, W[1], W[1])
  <2>1. Hub({}, list', saved') = t BY <1>15 DEF Hub, Isolated
  <2>2. \A p \in 1 .. Len(t) : t[p] \in Range(t) BY <1>14 DEF Range
  <2> QED BY <1>17, <2>1, <2>2 DEF Standing
<1>19. Draining({f}, W[1], W[1]) BY <1>10, NothingMoves DEF Draining
<1>20. Guests({}, list', heard, W[1]) BY DEF Guests
<1>21. Cohorts({}, list', heard, queue, W)
  <2> SUFFICES ASSUME NEW p \in 1 .. Len(queue), NEW l \in Listeners,
                      queue[p] = Note("activate", l), l \in Range(list[l])
               PROVE  Cohort({}, l, heard[l], W[p + 1])
    BY <1>15 DEF Cohorts
  <2>1. Cohort(ns, l, heard[l], W[p + 1]) BY <1>8 DEF Cohorts
  <2>2. \A g \in ns : g.on # l BY <1>2, <1>7
  <2> QED BY <2>1, <2>2 DEF Cohort
<1>22. Range(saved') = {} /\ Once(saved')
  <2>1. Once(<<>>) BY DEF Once
  <2> QED BY <1>9, <2>1, RangeFact
<1>23. Barriers(queue, list', saved', fresh)
  <2>1. Range(list'["active"]) \cup Range(saved') \cup fresh
          = Range(s) \cup Range(saved) \cup fresh
    BY <1>14, <1>15, <1>22
  <2> QED BY <1>8, <1>15, <2>1 DEF Barriers, s
<1>24. Members(list', saved', live, fresh, heard)
  <2>1. Once(t)
    <3>1. Once(s) /\ Once(saved) /\ Range(saved) \cap Range(s) = {} BY <1>8 DEF Members, s
    <3> QED BY <1>2, <1>13, <3>1, OnceJoined DEF t
  <2>2. live \subseteq Listeners \ fresh /\ \A l \in fresh : heard[l]["node"] = 0
    BY <1>8 DEF Members
  <2>3. ASSUME NEW l \in Listeners
        PROVE  /\ Len(list'[l]) <= 1
               /\ l \in live <=> l \in Range(list'[l]) \cup Range(list'["active"]) \cup Range(saved')
    <3>1. /\ Len(list[l]) <= 1
          /\ l \in live <=> l \in Range(list[l]) \cup Range(s) \cup Range(saved)
      BY <1>8 DEF Members, s
    <3> QED BY <1>14, <1>15, <1>22, <3>1
  <2> QED BY <1>15, <1>22, <2>1, <2>2, <2>3 DEF Members
<1>25. Settled({}, saved', queue, TRUE) BY <1>9 DEF Settled
<1>26. Delivery(W[1], W)'
  BY <1>5, <1>8, <1>9, <1>12, <1>16, <1>18, <1>19, <1>20, <1>21, <1>23, <1>24, <1>25 DEF Delivery
<1> QED BY <1>26 DEF DeliveryInv

\* A listener behind a barrier has both snapshots.
LEMMA CohortEnds ==
  ASSUME EventsInv, NEW A, NEW W, Delivery(A, W), InitialEnd, Top.on # "active"
  PROVE  DeliveryInv'
<1>1. stack # <<>> /\ Top.op = "initial" /\ AtEnd(Top) /\ Top.rest = <<>> BY DEF InitialEnd
<1>2. stack \in Seq(Frames) /\ queue \in Seq(Notes) /\ Typed BY TypedFacts DEF EventsInv
<1>3. Len(stack) \in 1 .. Len(stack) /\ Top = stack[Len(stack)] BY <1>1, TopFact
<1> DEFINE ds == Doing(stack, "drain")
           ns == Doing(stack, "initial")
           n2 == ns \ {Top}
<1>4. Top \in ns BY <1>1, InitialOnTop
<1>5. /\ A \in Versions /\ Told(W, queue, ver) /\ Draining(ds, A, W[1])
      /\ Standing(ds, Hub(ns, list, saved), heard, A, W[1])
      /\ Guests(ns, list, heard, W[1]) /\ Cohorts(ns, list, heard, queue, W)
      /\ Barriers(queue, list, saved, fresh) /\ Members(list, saved, live, fresh, heard)
      /\ Settled(ns, saved, queue, dispatching)
  BY DEF Delivery
<1>6. Top.claim = FALSE BY <1>4, <1>5 DEF Settled
<1>7. stack' = Below /\ UNCHANGED <<ver, queue, dispatching, list, saved, heard, fresh, live>>
  BY <1>6 DEF InitialEnd
<1>8. IsPop(stack, stack') BY <1>1, <1>2, <1>7, PopFact DEF Below
<1>9. Doing(stack', "drain") = ds
  <2>1. stack[Len(stack)].op # "drain" BY <1>1, <1>3
  <2> QED BY <1>2, <1>8, <2>1, DoingPop
<1>10. Doing(stack', "initial") = n2 BY <1>1, <1>2, <1>3, <1>8, InitialOnTop, DoingPop
<1> HIDE DEF ds, ns
<1>11. Isolated(n2) <=> Isolated(ns) BY DEF Isolated
<1>12. Hub(n2, list, saved) = Hub(ns, list, saved) BY <1>11 DEF Hub
<1>13. Guests(n2, list, heard, W[1]) BY <1>5 DEF Guests
<1>14. Cohorts(n2, list, heard, queue, W)
  <2> SUFFICES ASSUME NEW p \in 1 .. Len(queue), NEW l \in Listeners,
                      queue[p] = Note("activate", l), l \in Range(list[l])
               PROVE  Cohort(n2, l, heard[l], W[p + 1])
    BY DEF Cohorts
  <2>1. Cohort(ns, l, heard[l], W[p + 1]) BY <1>5 DEF Cohorts
  <2>2. CASE Top.on = l
    <3>1. Newcomer(Top, heard[l], W[p + 1]) BY <1>4, <2>1, <2>2 DEF Cohort
    <3>2. Top.cur # 0 BY <1>1, <2>2, <3>1, NewcomerCalled
    <3>3. W[p + 1] \in Versions
      <4>1. p + 1 \in 1 .. Len(queue) + 1 BY <1>2
      <4> QED BY <1>2, <1>5, <4>1, ToldFact
    <3>4. heard[l] \in [Kinds -> Nat] BY <1>2, TypedFacts
    <3>5. heard[l] = W[p + 1] BY <1>1, <3>1, <3>2, <3>3, <3>4, NewcomerEnd
    <3> QED BY <2>1, <3>5 DEF Cohort
  <2>3. CASE Top.on # l
    <3>1. (\A g \in n2 : g.on # l) => \A g \in ns : g.on # l BY <2>3
    <3> QED BY <2>1, <3>1 DEF Cohort
  <2> QED BY <2>2, <2>3
<1>15. Settled(n2, saved, queue, dispatching) BY <1>5, <1>11 DEF Settled
<1>16. Delivery(A, W)'
  <2>1. Standing(ds, Hub(n2, list, saved), heard, A, W[1]) BY <1>5, <1>12
  <2> HIDE DEF n2
  <2> QED BY <1>5, <1>7, <1>9, <1>10, <1>13, <1>14, <1>15, <2>1 DEF Delivery
<1> QED BY <1>16 DEF DeliveryInv

-----------------------------------------------------------------------------
(* Listeners come and go.                                                  *)

\* A listener that nobody has called yet, and the frame that will.
LEMMA NewcomerFirst ==
  ASSUME NEW f, NEW x, NEW S, f.cur = 0, f.note = Note("node", S["node"]),
         f.rest = <<Note("port", S["port"])>>, x["node"] = 0, x["port"] = 0
  PROVE  Newcomer(f, x, S)
<1>1. f.rest # <<>> OBVIOUS
<1> QED BY <1>1 DEF Newcomer

\* The frame of the first snapshot.
LEMMA FirstFrame ==
  ASSUME Typed, NEW on \in {"active"} \cup Listeners, NEW claim \in BOOLEAN
  PROVE  LET f == Frame("initial", on, Info("node"), <<Info("port")>>, claim)
         IN  /\ f \in Frames /\ f.op = "initial" /\ f.on = on /\ f.cur = 0 /\ f.claim = claim
             /\ f.note = Note("node", ver["node"]) /\ f.rest = <<Note("port", ver["port"])>>
             /\ f.note.type \in Kinds /\ f.rest # <<>> /\ Head(f.rest).type \in Kinds
<1> DEFINE f == Frame("initial", on, Info("node"), <<Info("port")>>, claim)
<1>1. Info("node") \in Notes /\ Info("port") \in Notes
      /\ Info("node").type = "node" /\ Info("port").type = "port"
  BY NoteFact DEF Info, Kinds, Typed
<1>2. <<Info("port")>> \in Seq(Notes) BY <1>1
<1>3. f \in Frames BY <1>1, <1>2 DEF Frame, Frames
<1>4. f.op = "initial" /\ f.on = on /\ f.cur = 0 /\ f.claim = claim /\ f.note = Info("node")
      /\ f.rest = <<Info("port")>>
  BY DEF Frame
<1> HIDE DEF f
<1>5. f.rest # <<>> /\ Head(f.rest) = Info("port") BY <1>4
<1>6. f.note.type \in Kinds /\ Head(f.rest).type \in Kinds BY <1>1, <1>4, <1>5 DEF Kinds
<1>7. f.note = Note("node", ver["node"]) /\ f.rest = <<Note("port", ver["port"])>>
  BY <1>4 DEF Info
<1> QED BY <1>3, <1>4, <1>5, <1>6, <1>7 DEF f

\* A listener registers while older work exists: a barrier stands behind it.
LEMMA AddDeferredDelivers ==
  ASSUME EventsInv, NEW A, NEW W, Delivery(A, W), NEW l \in fresh, AddListener(l), Deferred
  PROVE  DeliveryInv'
<1> DEFINE ds == Doing(stack, "drain")
           ns == Doing(stack, "initial")
<1>1. /\ A \in Versions /\ Told(W, queue, ver) /\ Draining(ds, A, W[1])
      /\ Standing(ds, Hub(ns, list, saved), heard, A, W[1])
      /\ Guests(ns, list, heard, W[1]) /\ Cohorts(ns, list, heard, queue, W)
      /\ Barriers(queue, list, saved, fresh) /\ Members(list, saved, live, fresh, heard)
      /\ Settled(ns, saved, queue, dispatching)
  BY DEF Delivery
<1>2. /\ stack \in Seq(Frames) /\ queue \in Seq(Notes) /\ Len(queue) \in Nat /\ Typed
      /\ "active" \notin Listeners /\ fresh \subseteq Listeners /\ dispatching \in BOOLEAN
      /\ list \in [{"active"} \cup Listeners -> Seq(Listeners)] /\ l \in Listeners
      /\ Lists(list, saved, heard, fresh)
  BY TypedFacts DEF EventsInv, Typed
<1>3. dispatching = TRUE BY <1>1, <1>2 DEF Deferred, Settled
<1> DEFINE f == Frame("initial", l, Info("node"), <<Info("port")>>, FALSE)
           n == Note("activate", l)
<1>4. /\ queue' = Append(queue, n) /\ list' = [list EXCEPT ![l] = <<l>>]
      /\ saved' = saved /\ stack' = Append(stack, f) /\ fresh' = fresh \ {l}
      /\ live' = live \cup {l} /\ UNCHANGED <<ver, heard>>
  BY <1>3 DEF AddListener, TakesTurn
<1>5. dispatching' = TRUE BY <1>3 DEF AddListener
<1>6. /\ f \in Frames /\ f.op = "initial" /\ f.on = l /\ f.cur = 0 /\ f.claim = FALSE
      /\ f.note = Note("node", ver["node"]) /\ f.rest = <<Note("port", ver["port"])>>
      /\ f.note.type \in Kinds /\ f.rest # <<>> /\ Head(f.rest).type \in Kinds
  BY <1>2, FirstFrame
<1> HIDE DEF f, ds, ns
<1>7. IsPush(stack, stack', f) BY <1>2, <1>4, <1>6, PushFact
<1>8. Doing(stack', "drain") = ds
  <2>1. f.op # "drain" BY <1>6
  <2> QED BY <1>2, <1>7, <2>1, DoingPush DEF ds
<1>9. Doing(stack', "initial") = ns \cup {f} BY <1>2, <1>6, <1>7, DoingPush DEF ns
<1>10. n \in Notes /\ n.type = "activate" /\ ver \in Versions
  BY <1>1, <1>2, NoteFact, ToldFact DEF Note
<1>11. Moves(ver, n, ver) BY <1>10 DEF Moves, Kinds
<1> DEFINE r == Append(queue, n)
<1> HIDE DEF n
<1>12. PICK X : Told(X, r, ver) /\ \A p \in 1 .. Len(queue) + 1 : X[p] = W[p]
  <2>1. Told(W, queue, ver) /\ queue \in Seq(Notes) /\ n \in Notes /\ ver \in Versions
    BY <1>1, <1>2, <1>10
  <2>2. Told(Append(W, ver), Append(queue, n), ver)
    BY <1>11, <2>1, ToldAppend, SMT
  <2>3. \A p \in 1 .. Len(queue) + 1 : Append(W, ver)[p] = W[p]
    <3>1. W \in Seq(Versions) /\ Len(W) = Len(queue) + 1 BY <2>1 DEF Told
    <3>2. \A p \in 1 .. Len(W) : Append(W, ver)[p] = W[p] BY <2>1, <3>1
    <3> QED BY <3>1, <3>2
  <2> QED BY <2>2, <2>3, Zenon
<1>13. /\ Len(r) = Len(queue) + 1 /\ r[Len(queue) + 1] = n
       /\ \A p \in 1 .. Len(queue) : r[p] = queue[p]
  BY <1>2, <1>10
<1> HIDE DEF r
<1>14. X[1] = W[1]
  <2>1. 1 \in 1 .. Len(queue) + 1 BY <1>2
  <2> QED BY <1>12, <2>1
<1>15. \A p \in 1 .. Len(r) : p \in 1 .. Len(queue) \/ p = Len(queue) + 1 BY <1>2, <1>13
<1>16. \A p \in 1 .. Len(queue) : p \in 1 .. Len(r) /\ X[p + 1] = W[p + 1]
  <2>1. \A p \in 1 .. Len(queue) : p \in 1 .. Len(r) /\ p + 1 \in 1 .. Len(queue) + 1
    BY <1>2, <1>13
  <2> QED BY <1>12, <2>1
<1>17. X[Len(queue) + 1 + 1] = ver BY <1>2, <1>12, <1>13 DEF Told
<1>18. \A m : n = Note("activate", m) => m = l BY DEF n, Note
<1>19. \A p \in 1 .. Len(queue) : queue[p] # n BY <1>1, <1>2 DEF Barriers, n
<1>20. <<l>> \in Seq(Listeners) /\ Len(<<l>>) <= 1 /\ Range(<<l>>) = {l} BY <1>2, RangeFact
<1>21. /\ list'["active"] = list["active"] /\ list'[l] = <<l>> /\ Range(list'[l]) = {l}
       /\ \A m \in Listeners : m # l => list'[m] = list[m]
  BY <1>2, <1>4, <1>20
<1>22. l \notin Range(list["active"]) \cup Range(saved) /\ heard[l]["port"] = 0 /\ heard[l]["node"] = 0
  BY <1>1, <1>2 DEF Lists, Members
<1>23. Isolated(ns \cup {f}) <=> Isolated(ns) BY <1>2, <1>6 DEF Isolated
<1>24. Standing(ds, Hub(ns \cup {f}, list', saved), heard, A, W[1])
  <2>1. Hub(ns \cup {f}, list', saved) = Hub(ns, list, saved) BY <1>21, <1>23 DEF Hub
  <2> QED BY <1>1, <2>1
<1>25. Guests(ns \cup {f}, list', heard, W[1])
  <2>1. f.on # "active" BY <1>2, <1>6
  <2> QED BY <1>1, <1>21, <2>1 DEF Guests
<1>26. Cohorts(ns \cup {f}, list', heard, r, X)
  <2> SUFFICES ASSUME NEW p \in 1 .. Len(r), NEW m \in Listeners,
                      r[p] = Note("activate", m), m \in Range(list'[m])
               PROVE  Cohort(ns \cup {f}, m, heard[m], X[p + 1])
    BY DEF Cohorts
  <2>1. CASE p \in 1 .. Len(queue)
    <3>1. queue[p] = Note("activate", m) BY <1>13, <2>1
    <3>2. m # l BY <1>19, <2>1, <3>1 DEF n
    <3>3. Cohort(ns, m, heard[m], W[p + 1]) BY <1>1, <1>21, <2>1, <3>1, <3>2 DEF Cohorts
    <3>4. Cohort(ns, m, heard[m], X[p + 1]) BY <1>16, <2>1, <3>3
    <3>5. f.on # m BY <1>6, <3>2
    <3> QED BY <3>4, <3>5 DEF Cohort
  <2>2. CASE p = Len(queue) + 1
    <3>1. m = l BY <1>13, <1>18, <2>2
    <3>2. X[p + 1] = ver BY <1>17, <2>2
    <3>3. Newcomer(f, heard[l], ver) BY <1>6, <1>22, NewcomerFirst
    <3>4. \A g \in ns : g.on # l BY DoingFacts DEF ns
    <3>5. Cohort(ns \cup {f}, l, heard[l], ver) BY <1>6, <3>3, <3>4 DEF Cohort
    <3> QED BY <3>1, <3>2, <3>5
  <2> QED BY <1>15, <2>1, <2>2
<1>27. Barriers(r, list', saved, fresh \ {l})
  <2>1. ASSUME NEW m \in Listeners, m \in Range(list'[m])
        PROVE  \E p \in 1 .. Len(r) : r[p] = Note("activate", m)
    <3>1. CASE m = l
      <4>1. Len(queue) + 1 \in 1 .. Len(r) BY <1>2, <1>13
      <4> QED BY <1>13, <3>1, <4>1 DEF n
    <3>2. CASE m # l
      <4>1. PICK p \in 1 .. Len(queue) : queue[p] = Note("activate", m)
        BY <1>1, <1>21, <2>1, <3>2 DEF Barriers
      <4> QED BY <1>13, <1>16, <4>1
    <3> QED BY <3>1, <3>2
  <2>2. ASSUME NEW p \in 1 .. Len(r), NEW m \in Listeners, r[p] = Note("activate", m)
        PROVE  m \notin Range(list'["active"]) \cup Range(saved) \cup (fresh \ {l})
    <3>1. CASE p \in 1 .. Len(queue) BY <1>1, <1>13, <1>21, <2>2, <3>1 DEF Barriers
    <3>2. CASE p = Len(queue) + 1
      <4>1. m = l BY <1>13, <1>18, <2>2, <3>2
      <4> QED BY <1>21, <1>22, <4>1
    <3> QED BY <1>15, <3>1, <3>2
  <2>3. ASSUME NEW p \in 1 .. Len(r), NEW t \in 1 .. Len(r), NEW m \in Listeners,
               r[p] = Note("activate", m), r[t] = Note("activate", m)
        PROVE  p = t
    <3>1. CASE p \in 1 .. Len(queue) /\ t \in 1 .. Len(queue)
      BY <1>1, <1>13, <2>3, <3>1 DEF Barriers
    <3>2. CASE p = Len(queue) + 1 /\ t = Len(queue) + 1 BY <3>2
    <3>3. CASE p = Len(queue) + 1 /\ t \in 1 .. Len(queue) BY <1>13, <1>18, <1>19, <2>3, <3>3 DEF n
    <3>4. CASE p \in 1 .. Len(queue) /\ t = Len(queue) + 1 BY <1>13, <1>18, <1>19, <2>3, <3>4 DEF n
    <3> QED BY <1>15, <3>1, <3>2, <3>3, <3>4
  <2> QED BY <2>1, <2>2, <2>3 DEF Barriers
<1>28. Members(list', saved, live \cup {l}, fresh \ {l}, heard)
  <2>1. /\ Once(list'["active"]) /\ Once(saved) /\ Range(list'["active"]) \cap Range(saved) = {}
        /\ live \cup {l} \subseteq Listeners \ (fresh \ {l})
        /\ \A m \in fresh \ {l} : heard[m]["node"] = 0
    BY <1>1, <1>2, <1>21 DEF Members
  <2>2. ASSUME NEW m \in Listeners
        PROVE  /\ Len(list'[m]) <= 1
               /\ m \in live \cup {l}
                    <=> m \in Range(list'[m]) \cup Range(list'["active"]) \cup Range(saved)
    <3>1. /\ Len(list[m]) <= 1
          /\ m \in live <=> m \in Range(list[m]) \cup Range(list["active"]) \cup Range(saved)
      BY <1>1 DEF Members
    <3>2. CASE m # l BY <1>21, <3>1, <3>2
    <3>3. CASE m = l
      <4>1. Len(list'[m]) <= 1 BY <1>20, <1>21, <3>3
      <4> QED BY <1>21, <3>3, <4>1
    <3> QED BY <3>2, <3>3
  <2> QED BY <2>1, <2>2 DEF Members
<1>29. Settled(ns \cup {f}, saved, r, TRUE) BY <1>1, <1>6, <1>23 DEF Settled
<1>30. Delivery(A, X)'
  BY <1>1, <1>4, <1>5, <1>8, <1>9, <1>12, <1>14, <1>24, <1>25, <1>26, <1>27, <1>28, <1>29
  DEF Delivery, r
<1> QED BY <1>30 DEF DeliveryInv

\* A listener registers when nothing waits: the others are put aside.
LEMMA AddIsolatedDelivers ==
  ASSUME EventsInv, NEW A, NEW W, Delivery(A, W), NEW l \in fresh, AddListener(l), ~Deferred
  PROVE  DeliveryInv'
<1>1. /\ stack \in Seq(Frames) /\ queue \in Seq(Notes) /\ Len(queue) \in Nat /\ Typed
      /\ "active" \notin Listeners /\ fresh \subseteq Listeners /\ dispatching \in BOOLEAN
      /\ list \in [{"active"} \cup Listeners -> Seq(Listeners)] /\ l \in Listeners
      /\ Lists(list, saved, heard, fresh)
  BY TypedFacts DEF EventsInv, Typed
<1>2. dispatching = FALSE /\ queue = <<>> BY <1>1 DEF Deferred
<1>3. Doing(stack, "drain") = {} /\ Doing(stack, "initial") = {} BY <1>2, DoingFacts
<1>4. /\ A \in Versions /\ Told(W, queue, ver)
      /\ Standing({}, Hub({}, list, saved), heard, A, W[1])
      /\ Barriers(queue, list, saved, fresh) /\ Members(list, saved, live, fresh, heard)
      /\ Settled({}, saved, queue, dispatching)
  BY <1>3 DEF Delivery
<1>5. Hub({}, list, saved) = list["active"] /\ saved = <<>> /\ Range(saved) = {}
  BY <1>4, RangeFact DEF Hub, Isolated, Settled
<1>6. W[1] = ver /\ Len(queue) = 0
  <2>1. Len(queue) = 0 BY <1>2
  <2>2. W[0 + 1] = ver /\ 0 + 1 = 1 BY <1>4, <2>1 DEF Told
  <2> QED BY <2>1, <2>2
<1> DEFINE f == Frame("initial", "active", Info("node"), <<Info("port")>>, TRUE)
<1>7. /\ queue' = queue /\ list' = [list EXCEPT !["active"] = <<l>>]
      /\ saved' = list["active"] /\ fresh' = fresh \ {l} /\ live' = live \cup {l}
      /\ UNCHANGED <<ver, heard>>
  BY DEF AddListener
<1>8. dispatching' = TRUE /\ stack' = Append(stack, f) BY <1>2 DEF AddListener, TakesTurn
<1>9. /\ f \in Frames /\ f.op = "initial" /\ f.on = "active" /\ f.cur = 0 /\ f.claim = TRUE
      /\ f.note = Note("node", ver["node"]) /\ f.rest = <<Note("port", ver["port"])>>
      /\ f.note.type \in Kinds /\ f.rest # <<>> /\ Head(f.rest).type \in Kinds
  BY <1>1, FirstFrame
<1> HIDE DEF f
<1>10. IsPush(stack, stack', f) BY <1>1, <1>8, <1>9, PushFact
<1>11. Doing(stack', "drain") = {}
  <2>1. f.op # "drain" BY <1>9
  <2> QED BY <1>1, <1>3, <1>10, <2>1, DoingPush
<1>12. Doing(stack', "initial") = {f} BY <1>1, <1>3, <1>9, <1>10, DoingPush
<1>13. <<l>> \in Seq(Listeners) /\ Len(<<l>>) <= 1 /\ Range(<<l>>) = {l} BY <1>1, RangeFact
<1>14. list'["active"] = <<l>> /\ \A m \in Listeners : list'[m] = list[m] BY <1>1, <1>7
<1>15. l \notin Range(list["active"]) \cup Range(list[l]) /\ heard[l]["port"] = 0 /\ heard[l]["node"] = 0
  BY <1>1, <1>4 DEF Lists, Members
<1>16. Isolated({f}) BY <1>9 DEF Isolated
<1>17. Standing({}, Hub({f}, list', saved'), heard, A, W[1])
  <2>1. Hub({f}, list', saved') = list["active"] BY <1>7, <1>16 DEF Hub
  <2> QED BY <1>4, <1>5, <2>1
<1>18. Guests({f}, list', heard, W[1])
  <2>1. Newcomer(f, heard[l], W[1]) BY <1>6, <1>9, <1>15, NewcomerFirst
  <2> QED BY <1>13, <1>14, <2>1 DEF Guests
<1>19. 1 .. Len(queue) = {} BY <1>6
<1>20. Cohorts({f}, list', heard, queue, W) BY <1>19 DEF Cohorts
<1>21. \A m \in Listeners : m \notin Range(list[m]) BY <1>4, <1>19 DEF Barriers
<1>22. Barriers(queue, list', saved', fresh \ {l}) BY <1>14, <1>19, <1>21 DEF Barriers
<1>23. Members(list', saved', live \cup {l}, fresh \ {l}, heard)
  <2>1. Once(<<l>>) BY <1>13, OnceShort
  <2>2. Once(list'["active"]) /\ Once(saved') /\ Range(list'["active"]) = {l}
        /\ Range(saved') = Range(list["active"])
    BY <1>4, <1>7, <1>13, <1>14, <2>1 DEF Members
  <2>3. /\ live \cup {l} \subseteq Listeners \ (fresh \ {l})
        /\ \A m \in fresh \ {l} : heard[m]["node"] = 0
    BY <1>1, <1>4 DEF Members
  <2>4. ASSUME NEW m \in Listeners
        PROVE  /\ Len(list'[m]) <= 1
               /\ m \in live \cup {l}
                    <=> m \in Range(list'[m]) \cup Range(list'["active"]) \cup Range(saved')
    <3>1. /\ Len(list[m]) <= 1
          /\ m \in live <=> m \in Range(list[m]) \cup Range(list["active"]) \cup Range(saved)
      BY <1>4 DEF Members
    <3> QED BY <1>5, <1>14, <2>2, <3>1
  <2> QED BY <1>15, <2>2, <2>3, <2>4 DEF Members
<1>24. Settled({f}, saved', queue, TRUE) BY <1>9, <1>16 DEF Settled
<1>25. Draining({}, A, W[1]) BY DEF Draining
<1>26. Delivery(A, W)'
  BY <1>4, <1>7, <1>8, <1>11, <1>12, <1>17, <1>18, <1>20, <1>22, <1>23, <1>24, <1>25 DEF Delivery
<1> QED BY <1>26 DEF DeliveryInv

\* Where the hooks stand when one of them is unlinked.
LEMMA WithoutAt ==
  ASSUME NEW s \in Seq(Listeners), NEW l \in Range(s)
  PROVE  \E k \in 1 .. Len(s) :
           /\ s[k] = l /\ Len(Without(s, l)) = Len(s) - 1
           /\ \A p \in 1 .. k - 1 : Without(s, l)[p] = s[p]
           /\ \A p \in k .. Len(s) - 1 : Without(s, l)[p] = s[p + 1]
<1> DEFINE at == {p \in DOMAIN s : s[p] = l}
           k == CHOOSE p \in at : TRUE
<1>1. Len(s) \in Nat /\ DOMAIN s = 1 .. Len(s) OBVIOUS
<1>2. at # {} BY DEF Range
<1>3. Without(s, l) = SubSeq(s, 1, k - 1) \o SubSeq(s, k + 1, Len(s)) BY <1>2 DEF Without
<1>4. k \in 1 .. Len(s) /\ s[k] = l BY <1>1, <1>2
<1> HIDE DEF k, at
<1>5. k - 1 \in 0 .. Len(s) /\ k \in 0 .. Len(s) BY <1>1, <1>4
<1>6. PICK a : a = SubSeq(s, 1, k - 1) OBVIOUS
<1>7. PICK b : b = SubSeq(s, k + 1, Len(s)) OBVIOUS
<1>8. /\ a \in Seq(Listeners) /\ Len(a) = k - 1 /\ \A i \in 1 .. (k - 1) : a[i] = s[i]
  BY <1>5, <1>6, PrefixOf
<1>9. /\ b \in Seq(Listeners) /\ Len(b) = Len(s) - k
      /\ \A i \in 1 .. (Len(s) - k) : b[i] = s[k + i]
  BY <1>5, <1>7, SuffixOf
<1>10. PICK u : u = a \o b OBVIOUS
<1>11. /\ Len(u) = Len(a) + Len(b)
       /\ \A p \in 1 .. Len(a) : u[p] = a[p]
       /\ \A j \in 1 .. Len(b) : u[Len(a) + j] = b[j]
  <2>1. a \in Seq(Listeners) /\ b \in Seq(Listeners) BY <1>8, <1>9
  <2> QED BY <1>10, <2>1
<1>12. u = Without(s, l) BY <1>3, <1>6, <1>7, <1>10
<1>13. Len(u) = Len(s) - 1 BY <1>1, <1>4, <1>8, <1>9, <1>11
<1>14. \A p \in 1 .. k - 1 : u[p] = s[p] BY <1>8, <1>11
<1>15. ASSUME NEW p \in k .. Len(s) - 1 PROVE u[p] = s[p + 1]
  <2> DEFINE j == p - (k - 1)
  <2>1. j \in 1 .. Len(b) /\ (k - 1) + j = p /\ k + j = p + 1 BY <1>1, <1>4, <1>9
  <2> HIDE DEF j
  <2>2. u[p] = b[j] BY <1>8, <1>11, <2>1
  <2>3. b[j] = s[p + 1] BY <1>9, <2>1
  <2> QED BY <2>2, <2>3
<1> QED BY <1>4, <1>12, <1>13, <1>14, <1>15

(* The cursor when the hook goes.                                          *)
Stepped(s, c, l) == IF \E p \in 1 .. c : s[p] = l THEN c - 1 ELSE c

\* No hook is passed over, and none is called again.
LEMMA WithoutOnce ==
  ASSUME NEW s \in Seq(Listeners), Once(s), NEW l
  PROVE  /\ Once(Without(s, l)) /\ Range(Without(s, l)) = Range(s) \ {l}
         /\ \A p \in 1 .. Len(Without(s, l)) : \E r \in 1 .. Len(s) :
              /\ Without(s, l)[p] = s[r]
              /\ \A c \in Nat : c <= Len(s) => (Stepped(s, c, l) < p <=> c < r)
<1>1. Len(s) \in Nat /\ DOMAIN s = 1 .. Len(s) OBVIOUS
<1>2. Without(s, l) \in Seq(Listeners) BY WithoutFact
<1>3. CASE l \notin Range(s)
  <2>1. Without(s, l) = s BY <1>3, WithoutFact
  <2>2. \A c \in Nat : c <= Len(s) => Stepped(s, c, l) = c
    <3> SUFFICES ASSUME NEW c \in Nat, c <= Len(s) PROVE ~\E p \in 1 .. c : s[p] = l
      BY DEF Stepped
    <3>1. \A p \in 1 .. c : p \in 1 .. Len(s) BY <1>1
    <3> QED BY <1>1, <1>3, <3>1 DEF Range
  <2> QED BY <1>3, <2>1, <2>2
<1>4. CASE l \in Range(s)
  <2>1. PICK k \in 1 .. Len(s) :
           /\ s[k] = l /\ Len(Without(s, l)) = Len(s) - 1
           /\ \A p \in 1 .. k - 1 : Without(s, l)[p] = s[p]
           /\ \A p \in k .. Len(s) - 1 : Without(s, l)[p] = s[p + 1]
    BY <1>4, WithoutAt
  <2>2. PICK u : u = Without(s, l) OBVIOUS
  <2> DEFINE R(p) == IF p < k THEN p ELSE p + 1
  <2>3. ASSUME NEW p \in 1 .. Len(u) PROVE R(p) \in 1 .. Len(s) /\ R(p) # k /\ u[p] = s[R(p)]
    <3>1. CASE p < k
      <4>1. p \in 1 .. k - 1 /\ R(p) = p /\ p \in 1 .. Len(s) BY <1>1, <3>1
      <4> QED BY <2>1, <2>2, <3>1, <4>1
    <3>2. CASE ~(p < k)
      <4>1. p \in k .. Len(s) - 1 /\ R(p) = p + 1 /\ p + 1 \in 1 .. Len(s) /\ p + 1 # k
        BY <1>1, <2>1, <2>2, <3>2
      <4> QED BY <2>1, <2>2, <4>1
    <3> QED BY <3>1, <3>2
  <2>4. \A p, r \in Int : R(p) = R(r) => p = r OBVIOUS
  <2>5. \A p \in 1 .. Len(s) : s[p] = l => p = k BY <2>1 DEF Once
  <2>6. ASSUME NEW c \in Nat, c <= Len(s) PROVE Stepped(s, c, l) = IF k <= c THEN c - 1 ELSE c
    <3>1. k <= c <=> \E p \in 1 .. c : s[p] = l
      <4>1. k <= c => k \in 1 .. c BY <1>1
      <4>2. \A p \in 1 .. c : p \in 1 .. Len(s) BY <1>1, <2>6
      <4> QED BY <2>1, <2>5, <4>1, <4>2
    <3> QED BY <3>1 DEF Stepped
  <2>7. ASSUME NEW p \in 1 .. Len(u), NEW c \in Nat, c <= Len(s)
        PROVE  Stepped(s, c, l) < p <=> c < R(p)
    <3>1. p \in Nat /\ k \in Nat /\ c \in Nat BY <1>1, <2>1, <2>2
    <3>2. (IF k <= c THEN c - 1 ELSE c) < p <=> c < R(p) BY <3>1
    <3> QED BY <2>6, <2>7, <3>2
  <2>8. ASSUME NEW p \in 1 .. Len(u), NEW r \in 1 .. Len(u), u[p] = u[r] PROVE p = r
    <3>1. R(p) = R(r) BY <2>3, <2>8 DEF Once
    <3> QED BY <2>4, <3>1
  <2>9. DOMAIN u = 1 .. Len(u) BY <1>2, <2>2
  <2>10. ASSUME NEW x \in Range(u) PROVE x \in Range(s) /\ x # l
    <3>1. PICK p \in 1 .. Len(u) : x = u[p] BY <2>9 DEF Range
    <3> QED BY <1>1, <2>3, <2>5, <3>1 DEF Range
  <2>11. ASSUME NEW x \in Range(s), x # l PROVE x \in Range(u)
    <3>1. PICK p \in 1 .. Len(s) : x = s[p] BY <1>1 DEF Range
    <3>2. p # k BY <2>1, <2>11, <3>1
    <3>3. CASE p < k
      <4>1. p \in 1 .. k - 1 /\ p \in 1 .. Len(u) BY <1>1, <2>1, <2>2, <3>3
      <4>2. u[p] = s[p] BY <2>1, <2>2, <4>1
      <4> QED BY <2>9, <3>1, <4>1, <4>2 DEF Range
    <3>4. CASE p > k
      <4>1. p - 1 \in k .. Len(s) - 1 /\ p - 1 \in 1 .. Len(u) /\ p - 1 + 1 = p
        BY <1>1, <2>1, <2>2, <3>4
      <4>2. u[p - 1] = s[p] BY <2>1, <2>2, <4>1
      <4> QED BY <2>9, <3>1, <4>1, <4>2 DEF Range
    <3> QED BY <1>1, <3>2, <3>3, <3>4
  <2> HIDE DEF R
  <2>12. Range(u) = Range(s) \ {l} BY <2>10, <2>11
  <2>13. Once(u) BY <2>8 DEF Once
  <2>14. \A p \in 1 .. Len(u) : \E r \in 1 .. Len(s) :
              /\ u[p] = s[r]
              /\ \A c \in Nat : c <= Len(s) => (Stepped(s, c, l) < p <=> c < r)
    BY <2>3, <2>7
  <2> QED BY <2>2, <2>12, <2>13, <2>14
<1> QED BY <1>3, <1>4

\* What unlinking leaves of the frames: their cursors step back.
LEMMA Unlinked ==
  ASSUME EventsInv, NEW l, RemoveListener(l), NEW op
  PROVE  /\ \A g \in Doing(stack', op) : \E i \in 1 .. Len(stack) :
              /\ stack[i] \in Doing(stack, op)
              /\ g.op = stack[i].op /\ g.on = stack[i].on /\ g.claim = stack[i].claim
              /\ g.note = stack[i].note /\ g.rest = stack[i].rest
              /\ g.cur = Stepped(Held(stack, list, saved, i), stack[i].cur, l)
         /\ \A i \in 1 .. Len(stack) : stack[i].op = op =>
              \E g \in Doing(stack', op) :
                /\ g.op = stack[i].op /\ g.on = stack[i].on /\ g.claim = stack[i].claim
                /\ g.note = stack[i].note /\ g.rest = stack[i].rest
                /\ g.cur = Stepped(Held(stack, list, saved, i), stack[i].cur, l)
<1>1. stack \in Seq(Frames) BY TypedFacts DEF EventsInv
<1>2. stack' = [i \in DOMAIN stack |-> Unhook(i, l)] /\ DOMAIN stack = 1 .. Len(stack)
      /\ Len(stack) \in Nat
  BY <1>1 DEF RemoveListener
<1>3. DOMAIN stack' = 1 .. Len(stack) /\ stack' \in Seq(Frames)
  <2>1. EventsInv' BY RemoveListenerKeeps
  <2> QED BY <1>2, <2>1, TypedFacts DEF EventsInv, Typed
<1>4. Len(stack') = Len(stack) BY <1>2, <1>3
<1>5. ASSUME NEW i \in 1 .. Len(stack)
      PROVE  /\ stack'[i].op = stack[i].op /\ stack'[i].on = stack[i].on
             /\ stack'[i].claim = stack[i].claim
             /\ stack'[i].note = stack[i].note /\ stack'[i].rest = stack[i].rest
             /\ stack'[i].cur = Stepped(Held(stack, list, saved, i), stack[i].cur, l)
  <2> DEFINE s == Held(stack, list, saved, i)
  <2>1. stack[i] \in Frames BY <1>1
  <2>2. stack'[i] = IF \E p \in 1 .. stack[i].cur : s[p] = l
                    THEN [stack[i] EXCEPT !.cur = stack[i].cur - 1] ELSE stack[i]
    BY <1>2, HooksHeld DEF Unhook
  <2> HIDE DEF s
  <2>3. CASE \E p \in 1 .. stack[i].cur : s[p] = l
    <3>1. stack'[i] = [stack[i] EXCEPT !.cur = stack[i].cur - 1] BY <2>2, <2>3
    <3>2. Stepped(s, stack[i].cur, l) = stack[i].cur - 1 BY <2>3 DEF Stepped
    <3>3. /\ stack'[i].op = stack[i].op /\ stack'[i].on = stack[i].on
          /\ stack'[i].claim = stack[i].claim
          /\ stack'[i].note = stack[i].note /\ stack'[i].rest = stack[i].rest
          /\ stack'[i].cur = stack[i].cur - 1
      BY <2>1, <3>1 DEF Frames
    <3> QED BY <3>2, <3>3 DEF s
  <2>4. CASE ~\E p \in 1 .. stack[i].cur : s[p] = l
    <3>1. stack'[i] = stack[i] BY <2>2, <2>4
    <3>2. Stepped(s, stack[i].cur, l) = stack[i].cur BY <2>4 DEF Stepped
    <3> QED BY <3>1, <3>2 DEF s
  <2> QED BY <2>3, <2>4
<1>6. ASSUME NEW g \in Doing(stack', op)
      PROVE  \E i \in 1 .. Len(stack) :
               /\ stack[i] \in Doing(stack, op)
               /\ g.op = stack[i].op /\ g.on = stack[i].on /\ g.claim = stack[i].claim
               /\ g.note = stack[i].note /\ g.rest = stack[i].rest
               /\ g.cur = Stepped(Held(stack, list, saved, i), stack[i].cur, l)
  <2>1. PICK i \in 1 .. Len(stack) : g = stack'[i] /\ stack'[i].op = op BY <1>4 DEF Doing
  <2>2. stack[i] \in Doing(stack, op) BY <1>5, <2>1 DEF Doing
  <2> QED BY <1>5, <2>1, <2>2
<1>7. ASSUME NEW i \in 1 .. Len(stack), stack[i].op = op
      PROVE  \E g \in Doing(stack', op) :
                /\ g.op = stack[i].op /\ g.on = stack[i].on /\ g.claim = stack[i].claim
                /\ g.note = stack[i].note /\ g.rest = stack[i].rest
                /\ g.cur = Stepped(Held(stack, list, saved, i), stack[i].cur, l)
  <2>1. stack'[i] \in Doing(stack', op) BY <1>4, <1>5, <1>7 DEF Doing
  <2> QED BY <1>5, <2>1
<1> QED BY <1>6, <1>7

\* The frames that the queue and the snapshots move are not put aside.
LEMMA HeldHere ==
  ASSUME EventsInv, NEW i \in 1 .. Len(stack), stack[i].op # "result"
  PROVE  /\ Held(stack, list, saved, i) = list[stack[i].on]
         /\ stack[i].op = "drain" => stack[i].on = "active"
         /\ stack[i].cur \in Nat /\ stack[i].cur <= Len(list[stack[i].on])
<1>1. Places(stack, fresh) /\ Turn(stack, dispatching) /\ Cursors(stack, list, saved)
      /\ stack \in Seq(Frames) /\ Len(stack) \in Nat
  BY TypedFacts DEF EventsInv
<1>2. stack[i].op \in {"drain", "initial", "result"} /\ stack[i].cur \in Nat BY <1>1, FrameFields
<1>3. ~(stack[i].on = "active" /\ Aside(stack, i))
  <2> SUFFICES ASSUME stack[i].on = "active", Aside(stack, i) PROVE FALSE OBVIOUS
  <2>1. PICK j \in 1 .. Len(stack) : j > i /\ stack[j].op = "initial" /\ stack[j].on = "active"
    BY DEF Aside
  <2>2. CASE stack[i].op = "initial"
    <3>1. j = i BY <1>1, <2>1, <2>2 DEF Places
    <3> QED BY <1>1, <2>1, <3>1
  <2>3. CASE stack[i].op = "drain"
    <3>1. stack[i].claim /\ stack[j].claim BY <1>1, <2>1, <2>3 DEF Places, Turn
    <3>2. j = i BY <1>1, <3>1 DEF Turn
    <3> QED BY <1>1, <2>1, <3>2
  <2> QED BY <1>2, <2>2, <2>3
<1>4. Held(stack, list, saved, i) = list[stack[i].on] BY <1>3 DEF Held
<1>5. stack[i].op = "drain" => stack[i].on = "active" BY <1>1 DEF Places
<1> QED BY <1>1, <1>2, <1>4, <1>5 DEF Cursors

\* The cursor before or behind the only hook of a list stays.
LEMMA SteppedSame ==
  ASSUME NEW s \in Seq(Listeners), Len(s) <= 1, NEW l, NEW m \in Range(s), m # l,
         NEW c \in Nat, c <= Len(s)
  PROVE  Stepped(s, c, l) = c
<1>1. Len(s) \in Nat /\ DOMAIN s = 1 .. Len(s) OBVIOUS
<1>2. PICK k \in 1 .. Len(s) : s[k] = m BY <1>1 DEF Range
<1>3. \A p \in 1 .. c : p = k BY <1>1
<1> QED BY <1>2, <1>3 DEF Stepped

\* A new listener's progress is its frame's.
LEMMA NewcomerSame ==
  ASSUME NEW f, NEW g, NEW x, NEW S, Newcomer(f, x, S),
         g.note = f.note, g.rest = f.rest, g.cur = f.cur
  PROVE  Newcomer(g, x, S)
BY DEF Newcomer

\* A hook is unlinked: nobody else misses anything or is told twice.
LEMMA RemoveDelivers ==
  ASSUME EventsInv, NEW A, NEW W, Delivery(A, W), NEW l, RemoveListener(l)
  PROVE  DeliveryInv'
<1> DEFINE ds == Doing(stack, "drain")
           ns == Doing(stack, "initial")
           d2 == Doing(stack', "drain")
           n2 == Doing(stack', "initial")
<1>1. /\ A \in Versions /\ Told(W, queue, ver) /\ Draining(ds, A, W[1])
      /\ Standing(ds, Hub(ns, list, saved), heard, A, W[1])
      /\ Guests(ns, list, heard, W[1]) /\ Cohorts(ns, list, heard, queue, W)
      /\ Barriers(queue, list, saved, fresh) /\ Members(list, saved, live, fresh, heard)
      /\ Settled(ns, saved, queue, dispatching)
  BY DEF Delivery
<1>2. /\ stack \in Seq(Frames) /\ saved \in Seq(Listeners) /\ "active" \notin Listeners
      /\ list \in [{"active"} \cup Listeners -> Seq(Listeners)]
      /\ \A x \in {"active"} \cup Listeners : list[x] \in Seq(Listeners) /\ Len(list[x]) \in Nat
  BY TypedFacts DEF EventsInv, Typed
<1>3. /\ list' = [x \in DOMAIN list |-> Without(list[x], l)] /\ saved' = Without(saved, l)
      /\ live' = live \ {l} /\ UNCHANGED <<ver, queue, dispatching, heard, fresh>>
  BY DEF RemoveListener
<1>4. \A x \in {"active"} \cup Listeners : list'[x] = Without(list[x], l) BY <1>2, <1>3
<1>5. \A x \in {"active"} \cup Listeners : Once(list[x])
  <2>1. Once(list["active"]) BY <1>1 DEF Members
  <2>2. ASSUME NEW x \in Listeners PROVE Once(list[x])
    <3>1. list[x] \in Seq(Listeners) /\ Len(list[x]) <= 1 BY <1>1, <1>2 DEF Members
    <3> QED BY <3>1, OnceShort
  <2> QED BY <2>1, <2>2
<1>6. ASSUME NEW x \in {"active"} \cup Listeners
      PROVE  /\ Range(list'[x]) = Range(list[x]) \ {l} /\ Once(list'[x])
             /\ Len(list'[x]) <= Len(list[x]) /\ Len(list'[x]) \in Nat
  <2>1. list[x] \in Seq(Listeners) /\ Once(list[x]) /\ list'[x] = Without(list[x], l)
    BY <1>2, <1>4, <1>5
  <2>2. Once(list'[x]) /\ Range(list'[x]) = Range(list[x]) \ {l} BY <2>1, WithoutOnce
  <2>3. list'[x] \in Seq(Listeners) /\ Len(list'[x]) <= Len(list[x]) BY <2>1, WithoutFact
  <2> QED BY <2>2, <2>3
<1>7. Once(saved) /\ Once(saved') /\ Range(saved') = Range(saved) \ {l}
  <2>1. Once(saved) BY <1>1 DEF Members
  <2> QED BY <1>2, <1>3, <2>1, WithoutOnce
<1>8. ASSUME NEW g \in d2
      PROVE  \E f \in ds : /\ g.note = f.note /\ f.cur \in Nat /\ f.cur <= Len(list["active"])
                           /\ g.cur = Stepped(list["active"], f.cur, l)
  <2>1. PICK i \in 1 .. Len(stack) :
              /\ stack[i] \in ds /\ g.note = stack[i].note
              /\ g.cur = Stepped(Held(stack, list, saved, i), stack[i].cur, l)
    BY <1>8, Unlinked
  <2>2. stack[i].op = "drain" BY <2>1, DoingFacts
  <2>3. Held(stack, list, saved, i) = list["active"] /\ stack[i].cur \in Nat
        /\ stack[i].cur <= Len(list["active"])
    BY <2>2, HeldHere
  <2> QED BY <2>1, <2>3
<1>9. ASSUME NEW f \in ds
      PROVE  \E g \in d2 : /\ f.cur \in Nat /\ f.cur <= Len(list["active"])
                           /\ g.cur = Stepped(list["active"], f.cur, l)
  <2>1. PICK i \in 1 .. Len(stack) : f = stack[i] /\ stack[i].op = "drain" BY <1>9 DEF Doing
  <2>2. PICK g \in d2 : g.cur = Stepped(Held(stack, list, saved, i), stack[i].cur, l)
    BY <2>1, Unlinked
  <2>3. Held(stack, list, saved, i) = list["active"] /\ stack[i].cur \in Nat
        /\ stack[i].cur <= Len(list["active"])
    BY <2>1, HeldHere
  <2> QED BY <2>1, <2>2, <2>3
<1>10. ASSUME NEW g \in n2
       PROVE  \E f \in ns : /\ g.on = f.on /\ g.claim = f.claim /\ g.note = f.note /\ g.rest = f.rest
                            /\ f.on \in {"active"} \cup Listeners
                            /\ f.cur \in Nat /\ f.cur <= Len(list[f.on])
                            /\ g.cur = Stepped(list[f.on], f.cur, l)
  <2>1. PICK i \in 1 .. Len(stack) :
              /\ stack[i] \in ns
              /\ g.on = stack[i].on /\ g.claim = stack[i].claim
              /\ g.note = stack[i].note /\ g.rest = stack[i].rest
              /\ g.cur = Stepped(Held(stack, list, saved, i), stack[i].cur, l)
    BY <1>10, Unlinked
  <2>2. stack[i].op = "initial" /\ stack[i].on \in {"active"} \cup Listeners
    BY <2>1, DoingFacts
  <2>3. Held(stack, list, saved, i) = list[stack[i].on] /\ stack[i].cur \in Nat
        /\ stack[i].cur <= Len(list[stack[i].on])
    BY <2>2, HeldHere
  <2> QED BY <2>1, <2>2, <2>3
<1>11. ASSUME NEW f \in ns PROVE \E g \in n2 : g.on = f.on
  <2>1. PICK i \in 1 .. Len(stack) : f = stack[i] /\ stack[i].op = "initial" BY <1>11 DEF Doing
  <2> QED BY <2>1, Unlinked
<1>12. ds # {} => ~Isolated(ns) BY DoingFacts
<1>13. \A f \in ns : f.on = "active" => Len(list["active"]) <= 1 BY DoingFacts
<1> HIDE DEF ds, ns, d2, n2
<1>14. Draining(d2, A, W[1])
  <2> SUFFICES ASSUME NEW g \in d2 PROVE Moves(A, g.note, W[1]) BY DEF Draining
  <2>1. PICK f \in ds : g.note = f.note BY <1>8
  <2> QED BY <1>1, <2>1 DEF Draining
<1>15. Isolated(n2) <=> Isolated(ns)
  <2>1. ASSUME NEW g \in n2, g.on = "active" PROVE Isolated(ns)
    <3>1. PICK f \in ns : g.on = f.on BY <1>10
    <3> QED BY <2>1, <3>1 DEF Isolated
  <2>2. ASSUME NEW f \in ns, f.on = "active" PROVE Isolated(n2)
    <3>1. PICK g \in n2 : g.on = f.on BY <1>11
    <3> QED BY <2>2, <3>1 DEF Isolated
  <2> QED BY <2>1, <2>2 DEF Isolated
<1>16. Standing(d2, Hub(n2, list', saved'), heard, A, W[1])
  <2>1. PICK hub : hub = Hub(ns, list, saved) OBVIOUS
  <2>2. hub \in Seq(Listeners) /\ Once(hub) BY <1>2, <1>5, <1>7, <2>1 DEF Hub
  <2>3. Hub(n2, list', saved') = Without(hub, l) BY <1>3, <1>4, <1>15, <2>1 DEF Hub
  <2>4. ds # {} => hub = list["active"] BY <1>12, <2>1 DEF Hub
  <2> SUFFICES ASSUME NEW p \in 1 .. Len(Without(hub, l))
               PROVE  heard[Without(hub, l)[p]] = IF Behind(d2, p) THEN A ELSE W[1]
    BY <2>3 DEF Standing
  <2>5. PICK r \in 1 .. Len(hub) :
          /\ Without(hub, l)[p] = hub[r]
          /\ \A c \in Nat : c <= Len(hub) => (Stepped(hub, c, l) < p <=> c < r)
    BY <2>2, WithoutOnce
  <2>6. ASSUME NEW g \in d2, g.cur < p PROVE Behind(ds, r)
    <3>1. PICK f \in ds : /\ f.cur \in Nat /\ f.cur <= Len(list["active"])
                          /\ g.cur = Stepped(list["active"], f.cur, l)
      BY <1>8
    <3>2. f.cur < r BY <2>4, <2>5, <2>6, <3>1
    <3> QED BY <3>2 DEF Behind
  <2>7. ASSUME NEW f \in ds, f.cur < r PROVE Behind(d2, p)
    <3>1. PICK g \in d2 : /\ f.cur \in Nat /\ f.cur <= Len(list["active"])
                          /\ g.cur = Stepped(list["active"], f.cur, l)
      BY <1>9
    <3>2. g.cur < p BY <2>4, <2>5, <2>7, <3>1
    <3> QED BY <3>2 DEF Behind
  <2>8. Behind(d2, p) <=> Behind(ds, r) BY <2>6, <2>7 DEF Behind
  <2>9. heard[hub[r]] = IF Behind(ds, r) THEN A ELSE W[1] BY <1>1, <2>1 DEF Standing
  <2> QED BY <2>5, <2>8, <2>9
<1>17. Guests(n2, list', heard, W[1])
  <2> SUFFICES ASSUME NEW g \in n2, g.on = "active", NEW m \in Range(list'["active"])
               PROVE  Newcomer(g, heard[m], W[1])
    BY DEF Guests
  <2>1. PICK f \in ns : /\ g.on = f.on /\ g.note = f.note /\ g.rest = f.rest
                        /\ f.cur \in Nat /\ f.cur <= Len(list[f.on])
                        /\ g.cur = Stepped(list[f.on], f.cur, l)
    BY <1>10
  <2>2. f.on = "active" BY <2>1
  <2>3. m \in Range(list["active"]) /\ m # l BY <1>6
  <2>4. list["active"] \in Seq(Listeners) /\ Len(list["active"]) <= 1 BY <1>2, <1>13, <2>2
  <2>5. g.cur = f.cur BY <2>1, <2>2, <2>3, <2>4, SteppedSame
  <2>6. Newcomer(f, heard[m], W[1]) BY <1>1, <2>2, <2>3 DEF Guests
  <2> QED BY <2>1, <2>5, <2>6, NewcomerSame
<1>18. Cohorts(n2, list', heard, queue, W)
  <2> SUFFICES ASSUME NEW p \in 1 .. Len(queue), NEW m \in Listeners,
                      queue[p] = Note("activate", m), m \in Range(list'[m])
               PROVE  Cohort(n2, m, heard[m], W[p + 1])
    BY DEF Cohorts
  <2>1. m \in Range(list[m]) /\ m # l BY <1>6
  <2>2. Cohort(ns, m, heard[m], W[p + 1]) BY <1>1, <2>1 DEF Cohorts
  <2>3. list[m] \in Seq(Listeners) /\ Len(list[m]) <= 1 BY <1>1, <1>2 DEF Members
  <2>4. ASSUME NEW g \in n2, g.on = m PROVE Newcomer(g, heard[m], W[p + 1])
    <3>1. PICK f \in ns : /\ g.on = f.on /\ g.note = f.note /\ g.rest = f.rest
                          /\ f.cur \in Nat /\ f.cur <= Len(list[f.on])
                          /\ g.cur = Stepped(list[f.on], f.cur, l)
      BY <1>10
    <3>2. f.on = m BY <2>4, <3>1
    <3>3. g.cur = f.cur BY <2>1, <2>3, <3>1, <3>2, SteppedSame
    <3>4. Newcomer(f, heard[m], W[p + 1]) BY <2>2, <3>2 DEF Cohort
    <3> QED BY <3>1, <3>3, <3>4, NewcomerSame
  <2>5. ASSUME \A g \in n2 : g.on # m PROVE heard[m] = W[p + 1]
    <3>1. \A f \in ns : f.on # m BY <1>11, <2>5
    <3> QED BY <2>2, <3>1 DEF Cohort
  <2> QED BY <2>4, <2>5 DEF Cohort
<1>19. Barriers(queue, list', saved', fresh)
  <2>1. /\ Range(list'["active"]) \subseteq Range(list["active"])
        /\ Range(saved') \subseteq Range(saved)
        /\ \A m \in Listeners : Range(list'[m]) \subseteq Range(list[m])
    BY <1>6, <1>7
  <2> QED BY <1>1, <2>1 DEF Barriers
<1>20. Members(list', saved', live', fresh, heard)
  <2>1. /\ Once(list'["active"]) /\ Once(saved') BY <1>6, <1>7
  <2>2. /\ Range(list'["active"]) \cap Range(saved') = {}
        /\ live' \subseteq Listeners \ fresh
        /\ \A m \in fresh : heard[m]["node"] = 0
    BY <1>1, <1>3, <1>6, <1>7 DEF Members
  <2>3. ASSUME NEW m \in Listeners
        PROVE  /\ Len(list'[m]) <= 1
               /\ m \in live' <=> m \in Range(list'[m]) \cup Range(list'["active"]) \cup Range(saved')
    <3>1. /\ Len(list[m]) <= 1
          /\ m \in live <=> m \in Range(list[m]) \cup Range(list["active"]) \cup Range(saved)
      BY <1>1 DEF Members
    <3>2. Len(list'[m]) <= 1
      <4>1. Len(list'[m]) <= Len(list[m]) /\ Len(list'[m]) \in Nat /\ Len(list[m]) \in Nat
        BY <1>2, <1>6
      <4> QED BY <3>1, <4>1
    <3>3. Range(list'[m]) = Range(list[m]) \ {l}
          /\ Range(list'["active"]) = Range(list["active"]) \ {l}
      BY <1>6
    <3> QED BY <1>3, <1>7, <3>1, <3>2, <3>3
  <2> QED BY <2>1, <2>2, <2>3 DEF Members
<1>21. Settled(n2, saved', queue, dispatching)
  <2>1. ASSUME ~Isolated(n2) PROVE saved' = <<>>
    <3>1. saved = <<>> BY <1>1, <1>15, <2>1 DEF Settled
    <3>2. l \notin Range(saved) BY <3>1, RangeFact
    <3>3. Without(saved, l) = saved BY <1>2, <3>2, WithoutFact
    <3> QED BY <1>3, <3>1, <3>3
  <2>2. ASSUME NEW g \in n2
        PROVE  /\ g.on # "active" => g.claim = FALSE
               /\ g.note.type \in Kinds
               /\ g.rest # <<>> => Head(g.rest).type \in Kinds
    <3>1. PICK f \in ns : g.on = f.on /\ g.claim = f.claim /\ g.note = f.note /\ g.rest = f.rest
      BY <1>10
    <3> QED BY <1>1, <3>1 DEF Settled
  <2>3. dispatching = FALSE => queue = <<>> BY <1>1 DEF Settled
  <2> QED BY <2>1, <2>2, <2>3 DEF Settled
<1>22. Delivery(A, W)'
  BY <1>1, <1>3, <1>14, <1>16, <1>17, <1>18, <1>19, <1>20, <1>21 DEF Delivery, d2, n2
<1> QED BY <1>22 DEF DeliveryInv

-----------------------------------------------------------------------------
(* One callback.                                                           *)

\* A listener that knows one version is told of the next.
LEMMA ToldOne ==
  ASSUME NEW a \in Versions, NEW b \in Versions, NEW n \in Notes, Moves(a, n, b)
  PROVE  (IF n.type \in Kinds THEN [a EXCEPT ![n.type] = n.what] ELSE a) = b
<1>1. CASE n.type \in Kinds
  <2>1. b = [a EXCEPT ![n.type] = a[n.type] + 1] /\ n.what = b[n.type] BY <1>1 DEF Moves
  <2>2. a \in [Kinds -> Nat \ {0}] BY DEF Versions
  <2>3. b[n.type] = a[n.type] + 1 BY <1>1, <2>1, <2>2
  <2> QED BY <1>1, <2>1, <2>3
<1>2. CASE n.type \notin Kinds BY <1>2 DEF Moves
<1> QED BY <1>1, <1>2

\* A new listener is given a snapshot.
LEMMA ToldSnapshot ==
  ASSUME NEW f, NEW g, NEW x \in [Kinds -> Nat], NEW S, Newcomer(f, x, S), f.cur = 0, g.cur = 1,
         g.note = f.note, g.rest = f.rest
  PROVE  Newcomer(g, IF f.note.type \in Kinds THEN [x EXCEPT ![f.note.type] = f.note.what] ELSE x, S)
<1>1. "node" \in Kinds /\ "port" \in Kinds BY DEF Kinds
<1>2. CASE f.rest # <<>>
  <2>1. f.note = Note("node", S["node"]) /\ f.rest = <<Note("port", S["port"])>> /\ x["port"] = 0
    BY <1>2 DEF Newcomer
  <2>2. f.note.type = "node" /\ f.note.what = S["node"] BY <2>1 DEF Note
  <2> DEFINE y == [x EXCEPT !["node"] = S["node"]]
  <2>3. y["node"] = S["node"] /\ y["port"] = 0 BY <1>1, <2>1
  <2> HIDE DEF y
  <2>4. Newcomer(g, y, S) BY <1>2, <2>1, <2>3 DEF Newcomer
  <2> QED BY <1>1, <2>2, <2>4 DEF y
<1>3. CASE f.rest = <<>>
  <2>1. f.note = Note("port", S["port"]) /\ x["node"] = S["node"] BY <1>3 DEF Newcomer
  <2>2. f.note.type = "port" /\ f.note.what = S["port"] BY <2>1 DEF Note
  <2> DEFINE y == [x EXCEPT !["port"] = S["port"]]
  <2>3. y["port"] = S["port"] /\ y["node"] = S["node"] BY <1>1, <2>1
  <2> HIDE DEF y
  <2>4. Newcomer(g, y, S) BY <1>3, <2>1, <2>3 DEF Newcomer
  <2> QED BY <1>1, <2>2, <2>4 DEF y
<1> QED BY <1>2, <1>3

\* What one callback changes.
LEMMA CallFact ==
  ASSUME EventsInv, Call
  PROVE  LET l == list[Top.on][Top.cur + 1]
             f == Hop(Top)
         IN  /\ stack # <<>> /\ Top \in Frames /\ Top.note \in Notes
             /\ Top.on \in {"active"} \cup Listeners /\ Top.cur \in Nat
             /\ Top.cur + 1 \in 1 .. Len(list[Top.on]) /\ Len(list[Top.on]) \in Nat
             /\ l \in Range(list[Top.on]) /\ l \in Listeners /\ l \notin fresh
             /\ f.op = Top.op /\ f.on = Top.on /\ f.note = Top.note /\ f.rest = Top.rest
             /\ f.claim = Top.claim /\ f.cur = Top.cur + 1
             /\ IsPut(stack, stack', f) /\ stack[Len(stack)] = Top
             /\ \A m \in Listeners : m # l => heard'[m] = heard[m]
             /\ heard'[l] = IF Top.note.type \in Kinds
                            THEN [heard[l] EXCEPT ![Top.note.type] = Top.note.what] ELSE heard[l]
             /\ Top.note.type \notin Kinds => heard' = heard
             /\ UNCHANGED <<ver, queue, dispatching, list, saved, fresh, live>>
<1>1. Typed /\ Lists(list, saved, heard, fresh) BY DEF EventsInv
<1>2. stack # <<>> /\ stack \in Seq(Frames) BY <1>1, TypedFacts DEF Call
<1>3. /\ Top = stack[Len(stack)] /\ Top \in Frames
      /\ Top.on \in {"active"} \cup Listeners /\ Top.cur \in Nat /\ Top.note \in Notes
      /\ list[Top.on] \in Seq(Listeners) /\ Len(list[Top.on]) \in Nat
      /\ Top.cur <= Len(list[Top.on])
  BY <1>2, TopFact
<1>4. Top.cur # Len(list[Top.on]) BY DEF Call, AtEnd
<1>5. Top.cur + 1 \in 1 .. Len(list[Top.on]) /\ Top.cur + 1 \in Nat BY <1>3, <1>4
<1> DEFINE l == list[Top.on][Top.cur + 1]
           f == Hop(Top)
<1>6. l \in Range(list[Top.on]) BY <1>3, <1>5 DEF Range
<1>7. l \in Listeners /\ l \notin fresh BY <1>1, <1>3, <1>6, NotFresh
<1>8. /\ f \in Frames /\ f.op = Top.op /\ f.on = Top.on /\ f.note = Top.note
      /\ f.rest = Top.rest /\ f.claim = Top.claim /\ f.cur = Top.cur + 1
  BY <1>3, <1>5 DEF Hop, Frames
<1>9. stack' = [stack EXCEPT ![Len(stack)] = f] BY DEF Call, SetTop
<1>10. heard' = IF Top.note.type \in Kinds
                THEN [heard EXCEPT ![l][Top.note.type] = Top.note.what] ELSE heard
  BY DEF Call
<1>11. UNCHANGED <<ver, queue, dispatching, list, saved, fresh, live>> BY DEF Call
<1> HIDE DEF l, f
<1>12. IsPut(stack, stack', f) BY <1>2, <1>8, <1>9, PutFact
<1>13. heard \in [Listeners -> [Kinds -> Nat]] BY <1>1 DEF Typed
<1>14. \A m \in Listeners : m # l => heard'[m] = heard[m] BY <1>7, <1>10, <1>13
<1>15. heard'[l] = IF Top.note.type \in Kinds
                   THEN [heard[l] EXCEPT ![Top.note.type] = Top.note.what] ELSE heard[l]
  BY <1>7, <1>10, <1>13
<1>16. Top.note.type \notin Kinds => heard' = heard BY <1>10
<1> QED BY <1>2, <1>3, <1>5, <1>6, <1>7, <1>8, <1>11, <1>12, <1>14, <1>15, <1>16 DEF l, f

\* The drain calls an active hook with its notification.
LEMMA DrainCalls ==
  ASSUME EventsInv, NEW A, NEW W, Delivery(A, W), Call, Top.op = "drain"
  PROVE  DeliveryInv'
<1> DEFINE l == list[Top.on][Top.cur + 1]
           f == Hop(Top)
<1>1. /\ stack # <<>> /\ Top \in Frames /\ Top.note \in Notes /\ Top.cur \in Nat
      /\ Top.cur + 1 \in 1 .. Len(list[Top.on]) /\ Len(list[Top.on]) \in Nat
      /\ l \in Range(list[Top.on]) /\ l \in Listeners /\ l \notin fresh
      /\ f.op = Top.op /\ f.note = Top.note /\ f.cur = Top.cur + 1
      /\ IsPut(stack, stack', f)
      /\ \A m \in Listeners : m # l => heard'[m] = heard[m]
      /\ heard'[l] = IF Top.note.type \in Kinds
                     THEN [heard[l] EXCEPT ![Top.note.type] = Top.note.what] ELSE heard[l]
      /\ UNCHANGED <<ver, queue, dispatching, list, saved, fresh, live>>
  BY CallFact
<1>2. Doing(stack, "drain") = {Top} /\ Doing(stack, "initial") = {} /\ Top.claim = TRUE
  BY <1>1, DrainOnTop, TopFact
<1>3. Top.on = "active"
  <2>1. Len(stack) \in 1 .. Len(stack) /\ Top = stack[Len(stack)] BY <1>1, TopFact
  <2> QED BY <2>1 DEF EventsInv, Places
<1>4. /\ A \in Versions /\ Told(W, queue, ver) /\ Draining({Top}, A, W[1])
      /\ Standing({Top}, list["active"], heard, A, W[1])
      /\ Cohorts({}, list, heard, queue, W)
      /\ Barriers(queue, list, saved, fresh) /\ Members(list, saved, live, fresh, heard)
      /\ Settled({}, saved, queue, dispatching)
  BY <1>2 DEF Delivery, Hub, Isolated
<1>5. /\ queue \in Seq(Notes) /\ list["active"] \in Seq(Listeners) /\ fresh \subseteq Listeners
      /\ Lists(list, saved, heard, fresh)
  BY TypedFacts DEF EventsInv, Typed
<1>6. W[1] \in Versions
  <2>1. 1 \in 1 .. Len(queue) + 1 BY <1>5
  <2> QED BY <1>4, <1>5, <2>1, ToldFact
<1>7. f.op = "drain" /\ l = list["active"][Top.cur + 1] BY <1>1, <1>3
<1> HIDE DEF l, f
<1>8. Doing(stack', "drain") = {f} /\ Doing(stack', "initial") = {}
  BY <1>1, <1>2, <1>7, DrainStays
<1>9. Moves(A, Top.note, W[1]) BY <1>4 DEF Draining
<1>10. Draining({f}, A, W[1]) BY <1>1, <1>9 DEF Draining
<1>11. heard'[l] = W[1]
  <2>1. Top.cur + 1 \in 1 .. Len(list["active"]) BY <1>1, <1>3
  <2>2. Behind({Top}, Top.cur + 1) BY <1>1 DEF Behind
  <2>3. heard[l] = A BY <1>4, <1>7, <2>1, <2>2 DEF Standing
  <2> QED BY <1>1, <1>4, <1>6, <1>9, <2>3, ToldOne
<1>12. Standing({f}, Hub({}, list, saved), heard', A, W[1])
  <2>1. Hub({}, list, saved) = list["active"] BY DEF Hub, Isolated
  <2> SUFFICES ASSUME NEW p \in 1 .. Len(list["active"])
               PROVE  heard'[list["active"][p]] = IF Behind({f}, p) THEN A ELSE W[1]
    BY <2>1 DEF Standing
  <2>2. CASE p = Top.cur + 1
    <3>1. ~Behind({f}, p) BY <1>1, <2>2 DEF Behind
    <3> QED BY <1>7, <1>11, <2>2, <3>1
  <2>3. CASE p # Top.cur + 1
    <3>1. Top.cur + 1 < p <=> Top.cur < p BY <1>1, <2>3
    <3>2. Behind({f}, p) <=> Behind({Top}, p) BY <1>1, <3>1 DEF Behind
    <3>3. Top.cur + 1 \in 1 .. Len(list["active"]) BY <1>1, <1>3
    <3>4. list["active"][p] # l BY <1>4, <1>7, <2>3, <3>3 DEF Members, Once
    <3>5. list["active"][p] \in Listeners BY <1>5
    <3>6. heard[list["active"][p]] = IF Behind({Top}, p) THEN A ELSE W[1] BY <1>4 DEF Standing
    <3> QED BY <1>1, <3>2, <3>4, <3>5, <3>6
  <2> QED BY <2>2, <2>3
<1>13. \A m \in Listeners : m \in Range(list[m]) => heard'[m] = heard[m]
  BY <1>1, <1>3, <1>5 DEF Lists
<1>14. Cohorts({}, list, heard', queue, W) BY <1>4, <1>13 DEF Cohorts
<1>15. Members(list, saved, live, fresh, heard')
  <2>1. \A m \in fresh : heard'[m] = heard[m] BY <1>1, <1>5
  <2> QED BY <1>4, <2>1 DEF Members
<1>16. Guests({}, list, heard', W[1]) BY DEF Guests
<1>17. Delivery(A, W)'
  BY <1>1, <1>4, <1>8, <1>10, <1>12, <1>14, <1>15, <1>16 DEF Delivery
<1> QED BY <1>17 DEF DeliveryInv

\* A new listener is called with a snapshot.
LEMMA InitialCalls ==
  ASSUME EventsInv, NEW A, NEW W, Delivery(A, W), Call, Top.op = "initial"
  PROVE  DeliveryInv'
<1> DEFINE l == list[Top.on][Top.cur + 1]
           f == Hop(Top)
<1>1. /\ stack # <<>> /\ Top \in Frames /\ Top.note \in Notes /\ Top.cur \in Nat
      /\ Top.on \in {"active"} \cup Listeners
      /\ Top.cur + 1 \in 1 .. Len(list[Top.on]) /\ Len(list[Top.on]) \in Nat
      /\ l \in Range(list[Top.on]) /\ l \in Listeners /\ l \notin fresh
      /\ f.op = Top.op /\ f.on = Top.on /\ f.note = Top.note /\ f.rest = Top.rest
      /\ f.claim = Top.claim /\ f.cur = Top.cur + 1
      /\ IsPut(stack, stack', f) /\ stack[Len(stack)] = Top
      /\ \A m \in Listeners : m # l => heard'[m] = heard[m]
      /\ heard'[l] = IF Top.note.type \in Kinds
                     THEN [heard[l] EXCEPT ![Top.note.type] = Top.note.what] ELSE heard[l]
      /\ UNCHANGED <<ver, queue, dispatching, list, saved, fresh, live>>
  BY CallFact
<1> DEFINE ds == Doing(stack, "drain")
           ns == Doing(stack, "initial")
           n2 == (ns \ {Top}) \cup {f}
<1>2. Top \in ns /\ \A g \in ns : g # Top => g.on # Top.on BY <1>1, InitialOnTop
<1>3. stack \in Seq(Frames) /\ Typed /\ Lists(list, saved, heard, fresh)
      /\ "active" \notin Listeners /\ fresh \subseteq Listeners
      /\ saved \in Seq(Listeners) /\ list["active"] \in Seq(Listeners)
  BY TypedFacts DEF EventsInv, Typed
<1>4. /\ A \in Versions /\ Told(W, queue, ver) /\ Draining(ds, A, W[1])
      /\ Standing(ds, Hub(ns, list, saved), heard, A, W[1])
      /\ Guests(ns, list, heard, W[1]) /\ Cohorts(ns, list, heard, queue, W)
      /\ Barriers(queue, list, saved, fresh) /\ Members(list, saved, live, fresh, heard)
      /\ Settled(ns, saved, queue, dispatching)
  BY DEF Delivery
<1> HIDE DEF l, f
<1>5. Doing(stack', "drain") = ds
  <2>1. stack[Len(stack)].op # "drain" /\ f.op # "drain" BY <1>1
  <2> QED BY <1>1, <1>3, <2>1, DoingPut
<1>6. Doing(stack', "initial") = n2
  <2>1. f.op = "initial" /\ stack # <<>> BY <1>1
  <2>2. \A i \in 1 .. Len(stack) : i # Len(stack) /\ stack[i].op = "initial" =>
          stack[i] # stack[Len(stack)]
    BY <2>1, InitialOnTop
  <2>3. Doing(stack', "initial") = (Doing(stack, "initial") \ {stack[Len(stack)]}) \cup {f}
    BY <1>1, <1>3, <2>1, <2>2, DoingPut
  <2> QED BY <1>1, <2>3
<1>7. Top.cur = 0 /\ f.cur = 1
  <2>1. Len(list[Top.on]) <= 1
    <3>1. CASE Top.on = "active" BY <1>2, <3>1, DoingFacts
    <3>2. CASE Top.on \in Listeners BY <1>4, <3>2 DEF Members
    <3> QED BY <1>1, <3>1, <3>2
  <2> QED BY <1>1, <2>1
<1> HIDE DEF ds, ns
<1>8. Isolated(n2) <=> Isolated(ns)
  <2>1. ASSUME NEW g \in n2, g.on = "active" PROVE Isolated(ns)
    <3>1. CASE g = f BY <1>1, <1>2, <2>1, <3>1 DEF Isolated
    <3>2. CASE g # f BY <2>1, <3>2 DEF Isolated
    <3> QED BY <3>1, <3>2
  <2>2. ASSUME NEW g \in ns, g.on = "active" PROVE Isolated(n2)
    <3>1. CASE g = Top BY <1>1, <2>2, <3>1 DEF Isolated
    <3>2. CASE g # Top BY <2>2, <3>2 DEF Isolated
    <3> QED BY <3>1, <3>2
  <2> QED BY <2>1, <2>2 DEF Isolated
<1>9. heard[l] \in [Kinds -> Nat] BY <1>1, <1>3, TypedFacts
<1>10. ASSUME NEW S, Newcomer(Top, heard[l], S) PROVE Newcomer(f, heard'[l], S)
  <2>1. f.note = Top.note /\ f.rest = Top.rest BY <1>1
  <2>2. Newcomer(f, IF Top.note.type \in Kinds
                    THEN [heard[l] EXCEPT ![Top.note.type] = Top.note.what] ELSE heard[l], S)
    BY <1>7, <1>9, <1>10, <2>1, ToldSnapshot, Zenon
  <2> QED BY <1>1, <2>2, Zenon
<1>11. \A x \in {"active"} \cup Listeners : x # Top.on => l \notin Range(list[x])
  BY <1>1, <1>3, Apart
<1>12. \A x \in {"active"} \cup Listeners : \A m \in Range(list[x]) : m \in Listeners
  BY <1>3, TypedFacts, RangeFact
<1>13. Standing(ds, Hub(n2, list, saved), heard', A, W[1])
  <2>1. Hub(n2, list, saved) = Hub(ns, list, saved) BY <1>8 DEF Hub
  <2>2. PICK hub : hub = Hub(ns, list, saved) OBVIOUS
  <2>3. hub \in Seq(Listeners) /\ l \notin Range(hub)
    <3>1. CASE Isolated(ns)
      <4>1. hub = saved BY <2>2, <3>1 DEF Hub
      <4>2. l \notin Range(saved)
        <5>1. CASE Top.on = "active" BY <1>1, <1>4, <5>1 DEF Members
        <5>2. CASE Top.on # "active"
          <6>1. l = Top.on BY <1>1, <1>3, <5>2 DEF Lists
          <6> QED BY <1>1, <1>3, <6>1 DEF Lists
        <5> QED BY <5>1, <5>2
      <4> QED BY <1>3, <4>1, <4>2
    <3>2. CASE ~Isolated(ns)
      <4>1. hub = list["active"] BY <2>2, <3>2 DEF Hub
      <4>2. Top.on # "active" BY <1>2, <3>2 DEF Isolated
      <4> QED BY <1>3, <1>11, <4>1, <4>2
    <3> QED BY <3>1, <3>2
  <2>4. \A p \in 1 .. Len(hub) : hub[p] \in Range(hub) /\ hub[p] \in Listeners BY <2>3 DEF Range
  <2>5. \A p \in 1 .. Len(hub) : heard'[hub[p]] = heard[hub[p]] BY <1>1, <2>3, <2>4
  <2>6. Standing(ds, hub, heard', A, W[1]) BY <1>4, <2>2, <2>5 DEF Standing
  <2> QED BY <2>1, <2>2, <2>6
<1>14. Guests(n2, list, heard', W[1])
  <2> SUFFICES ASSUME NEW g \in n2, g.on = "active", NEW m \in Range(list["active"])
               PROVE  Newcomer(g, heard'[m], W[1])
    BY DEF Guests
  <2>1. CASE Top.on = "active"
    <3>1. g = f BY <1>2, <2>1
    <3>2. m = l
      <4>1. Len(list["active"]) <= 1 /\ l \in Range(list["active"])
        BY <1>1, <1>2, <2>1, DoingFacts DEF ns
      <4>2. PICK i \in 1 .. Len(list["active"]) : m = list["active"][i] BY <1>3 DEF Range
      <4>3. PICK j \in 1 .. Len(list["active"]) : l = list["active"][j] BY <1>3, <4>1 DEF Range
      <4>4. i = j
        <5>1. Len(list["active"]) \in Nat BY <1>3
        <5> QED BY <4>1, <4>2, <4>3, <5>1
      <4> QED BY <4>2, <4>3, <4>4
    <3>3. Newcomer(Top, heard[l], W[1]) BY <1>2, <1>4, <2>1, <3>2 DEF Guests
    <3> QED BY <1>10, <3>1, <3>2, <3>3
  <2>2. CASE Top.on # "active"
    <3>1. g \in ns BY <1>1, <2>2
    <3>2. m # l /\ m \in Listeners BY <1>11, <1>12, <2>2
    <3>3. heard'[m] = heard[m] BY <1>1, <3>2
    <3> QED BY <1>4, <3>1, <3>3 DEF Guests
  <2> QED BY <2>1, <2>2
<1>15. Cohorts(n2, list, heard', queue, W)
  <2> SUFFICES ASSUME NEW p \in 1 .. Len(queue), NEW m \in Listeners,
                      queue[p] = Note("activate", m), m \in Range(list[m])
               PROVE  Cohort(n2, m, heard'[m], W[p + 1])
    BY DEF Cohorts
  <2>1. Cohort(ns, m, heard[m], W[p + 1]) BY <1>4 DEF Cohorts
  <2>2. CASE Top.on = m
    <3>1. l = m BY <1>1, <1>3, <2>2 DEF Lists
    <3>2. Newcomer(Top, heard[l], W[p + 1]) BY <1>2, <2>1, <2>2, <3>1 DEF Cohort
    <3>3. Newcomer(f, heard'[m], W[p + 1]) BY <1>10, <3>1, <3>2
    <3>4. \A g \in n2 : g.on = m => g = f BY <1>2, <2>2
    <3>5. f \in n2 /\ f.on = m BY <1>1, <2>2
    <3> QED BY <3>3, <3>4, <3>5 DEF Cohort
  <2>3. CASE Top.on # m
    <3>1. m # l BY <1>11, <2>3
    <3>2. heard'[m] = heard[m] BY <1>1, <3>1
    <3>3. \A g \in n2 : g.on = m => g \in ns BY <1>1, <2>3
    <3>4. (\A g \in n2 : g.on # m) => \A g \in ns : g.on # m BY <2>3
    <3> QED BY <2>1, <3>2, <3>3, <3>4 DEF Cohort
  <2> QED BY <2>2, <2>3
<1>16. Members(list, saved, live, fresh, heard')
  <2>1. \A m \in fresh : heard'[m] = heard[m] BY <1>1, <1>3
  <2> QED BY <1>4, <2>1 DEF Members
<1>17. Settled(n2, saved, queue, dispatching)
  <2>1. ASSUME NEW g \in n2
        PROVE  /\ g.on # "active" => g.claim = FALSE
               /\ g.note.type \in Kinds
               /\ g.rest # <<>> => Head(g.rest).type \in Kinds
    <3>1. CASE g = f BY <1>1, <1>2, <1>4, <3>1 DEF Settled
    <3>2. CASE g # f BY <1>4, <3>2 DEF Settled
    <3> QED BY <3>1, <3>2
  <2> QED BY <1>4, <1>8, <2>1 DEF Settled
<1>18. Delivery(A, W)'
  <2> HIDE DEF n2
  <2> QED BY <1>1, <1>4, <1>5, <1>6, <1>13, <1>14, <1>15, <1>16, <1>17 DEF Delivery
<1> QED BY <1>18 DEF DeliveryInv

\* A listener is called.
LEMMA CallDelivers ==
  ASSUME EventsInv, NEW A, NEW W, Delivery(A, W), Call
  PROVE  DeliveryInv'
<1>1. CASE Top.op = "drain" BY <1>1, DrainCalls
<1>2. CASE Top.op = "initial" BY <1>2, InitialCalls
<1>3. CASE Top.op = "result"
  <2> DEFINE f == Hop(Top)
  <2>1. /\ stack # <<>> /\ f.op = Top.op /\ IsPut(stack, stack', f) /\ stack[Len(stack)] = Top
        /\ Top.note.type \notin Kinds => heard' = heard
        /\ UNCHANGED <<ver, queue, dispatching, list, saved, fresh, live>>
    BY CallFact
  <2> HIDE DEF f
  <2>2. stack \in Seq(Frames) /\ Places(stack, fresh) BY TypedFacts DEF EventsInv
  <2>3. Len(stack) \in 1 .. Len(stack) BY <2>1, TopFact
  <2>4. Top.note.type = "result" BY <1>3, <2>1, <2>2, <2>3 DEF Places
  <2>5. heard' = heard BY <2>1, <2>4 DEF Kinds
  <2>6. f.op = "result" /\ stack[Len(stack)].op = "result" BY <1>3, <2>1
  <2>7. Doing(stack', "drain") = Doing(stack, "drain")
        /\ Doing(stack', "initial") = Doing(stack, "initial")
    BY <2>1, <2>2, <2>6, DoingPut
  <2>8. Delivery(A, W)' BY <2>1, <2>5, <2>7 DEF Delivery
  <2> QED BY <2>8 DEF DeliveryInv
<1>4. Top.op \in {"drain", "initial", "result"} BY CallFact, TopFact
<1> QED BY <1>1, <1>2, <1>3, <1>4

-----------------------------------------------------------------------------
(* What every listener knows, as an invariant.                             *)

\* Nobody is registered and nothing is queued.
LEMMA DeliveryInit == Init => DeliveryInv
<1> SUFFICES ASSUME Init PROVE DeliveryInv OBVIOUS
<1>1. /\ ver = [k \in Kinds |-> 1] /\ queue = <<>> /\ dispatching = FALSE
      /\ list = [x \in {"active"} \cup Listeners |-> <<>>] /\ saved = <<>> /\ stack = <<>>
      /\ heard = [l \in Listeners |-> [k \in Kinds |-> 0]] /\ fresh = Listeners /\ live = {}
  BY DEF Init
<1>2. ver \in Versions BY <1>1 DEF Versions
<1> DEFINE W == <<ver>>
<1>3. W \in Seq(Versions) /\ Len(W) = 1 /\ W[1] = ver BY <1>2
<1> HIDE DEF W
<1>4. Len(queue) = 0 /\ Len(stack) = 0 /\ Len(saved) = 0 BY <1>1
<1>5. 1 .. Len(queue) = {} /\ 1 .. Len(stack) = {} BY <1>4
<1>6. Told(W, queue, ver)
  <2>1. Len(queue) + 1 = 1 BY <1>4
  <2> QED BY <1>3, <1>5, <2>1 DEF Told
<1>7. \A op : Doing(stack, op) = {} BY <1>5 DEF Doing
<1>8. list["active"] = <<>> /\ \A l \in Listeners : list[l] = <<>> BY <1>1
<1>9. Range(list["active"]) = {} /\ Range(saved) = {} /\ \A l \in Listeners : Range(list[l]) = {}
  BY <1>1, <1>8, RangeFact
<1>10. Draining({}, ver, W[1]) /\ Guests({}, list, heard, W[1]) BY DEF Draining, Guests
<1>11. Standing({}, Hub({}, list, saved), heard, ver, W[1])
  <2>1. Hub({}, list, saved) = <<>> BY <1>8 DEF Hub, Isolated
  <2>2. 1 .. Len(<<>>) = {} OBVIOUS
  <2> QED BY <2>1, <2>2 DEF Standing
<1>12. Cohorts({}, list, heard, queue, W) BY <1>5 DEF Cohorts
<1>13. Barriers(queue, list, saved, fresh) BY <1>5, <1>9 DEF Barriers
<1>14. Members(list, saved, live, fresh, heard)
  <2>1. Once(<<>>) BY DEF Once
  <2>2. Once(list["active"]) /\ Once(saved) BY <1>1, <1>8, <2>1
  <2>3. \A l \in Listeners : Len(list[l]) <= 1 BY <1>8
  <2>4. \A l \in fresh : heard[l]["node"] = 0 BY <1>1 DEF Kinds
  <2>5. live \subseteq Listeners \ fresh /\ \A l : l \notin live BY <1>1
  <2> QED BY <1>9, <2>2, <2>3, <2>4, <2>5 DEF Members
<1>15. Settled({}, saved, queue, dispatching) BY <1>1 DEF Settled
<1>16. Delivery(ver, W)
  BY <1>2, <1>6, <1>7, <1>10, <1>11, <1>12, <1>13, <1>14, <1>15 DEF Delivery
<1> QED BY <1>16 DEF DeliveryInv

\* Every step, of the host and of the node, keeps the deliveries.
LEMMA DeliveryStep ==
  ASSUME EventsInv, DeliveryInv, [Next]_vars
  PROVE  DeliveryInv'
<1>1. PICK A, W : Delivery(A, W) BY DEF DeliveryInv
<1>2. CASE \E ks \in {{"node"}, {"port"}, Kinds} : Change(ks) BY <1>1, <1>2, ChangeDelivers
<1>3. CASE Sync BY <1>1, <1>3, SyncDelivers
<1>4. CASE EnumParams \/ ResultEnd BY <1>1, <1>4, ResultDelivers
<1>5. ASSUME NEW l \in Listeners, AddListener(l) PROVE DeliveryInv'
  <2>1. l \in fresh BY <1>5 DEF AddListener
  <2>2. CASE Deferred BY <1>1, <1>5, <2>1, <2>2, AddDeferredDelivers
  <2>3. CASE ~Deferred BY <1>1, <1>5, <2>1, <2>3, AddIsolatedDelivers
  <2> QED BY <2>2, <2>3
<1>6. ASSUME NEW l \in Listeners, RemoveListener(l) PROVE DeliveryInv'
  BY <1>1, <1>6, RemoveDelivers
<1>7. CASE Call BY <1>1, <1>7, CallDelivers
<1>8. CASE DrainNext BY <1>1, <1>8, DrainNextDelivers
<1>9. CASE DrainActivate BY <1>1, <1>9, DrainActivateDelivers
<1>10. CASE DrainEnd BY <1>1, <1>10, DrainEndDelivers
<1>11. CASE InitialNext BY <1>1, <1>11, InitialNextDelivers
<1>12. CASE InitialEnd
  <2>1. CASE Top.on = "active" BY <1>1, <1>12, <2>1, IsolatedEnds
  <2>2. CASE Top.on # "active" BY <1>1, <1>12, <2>2, CohortEnds
  <2> QED BY <2>1, <2>2
<1>13. CASE UNCHANGED vars
  <2>1. Delivery(A, W)' BY <1>1, <1>13 DEF vars, Delivery
  <2> QED BY <2>1 DEF DeliveryInv
<1> QED
  BY <1>2, <1>3, <1>4, <1>5, <1>6, <1>7, <1>8, <1>9, <1>10, <1>11, <1>12, <1>13
  DEF Next, HostCall, Step

\* Along every behaviour a chain of versions runs through the queue, and every
\* registered listener stands at a place of it.
THEOREM DeliveryInvariance == Spec => []DeliveryInv
<1>1. Spec => []EventsInv BY EventsInvariance
<1>2. EventsInv /\ DeliveryInv /\ [Next]_vars => DeliveryInv' BY DeliveryStep
<1> QED BY <1>1, <1>2, DeliveryInit, PTL DEF Spec

\* A drain with the answer to a sync: everybody knows what it stands for.
LEMMA AnswersAreExact ==
  ASSUME EventsInv, DeliveryInv
  PROVE  DoneIsExact
<1>1. PICK A, W : Delivery(A, W) BY DEF DeliveryInv
<1>2. /\ stack \in Seq(Frames) /\ Places(stack, fresh) /\ list["active"] \in Seq(Listeners)
  BY TypedFacts DEF EventsInv
<1> SUFFICES ASSUME NEW i \in DOMAIN stack, stack[i].note.type = "done",
                    NEW l \in Range(list["active"])
             PROVE  heard[l] = stack[i].note.what
  BY DEF DoneIsExact
<1>3. i \in 1 .. Len(stack) BY <1>2
<1>4. stack[i].op \in {"drain", "initial", "result"} BY <1>2, <1>3, FrameFields
<1>5. stack[i].op # "result" BY <1>2, <1>3 DEF Places
<1>6. stack[i].op # "initial"
  <2>1. stack[i].op = "initial" => stack[i] \in Doing(stack, "initial") BY <1>3 DEF Doing
  <2>2. stack[i].op = "initial" => stack[i].note.type \in Kinds BY <1>1, <2>1 DEF Delivery, Settled
  <2> QED BY <2>2 DEF Kinds
<1>7. stack[i] \in Doing(stack, "drain") BY <1>3, <1>4, <1>5, <1>6 DEF Doing
<1>8. ~Isolated(Doing(stack, "initial")) BY <1>7, DoingFacts
<1>9. Standing(Doing(stack, "drain"), list["active"], heard, A, W[1])
  BY <1>1, <1>8 DEF Delivery, Hub
<1>10. Moves(A, stack[i].note, W[1]) BY <1>1, <1>7 DEF Delivery, Draining
<1>11. A = W[1] /\ stack[i].note.what = W[1] BY <1>10 DEF Moves, Kinds
<1>12. PICK p \in 1 .. Len(list["active"]) : l = list["active"][p] BY <1>2 DEF Range
<1>13. heard[l] = W[1] BY <1>9, <1>11, <1>12 DEF Standing
<1> QED BY <1>11, <1>13

\* A sync answer reaches a listener with exactly the changes that were made
\* before the sync.
THEOREM SyncAnswersAreExact == Spec => []DoneIsExact
BY EventsInvariance, DeliveryInvariance, AnswersAreExact, PTL

\* A list without repetitions is as long as the set of its hooks.
LEMMA OnceCounts ==
  ASSUME NEW s \in Seq(Listeners), Once(s)
  PROVE  Len(s) = Cardinality(Range(s))
<1>1. Len(s) \in Nat /\ DOMAIN s = 1 .. Len(s) OBVIOUS
<1>2. s \in Bijection(1 .. Len(s), Range(s))
  <2>1. s \in [1 .. Len(s) -> Range(s)] BY <1>1 DEF Range
  <2>2. \A a, b \in 1 .. Len(s) : s[a] = s[b] => a = b BY DEF Once
  <2>3. \A t \in Range(s) : \E a \in 1 .. Len(s) : s[a] = t BY <1>1 DEF Range
  <2> QED BY <2>1, <2>2, <2>3 DEF Bijection, Injection, Surjection, IsInjective
<1>3. ExistsBijection(1 .. Len(s), Range(s)) BY <1>2 DEF ExistsBijection
<1>4. Cardinality(Range(s)) = Len(s) BY <1>1, <1>3, FS_CountingElements
<1> QED BY <1>4

\* Outside every call nothing waits.
LEMMA CallsSettle ==
  ASSUME EventsInv, DeliveryInv
  PROVE  ReturnedIsSettled
<1>1. PICK A, W : Delivery(A, W) BY DEF DeliveryInv
<1>2. /\ stack \in Seq(Frames) /\ Turn(stack, dispatching) /\ dispatching \in BOOLEAN
      /\ list["active"] \in Seq(Listeners) /\ saved \in Seq(Listeners)
  BY TypedFacts DEF EventsInv, Typed
<1> SUFFICES ASSUME stack = <<>>
             PROVE  /\ queue = <<>> /\ ~dispatching /\ saved = <<>>
                    /\ Range(list["active"]) = live /\ Len(list["active"]) = Cardinality(live)
                    /\ \A l \in live : heard[l] = ver
  BY DEF ReturnedIsSettled
<1>3. Len(stack) = 0 OBVIOUS
<1>4. 1 .. Len(stack) = {} BY <1>3
<1>5. dispatching = FALSE BY <1>2, <1>4 DEF Turn
<1>6. Doing(stack, "drain") = {} /\ Doing(stack, "initial") = {} BY <1>4 DEF Doing
<1>7. /\ Told(W, queue, ver) /\ Standing({}, list["active"], heard, A, W[1])
      /\ Barriers(queue, list, saved, fresh) /\ Members(list, saved, live, fresh, heard)
      /\ Settled({}, saved, queue, FALSE)
  BY <1>1, <1>5, <1>6 DEF Delivery, Hub, Isolated
<1>8. queue = <<>> /\ saved = <<>> /\ Range(saved) = {} BY <1>7, RangeFact DEF Settled, Isolated
<1>9. Len(queue) = 0 /\ 1 .. Len(queue) = {} BY <1>8
<1>10. W[1] = ver
  <2>1. W[0 + 1] = ver /\ 0 + 1 = 1 BY <1>7, <1>9 DEF Told
  <2> QED BY <2>1
<1>11. \A l \in Listeners : l \notin Range(list[l]) BY <1>7, <1>9 DEF Barriers
<1>12. Range(list["active"]) = live
  <2>1. Range(list["active"]) \subseteq Listeners /\ live \subseteq Listeners
    BY <1>2, <1>7, RangeFact DEF Members
  <2>2. \A l \in Listeners : l \in live <=> l \in Range(list["active"])
    BY <1>7, <1>8, <1>11 DEF Members
  <2> QED BY <2>1, <2>2
<1>13. Len(list["active"]) = Cardinality(live)
  <2>1. Once(list["active"]) BY <1>7 DEF Members
  <2> QED BY <1>2, <1>12, <2>1, OnceCounts
<1>14. ASSUME NEW l \in live PROVE heard[l] = ver
  <2>1. PICK p \in 1 .. Len(list["active"]) : l = list["active"][p] BY <1>2, <1>12, <1>14 DEF Range
  <2>2. ~Behind({}, p) BY DEF Behind
  <2> QED BY <1>7, <1>10, <2>1, <2>2 DEF Standing
<1> QED BY <1>5, <1>8, <1>12, <1>13, <1>14

\* When the host's call has returned, everybody knows everything.
THEOREM ReturnedCallsAreSettled == Spec => []ReturnedIsSettled
BY EventsInvariance, DeliveryInvariance, CallsSettle, PTL

-----------------------------------------------------------------------------
(* Nothing is missed.                                                      *)

\* A sequence begins with one notification of a kind, at version S.
Opens(pre, k, S) ==
  \E i \in 1 .. Len(pre) : /\ pre[i] = Note(k, S[k])
                           /\ \A j \in 1 .. Len(pre) : pre[j].type = k => j = i

\* What no step changes is the same at the end.
LEMMA Steady ==
  ASSUME NEW f, NEW a \in Nat, NEW b \in Nat, a <= b, \A p \in a .. b - 1 : f[p + 1] = f[p]
  PROVE  f[b] = f[a]
<1> DEFINE R == OpToRel(<, Nat)
           U == {x \in a .. b : f[x] # f[a]}
<1>1. IsWellFoundedOn(R, Nat) BY NatLessThanWellFounded, Zenon
<1>2. \A x, y \in Nat : <<y, x>> \in R <=> y < x BY DEF OpToRel
<1> HIDE DEF R
<1> SUFFICES ASSUME f[b] # f[a] PROVE FALSE
  OBVIOUS
<1>3. U \subseteq Nat /\ U # {}
  <2>1. b \in U OBVIOUS
  <2> QED BY <2>1
<1>4. PICK u \in U : \A w \in U : ~(<<w, u>> \in R) BY <1>1, <1>3, WFMin, Zenon
<1>5. u \in a .. b /\ f[u] # f[a] BY <1>4
<1>6. u - 1 \in a .. b - 1 /\ (u - 1) + 1 = u BY <1>5
<1>7. f[u] = f[u - 1] BY <1>6
<1>8. u - 1 \in U /\ u - 1 \in Nat /\ u \in Nat /\ u - 1 < u BY <1>5, <1>6, <1>7
<1> QED BY <1>2, <1>4, <1>8

\* Two sequences in a row.
LEMMA RowFact ==
  ASSUME NEW S, NEW s \in Seq(S), NEW t \in Seq(S)
  PROVE  /\ s \o t \in Seq(S) /\ Len(s \o t) = Len(s) + Len(t)
         /\ \A i \in 1 .. Len(s) : (s \o t)[i] = s[i]
         /\ \A i \in 1 .. Len(t) : (s \o t)[Len(s) + i] = t[i]
         /\ \A i \in 1 .. Len(s) + Len(t) :
              i \in 1 .. Len(s) \/ \E j \in 1 .. Len(t) : i = Len(s) + j
<1>1. ASSUME NEW i \in 1 .. Len(s) + Len(t)
      PROVE  i \in 1 .. Len(s) \/ \E j \in 1 .. Len(t) : i = Len(s) + j
  <2>1. i > Len(s) => i - Len(s) \in 1 .. Len(t) /\ i = Len(s) + (i - Len(s)) OBVIOUS
  <2> QED BY <2>1
<1> QED BY <1>1

\* The notifications of a kind along a queue.
LEMMA KindMoves ==
  ASSUME NEW W, NEW q \in Seq(Notes), NEW v, Told(W, q, v), NEW k \in Kinds
  PROVE  /\ \A p \in 1 .. Len(q) :
              q[p].type = k => q[p].what = W[p + 1][k] /\ W[p + 1][k] = W[p][k] + 1
         /\ \A a, b \in 1 .. Len(q) + 1 :
              a <= b /\ (\A p \in a .. b - 1 : q[p].type # k) => W[b][k] = W[a][k]
<1>1. /\ Len(q) \in Nat /\ W \in Seq(Versions) /\ Len(W) = Len(q) + 1
      /\ \A p \in 1 .. Len(q) : Moves(W[p], q[p], W[p + 1])
  BY DEF Told
<1>2. \A p \in 1 .. Len(q) + 1 : W[p] \in [Kinds -> Nat \ {0}] BY <1>1 DEF Versions
<1>3. ASSUME NEW p \in 1 .. Len(q)
      PROVE  /\ q[p].type = k => q[p].what = W[p + 1][k] /\ W[p + 1][k] = W[p][k] + 1
             /\ q[p].type # k => W[p + 1][k] = W[p][k]
  <2>1. Moves(W[p], q[p], W[p + 1]) /\ W[p] \in [Kinds -> Nat \ {0}] BY <1>1, <1>2
  <2> QED BY <2>1 DEF Moves
<1>4. ASSUME NEW a \in 1 .. Len(q) + 1, NEW b \in 1 .. Len(q) + 1,
             a <= b, \A p \in a .. b - 1 : q[p].type # k
      PROVE  W[b][k] = W[a][k]
  <2> DEFINE g == [p \in 1 .. Len(q) + 1 |-> W[p][k]]
  <2>1. ASSUME NEW p \in a .. b - 1 PROVE g[p + 1] = g[p]
    <3>1. p \in 1 .. Len(q) /\ p \in 1 .. Len(q) + 1 /\ p + 1 \in 1 .. Len(q) + 1 BY <1>1, <1>4
    <3>2. W[p + 1][k] = W[p][k] BY <1>3, <1>4, <2>1, <3>1
    <3> QED BY <3>1, <3>2
  <2>2. g[a] = W[a][k] /\ g[b] = W[b][k] /\ a \in Nat /\ b \in Nat BY <1>1, <1>4
  <2> HIDE DEF g
  <2>3. g[b] = g[a] BY <1>4, <2>1, <2>2, Steady
  <2> QED BY <2>2, <2>3
<1> QED BY <1>3, <1>4

\* Who is given one snapshot of version S and then a queue that starts from
\* it misses nothing.
LEMMA NothingSkipped ==
  ASSUME NEW pre \in Seq(Notes), NEW q \in Seq(Notes), NEW W, NEW v, NEW k \in Kinds,
         Told(W, q, v), Opens(pre, k, W[1])
  PROVE  UpTo(pre \o q, k, v[k])
<1>1. PICK e \in 1 .. Len(pre) : /\ pre[e] = Note(k, W[1][k])
                                 /\ \A j \in 1 .. Len(pre) : pre[j].type = k => j = e
  BY DEF Opens
<1>2. PICK s : s = pre \o q OBVIOUS
<1>3. /\ s \in Seq(Notes) /\ Len(s) = Len(pre) + Len(q) /\ Len(pre) \in Nat /\ Len(q) \in Nat
      /\ \A i \in 1 .. Len(pre) : s[i] = pre[i]
      /\ \A i \in 1 .. Len(q) : s[Len(pre) + i] = q[i]
      /\ \A i \in 1 .. Len(s) : i \in 1 .. Len(pre) \/ \E j \in 1 .. Len(q) : i = Len(pre) + j
  <2>1. Len(pre) \in Nat /\ Len(q) \in Nat OBVIOUS
  <2> QED BY <1>2, <2>1, RowFact
<1>4. /\ \A p \in 1 .. Len(q) :
           q[p].type = k => q[p].what = W[p + 1][k] /\ W[p + 1][k] = W[p][k] + 1
      /\ \A a, b \in 1 .. Len(q) + 1 :
           a <= b /\ (\A p \in a .. b - 1 : q[p].type # k) => W[b][k] = W[a][k]
  BY KindMoves
<1>5. W[Len(q) + 1] = v BY DEF Told
<1> DEFINE of == {i \in DOMAIN s : s[i].type = k}
<1>6. DOMAIN s = 1 .. Len(s) BY <1>3
<1>7. s[e] = Note(k, W[1][k]) /\ s[e].type = k /\ s[e].what = W[1][k] /\ e \in of
  <2>1. s[e] = Note(k, W[1][k]) BY <1>1, <1>3
  <2>2. e \in 1 .. Len(s) BY <1>1, <1>3
  <2> QED BY <1>6, <2>1, <2>2 DEF Note
<1>8. ASSUME NEW i \in of
      PROVE  i = e \/ \E p \in 1 .. Len(q) : i = Len(pre) + p /\ s[i] = q[p] /\ q[p].type = k
  <2>1. i \in 1 .. Len(s) /\ s[i].type = k BY <1>6
  <2>2. CASE i \in 1 .. Len(pre) BY <1>1, <1>3, <2>1, <2>2
  <2>3. CASE \E j \in 1 .. Len(q) : i = Len(pre) + j BY <1>3, <2>1, <2>3
  <2> QED BY <1>3, <2>1, <2>2, <2>3
<1>9. ASSUME NEW p \in 1 .. Len(q), q[p].type = k
      PROVE  Len(pre) + p \in of /\ s[Len(pre) + p] = q[p]
  <2>1. Len(pre) + p \in 1 .. Len(s) BY <1>3
  <2>2. s[Len(pre) + p] = q[p] BY <1>3
  <2> QED BY <1>6, <1>9, <2>1, <2>2
<1> HIDE DEF of
<1>10. ASSUME NEW i \in of, \A j \in of : j <= i PROVE s[i].what = v[k]
  <2>1. CASE i = e
    <3>1. \A p \in 1 .. (Len(q) + 1) - 1 : q[p].type # k BY <1>1, <1>3, <1>9, <1>10, <2>1
    <3>2. 1 \in 1 .. Len(q) + 1 /\ Len(q) + 1 \in 1 .. Len(q) + 1 /\ 1 <= Len(q) + 1 BY <1>3
    <3>3. W[Len(q) + 1][k] = W[1][k] BY <1>4, <3>1, <3>2
    <3> QED BY <1>5, <1>7, <2>1, <3>3
  <2>2. ASSUME NEW p \in 1 .. Len(q), i = Len(pre) + p, s[i] = q[p], q[p].type = k
        PROVE  s[i].what = v[k]
    <3>1. \A r \in p + 1 .. (Len(q) + 1) - 1 : q[r].type # k
      <4> SUFFICES ASSUME NEW r \in p + 1 .. (Len(q) + 1) - 1, q[r].type = k PROVE FALSE
        OBVIOUS
      <4>1. r \in 1 .. Len(q) /\ r > p BY <1>3
      <4>2. Len(pre) + r \in of BY <1>9, <4>1
      <4>3. Len(pre) + r <= i BY <1>10, <4>2
      <4> QED BY <1>3, <2>2, <4>1, <4>3
    <3>2. p + 1 \in 1 .. Len(q) + 1 /\ Len(q) + 1 \in 1 .. Len(q) + 1 /\ p + 1 <= Len(q) + 1 BY <1>3
    <3>3. W[Len(q) + 1][k] = W[p + 1][k] BY <1>4, <3>1, <3>2
    <3> QED BY <1>4, <1>5, <2>2, <3>3
  <2> QED BY <1>8, <2>1, <2>2
<1>11. ASSUME NEW i \in of, NEW j \in of, i < j, \A m \in of : m <= i \/ j <= m
       PROVE  s[j].what = s[i].what + 1
  <2>1. j # e
    <3> SUFFICES ASSUME j = e PROVE FALSE
      OBVIOUS
    <3>1. i < e BY <1>11
    <3> QED BY <1>1, <1>3, <1>8, <3>1
  <2>2. PICK r \in 1 .. Len(q) : j = Len(pre) + r /\ s[j] = q[r] /\ q[r].type = k BY <1>8, <2>1
  <2>3. s[j].what = W[r][k] + 1 BY <1>4, <2>2
  <2>4. CASE i = e
    <3>1. \A p \in 1 .. r - 1 : q[p].type # k
      <4> SUFFICES ASSUME NEW p \in 1 .. r - 1, q[p].type = k PROVE FALSE
        OBVIOUS
      <4>1. p \in 1 .. Len(q) /\ p < r BY <1>3
      <4>2. Len(pre) + p \in of BY <1>9, <4>1
      <4>3. Len(pre) + p <= i \/ j <= Len(pre) + p BY <1>11, <4>2
      <4> QED BY <1>1, <1>3, <2>2, <2>4, <4>1, <4>3
    <3>2. 1 \in 1 .. Len(q) + 1 /\ r \in 1 .. Len(q) + 1 /\ 1 <= r BY <1>3
    <3>3. W[r][k] = W[1][k] BY <1>4, <3>1, <3>2
    <3> QED BY <1>7, <2>3, <2>4, <3>3
  <2>5. ASSUME NEW p \in 1 .. Len(q), i = Len(pre) + p, s[i] = q[p], q[p].type = k
        PROVE  s[j].what = s[i].what + 1
    <3>1. p < r BY <1>3, <1>11, <2>2, <2>5
    <3>2. \A m \in p + 1 .. r - 1 : q[m].type # k
      <4> SUFFICES ASSUME NEW m \in p + 1 .. r - 1, q[m].type = k PROVE FALSE
        OBVIOUS
      <4>1. m \in 1 .. Len(q) /\ m < r /\ p < m BY <1>3
      <4>2. Len(pre) + m \in of BY <1>9, <4>1
      <4>3. Len(pre) + m <= i \/ j <= Len(pre) + m BY <1>11, <4>2
      <4> QED BY <1>3, <2>2, <2>5, <4>1, <4>3
    <3>3. p + 1 \in 1 .. Len(q) + 1 /\ r \in 1 .. Len(q) + 1 /\ p + 1 <= r BY <1>3, <3>1
    <3>4. W[r][k] = W[p + 1][k] BY <1>4, <3>2, <3>3
    <3> QED BY <1>4, <2>3, <2>5, <3>4
  <2> QED BY <1>8, <2>4, <2>5
<1>12. of # {} BY <1>7
<1> QED BY <1>2, <1>10, <1>11, <1>12 DEF UpTo, of

\* The chain from a place of the queue on.
LEMMA ToldSuffix ==
  ASSUME NEW W, NEW q \in Seq(Notes), NEW v, Told(W, q, v), NEW n \in 1 .. Len(q)
  PROVE  \E X : Told(X, SubSeq(q, n + 1, Len(q)), v) /\ X[1] = W[n + 1]
<1>1. Len(q) \in Nat /\ W \in Seq(Versions) /\ Len(W) = Len(q) + 1 /\ W[Len(q) + 1] = v
  BY DEF Told
<1>2. PICK r : r = SubSeq(q, n + 1, Len(q)) OBVIOUS
<1>3. PICK X : X = SubSeq(W, n + 1, Len(W)) OBVIOUS
<1>4. n \in 0 .. Len(q) /\ n \in 0 .. Len(W) BY <1>1
<1>5. Len(r) = Len(q) - n /\ \A i \in 1 .. Len(q) - n : r[i] = q[n + i] BY <1>2, <1>4, SuffixOf
<1>6. /\ X \in Seq(Versions) /\ Len(X) = Len(W) - n
      /\ \A i \in 1 .. Len(W) - n : X[i] = W[n + i]
  BY <1>1, <1>3, <1>4, SuffixOf
<1>7. Len(X) = Len(r) + 1 /\ X[Len(r) + 1] = v
  <2>1. Len(r) + 1 \in 1 .. Len(W) - n /\ n + (Len(r) + 1) = Len(q) + 1 BY <1>1, <1>5
  <2>2. X[Len(r) + 1] = W[Len(q) + 1] BY <1>6, <2>1
  <2> QED BY <1>1, <1>5, <1>6, <2>2
<1>8. ASSUME NEW p \in 1 .. Len(r) PROVE Moves(X[p], r[p], X[p + 1])
  <2>1. /\ p \in 1 .. Len(q) - n /\ n + p \in 1 .. Len(q) /\ p \in 1 .. Len(W) - n
        /\ p + 1 \in 1 .. Len(W) - n /\ n + (p + 1) = (n + p) + 1
    BY <1>1, <1>5
  <2>2. X[p] = W[n + p] /\ X[p + 1] = W[(n + p) + 1] /\ r[p] = q[n + p] BY <1>5, <1>6, <2>1
  <2>3. Moves(W[n + p], q[n + p], W[(n + p) + 1]) BY <2>1 DEF Told
  <2> QED BY <2>2, <2>3
<1>9. X[1] = W[n + 1]
  <2>1. 1 \in 1 .. Len(W) - n BY <1>1
  <2> QED BY <1>6, <2>1
<1> QED BY <1>2, <1>6, <1>7, <1>8, <1>9 DEF Told

\* The chain from before the notification that the drain is emitting.
LEMMA ToldFront ==
  ASSUME NEW W, NEW q \in Seq(Notes), NEW v, Told(W, q, v), NEW A \in Versions,
         NEW n \in Notes, Moves(A, n, W[1])
  PROVE  \E X : Told(X, <<n>> \o q, v) /\ X[1] = A
<1>1. Len(q) \in Nat /\ W \in Seq(Versions) /\ Len(W) = Len(q) + 1 /\ W[Len(q) + 1] = v
  BY DEF Told
<1>2. PICK r : r = <<n>> \o q OBVIOUS
<1>3. PICK X : X = <<A>> \o W OBVIOUS
<1>4. /\ Len(r) = Len(q) + 1 /\ r[1] = n
      /\ \A i \in 1 .. Len(q) : r[i + 1] = q[i]
  BY <1>2
<1>5. /\ X \in Seq(Versions) /\ Len(X) = Len(W) + 1 /\ X[1] = A
      /\ \A i \in 1 .. Len(W) : X[i + 1] = W[i]
  BY <1>1, <1>3
<1>6. Len(X) = Len(r) + 1 /\ X[Len(r) + 1] = v
  <2>1. Len(q) + 1 \in 1 .. Len(W) BY <1>1
  <2>2. X[(Len(q) + 1) + 1] = W[Len(q) + 1] BY <1>5, <2>1
  <2> QED BY <1>1, <1>4, <1>5, <2>2
<1>7. ASSUME NEW p \in 1 .. Len(r) PROVE Moves(X[p], r[p], X[p + 1])
  <2>1. CASE p = 1
    <3>1. 1 \in 1 .. Len(W) BY <1>1
    <3>2. X[1 + 1] = W[1] BY <1>5, <3>1
    <3> QED BY <1>4, <1>5, <2>1, <3>2
  <2>2. CASE p # 1
    <3>1. PICK m \in 1 .. Len(q) : p = m + 1
      <4>1. p - 1 \in 1 .. Len(q) /\ p = (p - 1) + 1 BY <1>1, <1>4, <2>2
      <4> QED BY <4>1
    <3>2. m \in 1 .. Len(W) /\ m + 1 \in 1 .. Len(W) BY <1>1
    <3>3. X[p] = W[m] /\ X[p + 1] = W[m + 1] /\ r[p] = q[m] BY <1>4, <1>5, <3>1, <3>2
    <3>4. Moves(W[m], q[m], W[m + 1]) BY DEF Told
    <3> QED BY <3>3, <3>4
  <2> QED BY <2>1, <2>2
<1> QED BY <1>2, <1>5, <1>6, <1>7 DEF Told

(* What a listener has heard of a kind.                                    *)
Old(x, k) == IF x[k] = 0 THEN <<>> ELSE <<Note(k, x[k])>>

\* A listener that stands at a version starts from it.
LEMMA StandsAt ==
  ASSUME NEW k \in Kinds, NEW S \in Versions
  PROVE  Old(S, k) \o <<>> \in Seq(Notes) /\ Opens(Old(S, k) \o <<>>, k, S)
<1>1. S[k] \in Nat \ {0} BY DEF Versions
<1>2. Note(k, S[k]) \in Notes /\ Note(k, S[k]).type = k BY <1>1 DEF Notes, Note
<1>3. PICK n : n = Note(k, S[k]) OBVIOUS
<1>4. PICK s : s = <<n>> OBVIOUS
<1>5. Old(S, k) \o <<>> = s BY <1>1, <1>3, <1>4 DEF Old
<1>6. s \in Seq(Notes) /\ Len(s) = 1 /\ s[1] = n BY <1>2, <1>3, <1>4
<1>7. Opens(s, k, S) BY <1>3, <1>6 DEF Opens
<1> QED BY <1>5, <1>6, <1>7

\* Short sequences in a row.
LEMMA ShortRows ==
  ASSUME NEW a, NEW b
  PROVE  <<a>> \o <<b>> = <<a, b>> /\ <<>> \o <<b>> = <<b>> /\ <<>> \o <<a, b>> = <<a, b>>
<1>1. <<a>> \o <<b>> = <<a, b>>
  <2>1. PICK s : s = <<a>> \o <<b>> OBVIOUS
  <2>2. PICK t : t = <<a, b>> OBVIOUS
  <2>3. s \in Seq({a, b}) /\ Len(s) = 2 /\ s[1] = a /\ s[2] = b BY <2>1
  <2>4. t \in Seq({a, b}) /\ Len(t) = 2 /\ t[1] = a /\ t[2] = b BY <2>2
  <2>5. \A i \in 1 .. Len(s) : s[i] = t[i] BY <2>3, <2>4
  <2>6. s = t BY <2>3, <2>4, <2>5, SeqEqual
  <2> QED BY <2>1, <2>2, <2>6
<1>2. <<>> \o <<b>> = <<b>> OBVIOUS
<1>3. <<>> \o <<a, b>> = <<a, b>> OBVIOUS
<1> QED BY <1>1, <1>2, <1>3

\* What the initial traversal has still to give.
ToCome(f) == IF f.cur = 0 THEN <<f.note>> \o f.rest ELSE f.rest

\* A newcomer is given one snapshot of each kind.
LEMMA NewcomerStarts ==
  ASSUME NEW f \in Frames, NEW x \in [Kinds -> Nat], NEW S \in Versions, Newcomer(f, x, S),
         NEW k \in Kinds
  PROVE  Old(x, k) \o ToCome(f) \in Seq(Notes) /\ Opens(Old(x, k) \o ToCome(f), k, S)
<1>1. S["node"] \in Nat \ {0} /\ S["port"] \in Nat \ {0} BY DEF Versions, Kinds
<1>2. PICK n : n = Note("node", S["node"]) OBVIOUS
<1>3. PICK p : p = Note("port", S["port"]) OBVIOUS
<1>4. n \in Notes /\ p \in Notes /\ n.type = "node" /\ p.type = "port"
  BY <1>1, <1>2, <1>3 DEF Notes, Note, Kinds
<1>5. k = "node" \/ k = "port" BY DEF Kinds
<1>6. PICK b : b = <<n, p>> OBVIOUS
<1>7. b \in Seq(Notes) /\ Len(b) = 2 /\ b[1] = n /\ b[2] = p BY <1>4, <1>6
<1>8. Opens(b, k, S)
  <2>1. CASE k = "node" BY <1>2, <1>4, <1>7, <2>1 DEF Opens
  <2>2. CASE k = "port" BY <1>3, <1>4, <1>7, <2>2 DEF Opens
  <2> QED BY <1>5, <2>1, <2>2
<1>9. PICK c : c = Old(S, k) \o <<>> OBVIOUS
<1>10. c \in Seq(Notes) /\ Opens(c, k, S) BY <1>9, StandsAt
<1>11. c = <<Note(k, S[k])>> BY <1>1, <1>5, <1>9 DEF Old
<1>12. CASE f.rest # <<>> /\ f.cur = 0
  <2>1. f.note = n /\ f.rest = <<p>> /\ x[k] = 0 BY <1>2, <1>3, <1>5, <1>12 DEF Newcomer
  <2>2. Old(x, k) = <<>> /\ ToCome(f) = <<n>> \o <<p>> BY <1>12, <2>1 DEF Old, ToCome
  <2>3. Old(x, k) \o ToCome(f) = b BY <1>6, <2>2, ShortRows
  <2> QED BY <1>7, <1>8, <2>3
<1>13. CASE f.rest # <<>> /\ f.cur # 0
  <2>1. f.rest = <<p>> /\ x["port"] = 0 /\ x["node"] = S["node"] BY <1>3, <1>13 DEF Newcomer
  <2>2. ToCome(f) = <<p>> BY <1>13, <2>1 DEF ToCome
  <2>3. CASE k = "node"
    <3>1. Old(x, k) = <<n>> BY <1>1, <1>2, <2>1, <2>3 DEF Old
    <3>2. Old(x, k) \o ToCome(f) = b BY <1>6, <2>2, <3>1, ShortRows
    <3> QED BY <1>7, <1>8, <3>2
  <2>4. CASE k = "port"
    <3>1. Old(x, k) = <<>> BY <2>1, <2>4 DEF Old
    <3>2. Old(x, k) \o ToCome(f) = c BY <1>3, <1>11, <2>2, <2>4, <3>1, ShortRows
    <3> QED BY <1>10, <3>2
  <2> QED BY <1>5, <2>3, <2>4
<1>14. CASE f.rest = <<>> /\ f.cur = 0
  <2>1. f.note = p /\ x["node"] = S["node"] /\ x["port"] = 0 BY <1>3, <1>14 DEF Newcomer
  <2>2. ToCome(f) = <<p>> BY <1>14, <2>1 DEF ToCome
  <2>3. CASE k = "node"
    <3>1. Old(x, k) = <<n>> BY <1>1, <1>2, <2>1, <2>3 DEF Old
    <3>2. Old(x, k) \o ToCome(f) = b BY <1>6, <2>2, <3>1, ShortRows
    <3> QED BY <1>7, <1>8, <3>2
  <2>4. CASE k = "port"
    <3>1. Old(x, k) = <<>> BY <2>1, <2>4 DEF Old
    <3>2. Old(x, k) \o ToCome(f) = c BY <1>3, <1>11, <2>2, <2>4, <3>1, ShortRows
    <3> QED BY <1>10, <3>2
  <2> QED BY <1>5, <2>3, <2>4
<1>15. CASE f.rest = <<>> /\ f.cur # 0
  <2>1. x["node"] = S["node"] /\ x["port"] = S["port"] BY <1>15 DEF Newcomer
  <2>2. ToCome(f) = <<>> /\ x[k] = S[k] BY <1>5, <1>15, <2>1 DEF ToCome
  <2>3. Old(x, k) = Old(S, k) BY <2>2 DEF Old
  <2>4. Old(x, k) \o ToCome(f) = c BY <1>9, <2>2, <2>3
  <2> QED BY <1>10, <2>4
<1> QED BY <1>12, <1>13, <1>14, <1>15

\* What a listener is still to be given by an initial traversal.
LEMMA FromInitialFact ==
  ASSUME stack \in Seq(Frames), NEW l
  PROVE  \/ /\ FromInitial(l) = <<>>
            /\ \A f \in Doing(stack, "initial") : l \notin Range(list[f.on])
         \/ \E f \in Doing(stack, "initial") :
              l \in Range(list[f.on]) /\ FromInitial(l) = ToCome(f)
<1> DEFINE mine == {i \in InitialFrames : l \in Range(list[stack[i].on])}
<1>1. CASE mine = {}
  <2>1. FromInitial(l) = <<>> BY <1>1 DEF FromInitial
  <2>2. \A i \in 1 .. Len(stack) : stack[i].op = "initial" => i \in InitialFrames
    BY DEF InitialFrames
  <2>3. \A f \in Doing(stack, "initial") : l \notin Range(list[f.on]) BY <1>1, <2>2 DEF Doing
  <2> QED BY <2>1, <2>3
<1>2. CASE mine # {}
  <2>1. PICK i : i = CHOOSE j \in mine : TRUE OBVIOUS
  <2>2. i \in mine BY <1>2, <2>1
  <2>3. FromInitial(l) = ToCome(stack[i]) BY <1>2, <2>1 DEF FromInitial, ToCome
  <2>4. stack[i] \in Doing(stack, "initial") BY <2>2 DEF InitialFrames, Doing
  <2> QED BY <2>2, <2>3, <2>4
<1> QED BY <1>1, <1>2

\* What it is still to be given by the drain: nothing, when it is not active.
LEMMA FromDrainNone ==
  ASSUME stack \in Seq(Frames), list["active"] \in Seq(Listeners), NEW l,
         l \notin Range(list["active"]) \/ Doing(stack, "drain") = {}
  PROVE  FromDrain(l) = <<>>
<1> DEFINE ds == {i \in DOMAIN stack : stack[i].op = "drain"}
<1>1. Doing(stack, "drain") = {} => ds = {}
  <2>1. \A i \in ds : stack[i] \in Doing(stack, "drain") BY DEF Doing
  <2> QED BY <2>1
<1>2. PICK f : f = stack[CHOOSE i \in ds : TRUE] OBVIOUS
<1>3. ASSUME l \notin Range(list["active"]), NEW i \in ds, f = stack[i]
      PROVE  \A p \in f.cur + 1 .. Len(list["active"]) : list["active"][p] # l
  <2>1. i \in 1 .. Len(stack) OBVIOUS
  <2>2. f.cur \in Nat BY <1>3, <2>1, FrameFields
  <2>3. \A p \in f.cur + 1 .. Len(list["active"]) : p \in DOMAIN list["active"] BY <2>2
  <2> QED BY <1>3, <2>3 DEF Range
<1>4. ds # {} => (CHOOSE i \in ds : TRUE) \in ds OBVIOUS
<1>5. CASE ds = {} BY <1>5 DEF FromDrain
<1>6. CASE ds # {}
  <2>1. \A p \in f.cur + 1 .. Len(list["active"]) : list["active"][p] # l
    BY <1>1, <1>2, <1>3, <1>4, <1>6
  <2> QED BY <1>2, <2>1 DEF FromDrain
<1> QED BY <1>5, <1>6

\* An active hook: the notification being emitted, if the cursor is before it.
LEMMA FromDrainFact ==
  ASSUME EventsInv, Once(list["active"]), NEW p \in 1 .. Len(list["active"])
  PROVE  \/ /\ FromDrain(list["active"][p]) = <<>>
            /\ ~Behind(Doing(stack, "drain"), p)
         \/ \E f \in Doing(stack, "drain") :
              FromDrain(list["active"][p]) = <<f.note>> /\ Behind(Doing(stack, "drain"), p)
<1>1. stack \in Seq(Frames) /\ list["active"] \in Seq(Listeners) BY TypedFacts DEF EventsInv
<1>2. PICK l : l = list["active"][p] OBVIOUS
<1>3. PICK D : D = Doing(stack, "drain") OBVIOUS
<1> DEFINE ds == {i \in DOMAIN stack : stack[i].op = "drain"}
<1>4. CASE ds = {}
  <2>1. D = {} BY <1>1, <1>3, <1>4 DEF Doing
  <2>2. FromDrain(l) = <<>> BY <1>1, <1>3, <2>1, FromDrainNone
  <2> QED BY <1>2, <1>3, <2>1, <2>2 DEF Behind
<1>5. CASE ds # {}
  <2>1. PICK i : i = CHOOSE j \in ds : TRUE OBVIOUS
  <2>2. i \in ds /\ i \in 1 .. Len(stack) BY <1>1, <1>5, <2>1
  <2>3. PICK f : f = stack[i] OBVIOUS
  <2>4. f \in D /\ f.cur \in Nat
    <3>1. f \in D BY <1>3, <2>2, <2>3 DEF Doing
    <3> QED BY <1>3, <3>1, DoingFacts
  <2>5. \A g \in D : g = f BY <1>3, <2>4, DoingFacts
  <2>6. Behind(D, p) <=> f.cur < p BY <2>4, <2>5 DEF Behind
  <2>7. CASE f.cur < p
    <3>1. p \in f.cur + 1 .. Len(list["active"]) BY <1>1, <2>4, <2>7
    <3>2. FromDrain(l) = <<f.note>> BY <1>2, <1>5, <2>1, <2>3, <3>1 DEF FromDrain
    <3> QED BY <1>2, <1>3, <2>4, <2>6, <2>7, <3>2
  <2>8. CASE ~(f.cur < p)
    <3>1. ASSUME NEW r \in f.cur + 1 .. Len(list["active"]) PROVE list["active"][r] # l
      <4>1. r \in 1 .. Len(list["active"]) /\ r # p BY <1>1, <2>4, <2>8
      <4> QED BY <1>2, <4>1 DEF Once
    <3>2. FromDrain(l) = <<>> BY <1>2, <1>5, <2>1, <2>3, <3>1 DEF FromDrain
    <3> QED BY <1>2, <1>3, <2>6, <2>8, <3>2
  <2> QED BY <2>7, <2>8
<1> QED BY <1>4, <1>5

\* What it is still to be given from the queue.
LEMMA FromQueueFact ==
  ASSUME queue \in Seq(Notes), NEW l \in Listeners, NEW ls, NEW sv, NEW new,
         Barriers(queue, ls, sv, new)
  PROVE  /\ (\A p \in 1 .. Len(queue) : queue[p] # Note("activate", l)) => FromQueue(l) = queue
         /\ \A p \in 1 .. Len(queue) : queue[p] = Note("activate", l) =>
              FromQueue(l) = SubSeq(queue, p + 1, Len(queue))
<1> DEFINE b == {i \in DOMAIN queue : queue[i] = Note("activate", l)}
<1>1. DOMAIN queue = 1 .. Len(queue) OBVIOUS
<1>2. ASSUME \A p \in 1 .. Len(queue) : queue[p] # Note("activate", l)
      PROVE  FromQueue(l) = queue
  <2>1. b = {} BY <1>1, <1>2
  <2> QED BY <2>1 DEF FromQueue
<1>3. ASSUME NEW p \in 1 .. Len(queue), queue[p] = Note("activate", l)
      PROVE  FromQueue(l) = SubSeq(queue, p + 1, Len(queue))
  <2>1. p \in b BY <1>1, <1>3
  <2>2. (CHOOSE i \in b : TRUE) \in b BY <2>1
  <2>3. \A i \in b : i = p BY <1>1, <1>3 DEF Barriers
  <2>4. (CHOOSE i \in b : TRUE) = p BY <2>2, <2>3
  <2>5. b # {} BY <2>1
  <2> QED BY <2>4, <2>5 DEF FromQueue
<1> QED BY <1>2, <1>3

\* A hook that follows the queue hears what is emitted and what is queued.
LEMMA FollowerHears ==
  ASSUME EventsInv, NEW A, NEW W, Delivery(A, W), NEW k \in Kinds,
         NEW p \in 1 .. Len(Hub(Doing(stack, "initial"), list, saved)),
         NEW l, l = Hub(Doing(stack, "initial"), list, saved)[p]
  PROVE  UpTo((Old(heard[l], k) \o FromInitial(l)) \o (FromDrain(l) \o FromQueue(l)), k, ver[k])
<1>1. /\ stack \in Seq(Frames) /\ list["active"] \in Seq(Listeners) /\ saved \in Seq(Listeners)
      /\ queue \in Seq(Notes) /\ Lists(list, saved, heard, fresh)
  BY TypedFacts DEF EventsInv
<1>2. /\ A \in Versions /\ Told(W, queue, ver)
      /\ Draining(Doing(stack, "drain"), A, W[1])
      /\ Standing(Doing(stack, "drain"), Hub(Doing(stack, "initial"), list, saved), heard, A, W[1])
      /\ Barriers(queue, list, saved, fresh) /\ Members(list, saved, live, fresh, heard)
      /\ Settled(Doing(stack, "initial"), saved, queue, dispatching)
  BY DEF Delivery
<1>3. PICK N : N = Doing(stack, "initial") OBVIOUS
<1>4. PICK D : D = Doing(stack, "drain") OBVIOUS
<1>5. W[1] \in Versions
  <2>1. 1 \in 1 .. Len(queue) + 1 BY <1>1
  <2> QED BY <1>1, <1>2, <2>1, ToldFact
<1>6. /\ Isolated(N) => l \in Range(saved)
      /\ ~Isolated(N) => l \in Range(list["active"])
      /\ l \in Listeners
  <2>1. CASE Isolated(N)
    <3>1. p \in 1 .. Len(saved) /\ l = saved[p] BY <1>3, <2>1 DEF Hub
    <3> QED BY <1>1, <2>1, <3>1 DEF Range
  <2>2. CASE ~Isolated(N)
    <3>1. p \in 1 .. Len(list["active"]) /\ l = list["active"][p] BY <1>3, <2>2 DEF Hub
    <3> QED BY <1>1, <2>2, <3>1 DEF Range
  <2> QED BY <2>1, <2>2
<1>7. FromInitial(l) = <<>>
  <2>1. ASSUME NEW f \in N PROVE l \notin Range(list[f.on])
    <3>1. f.on \in {"active"} \cup Listeners BY <1>3, DoingFacts
    <3>2. CASE f.on = "active"
      <4>1. Isolated(N) BY <3>2 DEF Isolated
      <4> QED BY <1>2, <1>6, <3>2, <4>1 DEF Members
    <3>3. CASE f.on \in Listeners
      <4>1. l \in Range(list[f.on]) => l = f.on BY <1>1, <3>3 DEF Lists
      <4>2. l \notin Range(list[l]) BY <1>1, <1>6 DEF Lists
      <4> QED BY <4>1, <4>2
    <3> QED BY <3>1, <3>2, <3>3
  <2> QED BY <1>1, <1>3, <2>1, FromInitialFact
<1>8. FromQueue(l) = queue
  <2>1. \A r \in 1 .. Len(queue) : queue[r] # Note("activate", l) BY <1>2, <1>6 DEF Barriers
  <2> QED BY <1>1, <1>2, <1>6, <2>1, FromQueueFact
<1>9. ASSUME FromDrain(l) = <<>>, ~Behind(D, p)
      PROVE  UpTo((Old(heard[l], k) \o FromInitial(l)) \o (FromDrain(l) \o FromQueue(l)), k, ver[k])
  <2>1. heard[l] = W[1] BY <1>2, <1>4, <1>9 DEF Standing
  <2>2. PICK pre : pre = Old(W[1], k) \o <<>> OBVIOUS
  <2>3. pre \in Seq(Notes) /\ Opens(pre, k, W[1]) BY <1>5, <2>2, StandsAt
  <2>4. UpTo(pre \o queue, k, ver[k]) BY <1>1, <1>2, <2>3, NothingSkipped
  <2>5. <<>> \o queue = queue BY <1>1, ConcatEmptySeq
  <2> QED BY <1>7, <1>8, <1>9, <2>1, <2>2, <2>4, <2>5
<1>10. ASSUME NEW f \in D, FromDrain(l) = <<f.note>>, Behind(D, p)
       PROVE  UpTo((Old(heard[l], k) \o FromInitial(l)) \o (FromDrain(l) \o FromQueue(l)), k, ver[k])
  <2>1. heard[l] = A BY <1>2, <1>4, <1>10 DEF Standing
  <2>2. Moves(A, f.note, W[1]) BY <1>2, <1>4 DEF Draining
  <2>3. f.note \in Notes
    <3>1. f \in Frames BY <1>4, DoingFacts
    <3> QED BY <3>1 DEF Frames
  <2>4. PICK X : Told(X, <<f.note>> \o queue, ver) /\ X[1] = A BY <1>1, <1>2, <2>2, <2>3, ToldFront
  <2>5. PICK pre : pre = Old(A, k) \o <<>> OBVIOUS
  <2>6. pre \in Seq(Notes) /\ Opens(pre, k, X[1]) BY <1>2, <2>4, <2>5, StandsAt
  <2>7. PICK q : q = <<f.note>> \o queue OBVIOUS
  <2>8. q \in Seq(Notes) BY <1>1, <2>3, <2>7
  <2>9. UpTo(pre \o q, k, ver[k]) BY <2>4, <2>6, <2>7, <2>8, NothingSkipped
  <2> QED BY <1>7, <1>8, <1>10, <2>1, <2>5, <2>7, <2>9
<1>11. CASE Isolated(N)
  <2>1. D = {} BY <1>3, <1>4, <1>11, DoingFacts
  <2>2. FromDrain(l) = <<>> BY <1>1, <1>4, <2>1, FromDrainNone
  <2>3. ~Behind(D, p) BY <2>1 DEF Behind
  <2> QED BY <1>9, <2>2, <2>3
<1>12. CASE ~Isolated(N)
  <2>1. p \in 1 .. Len(list["active"]) /\ l = list["active"][p] BY <1>3, <1>12 DEF Hub
  <2>2. Once(list["active"]) BY <1>2 DEF Members
  <2> QED BY <1>4, <1>9, <1>10, <2>1, <2>2, FromDrainFact
<1> QED BY <1>11, <1>12

\* The isolated listener hears its snapshots and then what is queued.
LEMMA GuestHears ==
  ASSUME EventsInv, NEW A, NEW W, Delivery(A, W), NEW k \in Kinds,
         Isolated(Doing(stack, "initial")), NEW l \in Range(list["active"])
  PROVE  UpTo((Old(heard[l], k) \o FromInitial(l)) \o (FromDrain(l) \o FromQueue(l)), k, ver[k])
<1>1. /\ stack \in Seq(Frames) /\ list["active"] \in Seq(Listeners)
      /\ queue \in Seq(Notes) /\ Lists(list, saved, heard, fresh)
  BY TypedFacts DEF EventsInv
<1>2. /\ Told(W, queue, ver) /\ Guests(Doing(stack, "initial"), list, heard, W[1])
      /\ Barriers(queue, list, saved, fresh)
  BY DEF Delivery
<1>3. PICK N : N = Doing(stack, "initial") OBVIOUS
<1>4. W[1] \in Versions
  <2>1. 1 \in 1 .. Len(queue) + 1 BY <1>1
  <2> QED BY <1>1, <1>2, <2>1, ToldFact
<1>5. l \in Listeners /\ heard[l] \in [Kinds -> Nat]
  <2>1. l \in Listeners BY <1>1, RangeFact
  <2> QED BY <2>1, TypedFacts DEF EventsInv
<1>6. FromDrain(l) = <<>>
  <2>1. Doing(stack, "drain") = {} BY DoingFacts
  <2> QED BY <1>1, <2>1, FromDrainNone
<1>7. FromQueue(l) = queue
  <2>1. \A r \in 1 .. Len(queue) : queue[r] # Note("activate", l) BY <1>2, <1>5 DEF Barriers
  <2> QED BY <1>1, <1>2, <1>5, <2>1, FromQueueFact
<1>8. PICK f \in N : f.on = "active" BY <1>3 DEF Isolated
<1>9. FromInitial(l) = ToCome(f)
  <2>1. l \in Range(list[f.on]) BY <1>8
  <2>2. PICK g \in N : l \in Range(list[g.on]) /\ FromInitial(l) = ToCome(g)
    BY <1>1, <1>3, <2>1, FromInitialFact
  <2>3. g.on = "active"
    <3>1. g.on \in {"active"} \cup Listeners BY <1>3, DoingFacts
    <3>2. g.on \in Listeners => l = g.on BY <1>1, <2>2 DEF Lists
    <3>3. l \notin Range(list[l]) BY <1>1, <1>5 DEF Lists
    <3> QED BY <2>2, <3>1, <3>2, <3>3
  <2>4. g = f BY <1>3, <1>8, <2>3, DoingFacts
  <2> QED BY <2>2, <2>4
<1>10. Newcomer(f, heard[l], W[1]) /\ f \in Frames
  <2>1. Newcomer(f, heard[l], W[1]) BY <1>2, <1>3, <1>8 DEF Guests
  <2> QED BY <1>3, <2>1, DoingFacts
<1>11. PICK pre : pre = Old(heard[l], k) \o ToCome(f) OBVIOUS
<1>12. pre \in Seq(Notes) /\ Opens(pre, k, W[1]) BY <1>4, <1>5, <1>10, <1>11, NewcomerStarts
<1>13. UpTo(pre \o queue, k, ver[k]) BY <1>1, <1>2, <1>12, NothingSkipped
<1>14. <<>> \o queue = queue BY <1>1, ConcatEmptySeq
<1> QED BY <1>6, <1>7, <1>9, <1>11, <1>13, <1>14

\* A cohort hears its snapshots and then what is queued behind its barrier.
LEMMA CohortHears ==
  ASSUME EventsInv, NEW A, NEW W, Delivery(A, W), NEW k \in Kinds,
         NEW l \in Listeners, l \in Range(list[l])
  PROVE  UpTo((Old(heard[l], k) \o FromInitial(l)) \o (FromDrain(l) \o FromQueue(l)), k, ver[k])
<1>1. /\ stack \in Seq(Frames) /\ list["active"] \in Seq(Listeners)
      /\ queue \in Seq(Notes) /\ Lists(list, saved, heard, fresh)
      /\ heard[l] \in [Kinds -> Nat]
  BY TypedFacts DEF EventsInv
<1>2. /\ Told(W, queue, ver) /\ Cohorts(Doing(stack, "initial"), list, heard, queue, W)
      /\ Barriers(queue, list, saved, fresh)
  BY DEF Delivery
<1>3. PICK N : N = Doing(stack, "initial") OBVIOUS
<1>4. PICK p \in 1 .. Len(queue) : queue[p] = Note("activate", l) BY <1>2 DEF Barriers
<1>5. W[p + 1] \in Versions
  <2>1. p + 1 \in 1 .. Len(queue) + 1 BY <1>1
  <2> QED BY <1>1, <1>2, <2>1, ToldFact
<1>6. l \notin Range(list["active"]) BY <1>1 DEF Lists
<1>7. FromDrain(l) = <<>> BY <1>1, <1>6, FromDrainNone
<1>8. PICK q : q = SubSeq(queue, p + 1, Len(queue)) OBVIOUS
<1>9. FromQueue(l) = q BY <1>1, <1>2, <1>4, <1>8, FromQueueFact
<1>10. q \in Seq(Notes)
  <2>1. p \in 0 .. Len(queue) BY <1>1
  <2> QED BY <1>1, <1>8, <2>1, SuffixOf
<1>11. PICK X : Told(X, q, ver) /\ X[1] = W[p + 1] BY <1>1, <1>2, <1>8, ToldSuffix
<1>12. Cohort(N, l, heard[l], W[p + 1]) BY <1>2, <1>3, <1>4 DEF Cohorts
<1>13. \A f \in N : l \in Range(list[f.on]) <=> f.on = l
  <2> SUFFICES ASSUME NEW f \in N PROVE l \in Range(list[f.on]) <=> f.on = l
    OBVIOUS
  <2>1. f.on \in {"active"} \cup Listeners BY <1>3, DoingFacts
  <2>2. f.on \in Listeners /\ l \in Range(list[f.on]) => l = f.on BY <1>1 DEF Lists
  <2> QED BY <1>6, <2>1, <2>2
<1>14. PICK pre : pre = Old(heard[l], k) \o FromInitial(l) OBVIOUS
<1>15. pre \in Seq(Notes) /\ Opens(pre, k, X[1])
  <2>1. CASE FromInitial(l) = <<>> /\ \A f \in N : l \notin Range(list[f.on])
    <3>1. heard[l] = W[p + 1] BY <1>12, <1>13, <2>1 DEF Cohort
    <3> QED BY <1>5, <1>11, <1>14, <2>1, <3>1, StandsAt
  <2>2. ASSUME NEW f \in N, l \in Range(list[f.on]), FromInitial(l) = ToCome(f)
        PROVE  pre \in Seq(Notes) /\ Opens(pre, k, X[1])
    <3>1. Newcomer(f, heard[l], W[p + 1]) BY <1>12, <1>13, <2>2 DEF Cohort
    <3>2. f \in Frames BY <1>3, DoingFacts
    <3> QED BY <1>1, <1>5, <1>11, <1>14, <2>2, <3>1, <3>2, NewcomerStarts
  <2> QED BY <1>1, <1>3, <2>1, <2>2, FromInitialFact
<1>16. UpTo(pre \o q, k, ver[k]) BY <1>10, <1>11, <1>15, NothingSkipped
<1>17. <<>> \o q = q BY <1>10, ConcatEmptySeq
<1> QED BY <1>7, <1>9, <1>14, <1>16, <1>17

\* Every registered listener is one of the three.
LEMMA EverybodyHears ==
  ASSUME EventsInv, DeliveryInv
  PROVE  GapFree
<1>1. PICK A, W : Delivery(A, W) BY DEF DeliveryInv
<1>2. list["active"] \in Seq(Listeners) /\ saved \in Seq(Listeners) BY TypedFacts DEF EventsInv
<1>3. /\ Members(list, saved, live, fresh, heard)
      /\ Settled(Doing(stack, "initial"), saved, queue, dispatching)
  BY <1>1 DEF Delivery
<1> SUFFICES ASSUME NEW l \in live, NEW k \in Kinds
             PROVE  UpTo((Old(heard[l], k) \o FromInitial(l)) \o (FromDrain(l) \o FromQueue(l)),
                         k, ver[k])
  BY DEF GapFree, Old
<1>4. /\ l \in Listeners
      /\ l \in Range(list[l]) \cup Range(list["active"]) \cup Range(saved)
  BY <1>3 DEF Members
<1>5. CASE l \in Range(list[l]) BY <1>1, <1>4, <1>5, CohortHears
<1>6. CASE l \in Range(list["active"]) /\ Isolated(Doing(stack, "initial"))
  BY <1>1, <1>6, GuestHears
<1>7. ASSUME l \in Range(Hub(Doing(stack, "initial"), list, saved))
      PROVE  UpTo((Old(heard[l], k) \o FromInitial(l)) \o (FromDrain(l) \o FromQueue(l)), k, ver[k])
  <2>1. PICK hub : hub = Hub(Doing(stack, "initial"), list, saved) OBVIOUS
  <2>2. hub \in Seq(Listeners) BY <1>2, <2>1 DEF Hub
  <2>3. PICK p \in 1 .. Len(hub) : l = hub[p] BY <1>7, <2>1, <2>2 DEF Range
  <2> QED BY <1>1, <2>1, <2>3, FollowerHears
<1>8. CASE l \in Range(list["active"]) /\ ~Isolated(Doing(stack, "initial"))
  BY <1>7, <1>8 DEF Hub
<1>9. CASE l \in Range(saved)
  <2>1. Isolated(Doing(stack, "initial")) BY <1>3, <1>9, RangeFact DEF Settled
  <2> QED BY <1>7, <1>9, <2>1 DEF Hub
<1> QED BY <1>4, <1>5, <1>6, <1>8, <1>9

\* A listener starts with one snapshot of each kind and is then given every
\* later one exactly once and in order, up to the latest.
THEOREM NothingIsMissed == Spec => []GapFree
BY EventsInvariance, DeliveryInvariance, EverybodyHears, PTL

-----------------------------------------------------------------------------
(* A host that negotiates while the node is stopped and the port agree on  *)
(* whether there is a format, whatever fails in the background and however *)
(* late the reports arrive: module FormatPublication with its own state.   *)

\* Nothing is negotiated, advertised or reported at first.
LEMMA InitPublication == PortInit => PublicationInv
<1> SUFFICES ASSUME PortInit PROVE PublicationInv OBVIOUS
<1>1. PortTypeOK
  <2>1. tasks \in Seq(Nat) /\ event \in SUBSET Nat /\ epoch \in Nat BY DEF PortInit
  <2>2. config \in BOOLEAN /\ started \in BOOLEAN /\ lease \in BOOLEAN /\ loopOk \in BOOLEAN
        /\ advertised \in BOOLEAN /\ rate \in BOOLEAN
    BY DEF PortInit
  <2>3. mpc = "idle" /\ mop = "none" BY DEF PortInit
  <2> QED BY <2>1, <2>2, <2>3 DEF PortTypeOK
<1>2. LossShape BY DEF PortInit, LossShape
<1>3. OpShape BY DEF PortInit, OpShape
<1>4. ~LossUnderWay BY DEF PortInit, LossUnderWay
<1>5. Published BY <1>4 DEF PortInit, Published
<1> QED BY <1>1, <1>2, <1>3, <1>5 DEF PublicationInv

\* The data loop: a lost format is reported under the current epoch, and the
\* report keeps its epoch on its way to the main loop.
LEMMA DataLoopKeeps ==
  ASSUME PublicationInv, StoppedOnly, DataLoop
  PROVE  PublicationInv'
<1> USE DEF PublicationInv, PortTypeOK, LossShape, OpShape, Published,
            mainVars, dataVars
<1>1. CASE ConsumeFailed
  <2>1. LossUnderWay' BY <1>1 DEF ConsumeFailed, LossUnderWay
  <2>2. mop = "none" /\ mpc = "idle" BY <1>1 DEF ConsumeFailed
  <2>3. PortTypeOK' BY <1>1 DEF ConsumeFailed
  <2>4. LossShape' BY <1>1 DEF ConsumeFailed
  <2>5. OpShape' BY <1>1 DEF ConsumeFailed
  <2>6. Published' BY <1>1, <2>1, <2>2 DEF ConsumeFailed
  <2> QED BY <2>3, <2>4, <2>5, <2>6
<1>2. CASE QueueMainEvent
  <2>1. PICK e \in event : tasks' = Append(tasks, e) BY <1>2 DEF QueueMainEvent
  <2>2. e \in Nat /\ e <= epoch BY <2>1
  <2>3. /\ Len(tasks') = Len(tasks) + 1 /\ tasks' \in Seq(Nat)
        /\ \A i \in 1 .. Len(tasks) : tasks'[i] = tasks[i]
        /\ tasks'[Len(tasks) + 1] = e
    BY <2>1, <2>2
  <2>4. \A i \in 1 .. Len(tasks') : tasks'[i] <= epoch BY <2>2, <2>3
  <2>5. Len(tasks) + 1 \in 1 .. Len(tasks') BY <2>3
  <2>6. LossUnderWay => LossUnderWay'
    BY <1>2, <2>1, <2>3, <2>5 DEF QueueMainEvent, LossUnderWay
  <2>7. ~config BY <2>1
  <2> QED BY <1>2, <2>3, <2>4, <2>6, <2>7 DEF QueueMainEvent
<1>3. CASE LoopFails BY <1>3 DEF LoopFails, LossUnderWay
<1> QED BY <1>1, <1>2, <1>3 DEF DataLoop

\* The host's calls leave the reports alone; the ones that negotiate find the
\* node stopped, the ones that stop it stop it in their first closure.
LEMMA PortCallsKeep ==
  ASSUME PublicationInv, StoppedOnly, MainCall
  PROVE  PublicationInv'
<1> USE DEF PublicationInv, PortTypeOK, LossShape, OpShape, Published,
            LossUnderWay, AllHostOps, Called, ClosureRuns,
            mainVars, dataVars
<1>1. CASE Start BY <1>1 DEF Start
<1>2. CASE PauseFence BY <1>2 DEF PauseFence
<1>3. CASE SuspendFence BY <1>3 DEF SuspendFence
<1>4. CASE ReleaseFence BY <1>4 DEF ReleaseFence
<1>5. CASE PropsRead BY <1>5 DEF PropsRead
<1>6. CASE mpc = "idle" /\ InstallFence BY <1>6 DEF InstallFence
<1>7. CASE CallRefused BY <1>7 DEF CallRefused, portVars
<1> QED BY <1>1, <1>2, <1>3, <1>4, <1>5, <1>6, <1>7 DEF MainCall

\* Delivering a report takes it from the head of the queue.
LEMMA LossKeeps ==
  ASSUME PublicationInv, DeliverLost
  PROVE  PublicationInv'
<1> USE DEF PublicationInv, PortTypeOK, LossShape, OpShape, Published,
            mainVars, dataVars
<1>1. /\ Len(tasks') = Len(tasks) - 1 /\ tasks' \in Seq(Nat)
      /\ \A i \in 1 .. Len(tasks') : tasks'[i] = tasks[i + 1] /\ i + 1 \in 1 .. Len(tasks)
      /\ 1 \in 1 .. Len(tasks) /\ Head(tasks) = tasks[1]
  BY DEF DeliverLost
<1>2. \A i \in 1 .. Len(tasks') : tasks'[i] <= epoch BY <1>1
<1>3. LossUnderWay' => LossUnderWay BY <1>1 DEF DeliverLost, LossUnderWay
<1>4. CASE Head(tasks) = epoch
  <2>1. LossUnderWay BY <1>1, <1>4 DEF LossUnderWay
  <2> QED BY <1>1, <1>2, <1>4, <2>1 DEF DeliverLost, LossIsCurrent
<1>5. CASE Head(tasks) # epoch
  <2>1. \A i \in 1 .. Len(tasks) : tasks[i] = epoch => i # 1 BY <1>1, <1>5
  <2>2. \A i \in 1 .. Len(tasks) : i # 1 => i - 1 \in 1 .. Len(tasks') /\ tasks[i] = tasks'[i - 1]
    BY <1>1
  <2>3. LossUnderWay => LossUnderWay'
    BY <2>1, <2>2 DEF DeliverLost, LossUnderWay
  <2> QED BY <1>1, <1>2, <1>3, <1>5, <2>3 DEF DeliverLost, LossIsCurrent
<1> QED BY <1>4, <1>5

\* The steps inside an operation; an advance outdates every report under way.
LEMMA PortStepsKeep ==
  ASSUME PublicationInv, StoppedOnly, MainStep
  PROVE  PublicationInv'
<1> USE DEF PublicationInv, PortTypeOK, LossShape, OpShape, Published,
            LossUnderWay, AllHostOps, ClosureRuns, Return,
            mainVars, dataVars
<1>1. CASE Unlease
  <2>1. CASE mop = "pause"
    <3>1. mpc' = "idle" /\ mop' = "none" /\ ~rate' BY <1>1, <2>1 DEF Unlease
    <3>2. LossUnderWay' <=> LossUnderWay BY <1>1 DEF Unlease
    <3>3. PortTypeOK' BY <1>1, <3>1 DEF Unlease
    <3>4. LossShape' BY <1>1 DEF Unlease
    <3>5. OpShape' BY <1>1, <2>1, <3>1 DEF Unlease
    <3>6. loopOk => Published'
      <4> HIDE DEF LossUnderWay
      <4> QED BY <1>1, <2>1, <3>1, <3>2 DEF Unlease
    <3> QED BY <1>1, <3>3, <3>4, <3>5, <3>6 DEF Unlease
  <2>2. CASE mop = "suspend"
    <3>1. mpc' = "publish" /\ mop' = mop /\ rate' = rate BY <1>1, <2>2 DEF Unlease
    <3>2. lease' \in BOOLEAN BY <1>1 DEF Unlease
    <3>3. PortTypeOK' BY <1>1, <3>1, <3>2 DEF Unlease
    <3>4. LossShape' BY <1>1 DEF Unlease
    <3>5. OpShape' BY <1>1, <2>2, <3>1 DEF Unlease
    <3>6. loopOk => Published' BY <1>1, <2>2, <3>1 DEF Unlease
    <3> QED BY <1>1, <3>3, <3>4, <3>5, <3>6 DEF Unlease
  <2>3. CASE mop = "release" BY <1>1, <2>3 DEF Unlease
  <2> QED BY <1>1, <2>1, <2>2, <2>3 DEF Unlease
<1>2. CASE mpc = "fence" /\ InstallFence BY <1>2 DEF InstallFence, Called
<1>3. CASE InstallSwap BY <1>3 DEF InstallSwap, AfterInstall
<1>4. CASE InstallRefused BY <1>4 DEF InstallRefused, AfterInstall
<1>5. CASE QueryRate
  <2>1. CASE loopOk
    <3>1. mpc' = "publish" /\ mop' = mop /\ rate' = config BY <1>5, <2>1 DEF QueryRate
    <3>2. PortTypeOK' BY <1>5, <3>1 DEF QueryRate
    <3>3. LossShape' BY <1>5 DEF QueryRate
    <3>4. mop # "suspend" BY <1>5 DEF QueryRate
    <3>5. OpShape' BY <1>5, <3>1, <3>4 DEF QueryRate
    <3>6. Published' BY <1>5, <3>1 DEF QueryRate
    <3> QED BY <1>5, <3>2, <3>3, <3>5, <3>6 DEF QueryRate
  <2>2. CASE ~loopOk
    <3>1. PortTypeOK' BY <1>5, <2>2 DEF QueryRate
    <3>2. LossShape' BY <1>5, <2>2 DEF QueryRate
    <3>3. OpShape' BY <1>5, <2>2 DEF QueryRate
    <3> QED BY <1>5, <2>2, <3>1, <3>2, <3>3 DEF QueryRate
  <2> QED BY <2>1, <2>2
<1>6. CASE Publish BY <1>6 DEF Publish
<1>7. CASE RecordLost BY <1>7 DEF RecordLost
<1>8. CASE AdvanceEpoch
  <2>1. ~LossUnderWay' BY <1>8 DEF AdvanceEpoch
  <2>2. LossShape' BY <1>8 DEF AdvanceEpoch
  <2>3. PortTypeOK'
    <3>1. epoch' \in Nat BY <1>8 DEF AdvanceEpoch
    <3>2. rate' \in BOOLEAN BY <1>8 DEF AdvanceEpoch
    <3> QED BY <1>8, <3>1, <3>2 DEF AdvanceEpoch
  <2>4. loopOk => Published' BY <1>8, <2>1 DEF AdvanceEpoch
  <2>5. OpShape' BY <1>8 DEF AdvanceEpoch
  <2> QED BY <1>8, <2>2, <2>3, <2>4, <2>5 DEF AdvanceEpoch
<1>9. CASE DeliverLost BY <1>9, LossKeeps
<1> QED BY <1>1, <1>2, <1>3, <1>4, <1>5, <1>6, <1>7, <1>8, <1>9 DEF MainStep

\* The agreement, with what it becomes inside each operation, is inductive.
THEOREM PublicationInvariance == StoppedOnly => (PortSpec => []PublicationInv)
<1> SUFFICES ASSUME StoppedOnly PROVE PortSpec => []PublicationInv OBVIOUS
<1>1. PortInit => PublicationInv BY InitPublication
<1>2. PublicationInv /\ [PortNext]_portVars => PublicationInv'
  <2> SUFFICES ASSUME PublicationInv, [PortNext]_portVars PROVE PublicationInv'
    OBVIOUS
  <2>1. CASE DataLoop BY <2>1, DataLoopKeeps
  <2>2. CASE MainCall BY <2>2, PortCallsKeep
  <2>3. CASE MainStep BY <2>3, PortStepsKeep
  <2>4. CASE UNCHANGED portVars
    BY <2>4 DEF portVars, PublicationInv, PortTypeOK, LossShape,
                OpShape, Published, LossUnderWay
  <2> QED BY <2>1, <2>2, <2>3, <2>4 DEF PortNext
<1> QED BY <1>1, <1>2, PTL DEF PortSpec

\* A host that negotiates on a stopped node is never left believing in a
\* format that a failed rebuild has cleared.
THEOREM DeadPortIsKnown == StoppedOnly => (PortSpec => []DeadIsKnown)
<1> SUFFICES ASSUME StoppedOnly PROVE PortSpec => []DeadIsKnown OBVIOUS
<1>1. PublicationInv => DeadIsKnown
  BY DEF PublicationInv, Published, DeadIsKnown
<1>2. PortSpec => []PublicationInv BY PublicationInvariance
<1> QED BY <1>1, <1>2, PTL

\* A late report never hides a format negotiated after the loss.
THEOREM LateLossIsHarmless == StoppedOnly => (PortSpec => []LostIsLost)
<1> SUFFICES ASSUME StoppedOnly PROVE PortSpec => []LostIsLost OBVIOUS
<1>1. PublicationInv => LostIsLost
  BY DEF PublicationInv, Published, LostIsLost
<1>2. PortSpec => []PublicationInv BY PublicationInvariance
<1> QED BY <1>1, <1>2, PTL
==============================================================================
