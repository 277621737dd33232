------------------------- MODULE GuestSession_proofs -------------------------
(***************************************************************************)
(* However many requests find the guest's cookies expired, one fetches new *)
(* ones; and every request has the token of its account, or none that was  *)
(* captured: for any requests, accounts and time.                          *)
(*                                                                         *)
(* Each fetch is paid for: by a request that asked for it, by the restored *)
(* session, or by the time at which the cookies it replaced had expired.   *)
(* While the cookies are fresh, or a fetch is about to store new ones, the *)
(* present time has been spent.                                            *)
(***************************************************************************)
EXTENDS GuestSession, FiniteSetTheorems, TLAPS

Fields == {"pc", "kind", "account", "session", "header", "force", "asked", "failed"}

RequestInv(r) ==
    /\ DOMAIN r = Fields
    /\ r.force => r.asked /\ r.pc \in {"lock", "locked", "store"}
    /\ r.pc = "idle" => ~r.asked
    /\ r.pc \in {"write", "store", "captured"} => "cna" \in DOMAIN r.header

\* A fetch that was asked for and has not been made.
Owed(r) == r.force /\ r.pc \in {"lock", "locked"}

Spent == {p \in Procs : proc[p].asked /\ ~Owed(proc[p])}

Storing == \E p \in Procs : proc[p].pc = "store"

Credit == IF Fresh \/ Storing THEN 1 ELSE 0

Restored == IF SavedGuest THEN IF proc[Restorer].pc = "done" THEN 2 ELSE 1 ELSE 0

Paid == visits <= clock + Cardinality(Spent) + Restored + Credit

Shape ==
    /\ clock \in Nat /\ visits \in Nat
    /\ DOMAIN proc = All
    /\ \A p \in Procs : RequestInv(proc[p])
    /\ "pc" \in DOMAIN proc[Restorer]
    /\ proc[Restorer].pc = "restoring" => SavedGuest
    /\ \A p \in Procs : proc[p].pc \in {"locked", "store"} => guestMu = p

Inv == Shape /\ Paid

LEMMA SpentFinite == IsFiniteSet(Spent) /\ Cardinality(Spent) \in Nat
BY ProcsAssumption, FS_Subset, FS_CardinalityType DEF Spent

\* What Spent is after a step of one request.
LEMMA SpentStep ==
    ASSUME NEW p \in Procs, \A q \in Procs \ {p} : proc'[q] = proc[q]
    PROVE  /\ (p \in Spent <=> p \in Spent') => Cardinality(Spent') = Cardinality(Spent)
           /\ p \notin Spent /\ p \in Spent' => Cardinality(Spent') = Cardinality(Spent) + 1
<1>1. \A q \in Procs \ {p} : q \in Spent <=> q \in Spent'
  BY DEF Spent, Owed
<1>2. Spent \subseteq Procs /\ Spent' \subseteq Procs
  BY DEF Spent
<1>3. ASSUME p \in Spent <=> p \in Spent'
      PROVE  Cardinality(Spent') = Cardinality(Spent)
  <2>1. Spent' = Spent
    BY <1>1, <1>2, <1>3
  <2>. QED  BY <2>1
<1>4. ASSUME p \notin Spent, p \in Spent'
      PROVE  Cardinality(Spent') = Cardinality(Spent) + 1
  <2>1. Spent' = Spent \cup {p}
    BY <1>1, <1>2, <1>4
  <2>. QED  BY <2>1, <1>4, SpentFinite, FS_AddElement
<1>. QED  BY <1>3, <1>4

\* A step of one request that fetches nothing, does not count as a fetch, and leaves the
\* cookies fresh if they were.
LEMMA QuietStep ==
    ASSUME Inv, NEW p \in Procs, Shape',
           clock' = clock, visits' = visits, config' = config,
           \A q \in All \ {p} : proc'[q] = proc[q],
           p \in Spent <=> p \in Spent',
           Fresh \/ Storing => Fresh' \/ Storing'
    PROVE  Inv'
<1>1. Cardinality(Spent') = Cardinality(Spent)
  BY SpentStep DEF All
<1>2. Restored' = Restored
  BY RestorerAssumption DEF Restored, SavedGuest, All
<1>3. Credit' >= Credit /\ Credit \in Nat /\ Credit' \in Nat
  BY DEF Credit
<1>4. clock + Cardinality(Spent) + Restored \in Nat
  BY SpentFinite DEF Inv, Shape, Restored
<1>. QED  BY <1>1, <1>2, <1>3, <1>4 DEF Inv, Paid, Shape

\* A fetch, that was asked for or because the cookies have expired.
LEMMA FetchStep ==
    ASSUME Inv, NEW p \in Procs, Shape',
           clock' = clock, visits' = visits + 1, config' = config,
           \A q \in All \ {p} : proc'[q] = proc[q],
           \/ p \notin Spent /\ p \in Spent' /\ (Fresh \/ Storing => Fresh' \/ Storing')
           \/ (p \in Spent <=> p \in Spent') /\ ~Fresh /\ ~Storing /\ (Fresh' \/ Storing')
    PROVE  Inv'
<1>1. Restored' = Restored
  BY RestorerAssumption DEF Restored, SavedGuest, All
<1>2. \/ Cardinality(Spent') = Cardinality(Spent) + 1 /\ Credit' >= Credit
      \/ Cardinality(Spent') = Cardinality(Spent) /\ Credit' = Credit + 1
  BY SpentStep DEF All, Credit
<1>3. Credit \in Nat /\ Credit' \in Nat
  BY DEF Credit
<1>4. clock \in Nat /\ Cardinality(Spent) \in Nat /\ Restored \in Nat /\ visits \in Nat
  BY SpentFinite DEF Inv, Shape, Restored
<1>. QED  BY <1>1, <1>2, <1>3, <1>4 DEF Inv, Paid

\* The state after a step of one request.
LEMMA ShapeStep ==
    ASSUME Shape, NEW p \in Procs, NEW r, RequestInv(r), proc' = [proc EXCEPT ![p] = r],
           config' = config, clock' \in Nat, visits' \in Nat,
           r.pc \in {"locked", "store"} => guestMu' = p,
           \A q \in Procs \ {p} : proc[q].pc \in {"locked", "store"} => guestMu' = q
    PROVE  /\ Shape'
           /\ proc'[p] = r /\ \A q \in All \ {p} : proc'[q] = proc[q]
<1>1. proc'[p] = r /\ \A q \in All \ {p} : proc'[q] = proc[q]
  BY DEF Shape, All
<1>2. \A q \in Procs : RequestInv(proc'[q])
  BY <1>1 DEF Shape, All
<1>3. /\ "pc" \in DOMAIN proc'[Restorer]
      /\ proc'[Restorer].pc = "restoring" => SavedGuest'
  BY <1>1, RestorerAssumption DEF Shape, All, SavedGuest
<1>4. \A q \in Procs : proc'[q].pc \in {"locked", "store"} => guestMu' = q
  BY <1>1 DEF All
<1>5. DOMAIN proc' = All
  BY DEF Shape
<1>. QED  BY <1>1, <1>2, <1>3, <1>4, <1>5 DEF Shape

LEMMA DoneShape ==
    ASSUME NEW r
    PROVE  RequestInv(Finished(r)) /\ Finished(r).pc = "done" /\ Finished(r).asked = r.asked
           /\ ~Finished(r).force
BY DEF RequestInv, Finished, Idle, Fields

\* Where ensureGuestCookieHeader returns to.
Returned(r, header) ==
    IF r.kind = "refresh" THEN Finished(r)
    ELSE IF r.force THEN [r EXCEPT !.pc = "ensure", !.force = FALSE]
    ELSE [r EXCEPT !.pc = "send", !.header = header]

LEMMA ReturnedShape ==
    ASSUME NEW r, NEW h, RequestInv(r)
    PROVE  /\ RequestInv(Returned(r, h)) /\ Returned(r, h).asked = r.asked
           /\ Returned(r, h).pc \in {"done", "ensure", "send"} /\ ~Returned(r, h).force
<1>1. CASE r.kind = "refresh"
  BY <1>1, DoneShape DEF Returned
<1>2. CASE r.kind # "refresh" /\ r.force
  BY <1>2 DEF Returned, RequestInv, Fields
<1>3. CASE r.kind # "refresh" /\ ~r.force
  BY <1>3 DEF Returned, RequestInv, Fields
<1>. QED  BY <1>1, <1>2, <1>3

\* A step of one request as its record says.
LEMMA QuietMove ==
    ASSUME Inv, NEW p \in Procs, NEW r, RequestInv(r), proc' = [proc EXCEPT ![p] = r],
           UNCHANGED <<config, clock, visits>>,
           guest' = guest \/ Fresh',
           (r.asked /\ ~Owed(r)) <=> (proc[p].asked /\ ~Owed(proc[p])),
           proc[p].pc = "store" => Fresh',
           r.pc = "store" => proc[p].pc = "store",
           r.pc \in {"locked", "store"} => guestMu' = p,
           guestMu' # guestMu => guestMu \in {p, None}
    PROVE  Inv'
<1>1. \A q \in Procs \ {p} : proc[q].pc \in {"locked", "store"} => guestMu' = q
  BY ProcsAssumption DEF Inv, Shape
<1>2. Shape' /\ proc'[p] = r /\ \A q \in All \ {p} : proc'[q] = proc[q]
  BY <1>1, ShapeStep DEF Inv, Shape
<1>3. p \in Spent <=> p \in Spent'
  BY <1>2 DEF Spent
<1>4. Fresh \/ Storing => Fresh' \/ Storing'
  <2>1. CASE Fresh
    BY <2>1 DEF Fresh
  <2>2. CASE Storing
    <3>1. PICK q \in Procs : proc[q].pc = "store"
      BY <2>2 DEF Storing
    <3>2. CASE q = p
      BY <3>1, <3>2
    <3>3. CASE q # p
      BY <3>1, <3>3, <1>2 DEF Storing, All
    <3>. QED  BY <3>2, <3>3
  <2>. QED  BY <2>1, <2>2
<1>. QED  BY <1>2, <1>3, <1>4, QuietStep

LEMMA FetchMove ==
    ASSUME Inv, NEW p \in Procs, NEW r, RequestInv(r), proc' = [proc EXCEPT ![p] = r],
           UNCHANGED <<config, clock>>, visits' = visits + 1,
           r.pc \in {"locked", "store"} => guestMu' = p,
           guestMu' # guestMu => guestMu \in {p, None},
           \/ /\ ~(proc[p].asked /\ ~Owed(proc[p])) /\ r.asked /\ ~Owed(r)
              /\ proc[p].pc # "store" /\ (guest' = guest \/ Fresh')
           \/ /\ (r.asked /\ ~Owed(r)) <=> (proc[p].asked /\ ~Owed(proc[p]))
              /\ proc[p].pc = "locked" /\ ~Fresh /\ (Fresh' \/ r.pc = "store")
    PROVE  Inv'
<1>1. \A q \in Procs \ {p} : proc[q].pc \in {"locked", "store"} => guestMu' = q
  BY ProcsAssumption DEF Inv, Shape
<1>2. visits' \in Nat /\ clock' \in Nat
  BY DEF Inv, Shape
<1>3. Shape' /\ proc'[p] = r /\ \A q \in All \ {p} : proc'[q] = proc[q]
  BY <1>1, <1>2, ShapeStep DEF Inv
<1>4. CASE /\ ~(proc[p].asked /\ ~Owed(proc[p])) /\ r.asked /\ ~Owed(r)
           /\ proc[p].pc # "store" /\ (guest' = guest \/ Fresh')
  <2>1. p \notin Spent /\ p \in Spent'
    BY <1>3, <1>4 DEF Spent
  <2>2. Fresh => Fresh'
    BY <1>4 DEF Fresh
  <2>3. Storing => Storing'
    BY <1>3, <1>4 DEF Storing, All
  <2>. QED  BY <1>3, <2>1, <2>2, <2>3, FetchStep
<1>5. CASE /\ (r.asked /\ ~Owed(r)) <=> (proc[p].asked /\ ~Owed(proc[p]))
           /\ proc[p].pc = "locked" /\ ~Fresh /\ (Fresh' \/ r.pc = "store")
  <2>1. p \in Spent <=> p \in Spent'
    BY <1>3, <1>5 DEF Spent
  <2>2. ~Storing
    BY <1>5 DEF Storing, Inv, Shape
  <2>3. Fresh' \/ Storing'
    BY <1>3, <1>5 DEF Storing
  <2>. QED  BY <1>3, <1>5, <2>1, <2>2, <2>3, FetchStep
<1>. QED  BY <1>4, <1>5

-----------------------------------------------------------------------------
(* The steps.                                                               *)

LEMMA CnaIsACookie == ASSUME NEW c, "cna" \in DOMAIN c PROVE c # NoCookie
BY DEF NoCookie

LEMMA CnaKept ==
    ASSUME NEW c, NEW d
    PROVE  /\ "cna" \in DOMAIN Merged(Merged(MadeUp, c), d)
           /\ \A n : "cna" \in DOMAIN Visited(n)
BY DEF MadeUp, Visited, Merged

LEMMA RequestKeeps ==
    ASSUME Inv, NEW p \in Procs, NEW kind, NEW a, Request(p, kind, a)
    PROVE  Inv'
<1>. DEFINE r == [Idle EXCEPT !.pc = IF kind = "signin" THEN "send" ELSE "ensure",
                       !.kind = kind, !.account = a,
                       !.session = SessionCookie(SessionKey(kind, a))]
<1>1. RequestInv(r) /\ r.pc \in {"send", "ensure"} /\ ~r.asked
  BY DEF RequestInv, Idle, Fields
<1>2. proc' = [proc EXCEPT ![p] = r] /\ proc[p].pc = "idle"
  BY DEF Request, At
<1>. HIDE DEF r
<1>3. ~proc[p].asked
  BY <1>2 DEF Inv, Shape, RequestInv
<1>. QED  BY <1>1, <1>2, <1>3, QuietMove DEF Request, Owed

LEMMA RefreshGuestKeeps ==
    ASSUME Inv, NEW p \in Procs, RefreshGuest(p)
    PROVE  Inv'
<1>. DEFINE r == [Idle EXCEPT !.pc = "lock", !.kind = "refresh", !.force = TRUE, !.asked = TRUE]
<1>1. RequestInv(r) /\ r.pc = "lock" /\ Owed(r)
  BY DEF RequestInv, Idle, Fields, Owed
<1>2. proc' = [proc EXCEPT ![p] = r] /\ proc[p].pc = "idle"
  BY DEF RefreshGuest, At
<1>. HIDE DEF r
<1>3. ~proc[p].asked
  BY <1>2 DEF Inv, Shape, RequestInv
<1>. QED  BY <1>1, <1>2, <1>3, QuietMove DEF RefreshGuest

\* A step that changes pc only.
LEMMA GotoShape ==
    ASSUME NEW r, NEW pc, RequestInv(r), pc \in {"lock", "locked"} \/ (~r.force /\ pc = "session")
    PROVE  LET s == [r EXCEPT !.pc = pc] IN
           RequestInv(s) /\ s.pc = pc /\ s.asked = r.asked /\ s.force = r.force
BY DEF RequestInv, Fields

LEMMA EnsureKeeps ==
    ASSUME Inv, NEW p \in Procs, Ensure(p)
    PROVE  Inv'
<1>1. RequestInv(proc[p]) /\ proc[p].pc = "ensure" /\ ~proc[p].force /\ ~Owed(proc[p])
  BY DEF Inv, Shape, Ensure, At, RequestInv, Owed
<1>4. UNCHANGED <<config, clock, visits, guest, guestMu>>
  BY DEF Ensure
<1>2. CASE Fresh
  <2>1. proc' = [proc EXCEPT ![p] = Returned(proc[p], guest.cookie)]
    BY <1>2 DEF Ensure, Ensured, Returned
  <2>. DEFINE r == Returned(proc[p], guest.cookie)
  <2>2. RequestInv(r) /\ r.pc \in {"done", "ensure", "send"} /\ r.asked = proc[p].asked /\ ~Owed(r)
    BY <1>1, ReturnedShape DEF Owed
  <2>3. proc' = [proc EXCEPT ![p] = r]
    BY <2>1
  <2>. HIDE DEF r
  <2>. QED  BY <1>1, <1>4, <2>2, <2>3, QuietMove
<1>3. CASE ~Fresh
  <2>1. proc' = [proc EXCEPT ![p] = [proc[p] EXCEPT !.pc = "lock"]]
    BY <1>3 DEF Ensure, Goto
  <2>. DEFINE r == [proc[p] EXCEPT !.pc = "lock"]
  <2>2. RequestInv(r) /\ r.pc = "lock" /\ r.asked = proc[p].asked /\ ~Owed(r)
    BY <1>1, GotoShape DEF Owed
  <2>3. proc' = [proc EXCEPT ![p] = r]
    BY <2>1
  <2>. HIDE DEF r
  <2>. QED  BY <1>1, <1>4, <2>2, <2>3, QuietMove
<1>. QED  BY <1>2, <1>3

LEMMA LockKeeps ==
    ASSUME Inv, NEW p \in Procs, Lock(p)
    PROVE  Inv'
<1>1. RequestInv(proc[p]) /\ proc[p].pc = "lock"
  BY DEF Inv, Shape, Lock, At
<1>2. proc' = [proc EXCEPT ![p] = [proc[p] EXCEPT !.pc = "locked"]]
  BY DEF Lock, Goto
<1>. DEFINE r == [proc[p] EXCEPT !.pc = "locked"]
<1>3. /\ RequestInv(r) /\ r.pc = "locked" /\ r.asked = proc[p].asked
      /\ Owed(r) <=> Owed(proc[p])
  BY <1>1, GotoShape DEF Owed
<1>4. UNCHANGED <<config, clock, visits, guest>> /\ guestMu = None /\ guestMu' = p
  BY DEF Lock
<1>. HIDE DEF r
<1>. QED  BY <1>1, <1>2, <1>3, <1>4, QuietMove DEF r

LEMMA UseRefreshedKeeps ==
    ASSUME Inv, NEW p \in Procs, UseRefreshed(p)
    PROVE  Inv'
<1>1. RequestInv(proc[p]) /\ proc[p].pc = "locked" /\ ~proc[p].force /\ guestMu = p
  BY DEF Inv, Shape, UseRefreshed, At, RefreshedMeanwhile
<1>2. proc' = [proc EXCEPT ![p] = Returned(proc[p], guest.cookie)]
  BY DEF UseRefreshed, Ensured, Returned
<1>. QED  BY <1>1, <1>2, ReturnedShape, QuietMove DEF UseRefreshed, Owed

\* Under the lock a fetch was asked for, or the cookies are not fresh.
LEMMA FetchPaid ==
    ASSUME Inv, NEW p \in Procs, proc[p].pc = "locked", ~RefreshedMeanwhile(p)
    PROVE  /\ RequestInv(proc[p]) /\ guestMu = p
           /\ (Owed(proc[p]) /\ proc[p].asked) \/ (~proc[p].force /\ ~Fresh)
BY DEF Inv, Shape, RequestInv, RefreshedMeanwhile, Owed

LEMMA CaptureKeeps ==
    ASSUME Inv, NEW p \in Procs, Capture(p)
    PROVE  Inv'
<1>. DEFINE r == [proc[p] EXCEPT !.pc = "store", !.header = Visited(visits + 1)]
<1>1. /\ RequestInv(proc[p]) /\ guestMu = p /\ proc[p].pc = "locked"
      /\ (Owed(proc[p]) /\ proc[p].asked) \/ (~proc[p].force /\ ~Fresh)
  BY FetchPaid DEF Capture, At
<1>2. RequestInv(r) /\ r.pc = "store" /\ r.asked = proc[p].asked /\ ~Owed(r)
  BY <1>1, CnaKept DEF RequestInv, Fields, Owed
<1>3. proc' = [proc EXCEPT ![p] = r]
  BY DEF Capture
<1>. HIDE DEF r
<1>. QED  BY <1>1, <1>2, <1>3, FetchMove DEF Capture, Owed

LEMMA BootstrapKeeps ==
    ASSUME Inv, NEW p \in Procs, Bootstrap(p)
    PROVE  Inv'
<1>. DEFINE r == Returned(proc[p], guest'.cookie)
<1>1. /\ RequestInv(proc[p]) /\ guestMu = p /\ proc[p].pc = "locked"
      /\ (Owed(proc[p]) /\ proc[p].asked) \/ (~proc[p].force /\ ~Fresh)
  BY FetchPaid DEF Bootstrap, At
<1>2. proc' = [proc EXCEPT ![p] = r]
  BY DEF Bootstrap, Ensured, Returned
<1>3. RequestInv(r) /\ r.pc \in {"done", "ensure", "send"} /\ r.asked = proc[p].asked /\ ~Owed(r)
  BY <1>1, ReturnedShape DEF Owed
<1>4. Fresh'
  BY CnaKept, CnaIsACookie DEF Bootstrap, Fresh
<1>. HIDE DEF r
<1>. QED  BY <1>1, <1>2, <1>3, <1>4, FetchMove DEF Bootstrap, Owed

LEMMA StoreKeeps ==
    ASSUME Inv, NEW p \in Procs, Store(p)
    PROVE  Inv'
<1>1. RequestInv(proc[p]) /\ proc[p].pc = "store" /\ guestMu = p
  BY DEF Inv, Shape, Store, At
<1>2. proc' = [proc EXCEPT ![p] = Returned(proc[p], proc[p].header)]
  BY DEF Store, Ensured, Returned
<1>3. Fresh'
  BY <1>1, CnaIsACookie DEF Store, Fresh, RequestInv
<1>. DEFINE r == Returned(proc[p], proc[p].header)
<1>4. RequestInv(r) /\ r.asked = proc[p].asked /\ r.pc \in {"done", "ensure", "send"}
  BY <1>1, ReturnedShape
<1>5. UNCHANGED <<config, clock, visits>> /\ guestMu' = None
  BY DEF Store
<1>6. proc' = [proc EXCEPT ![p] = r]
  BY <1>2
<1>. HIDE DEF r
<1>7. (r.asked /\ ~Owed(r)) <=> (proc[p].asked /\ ~Owed(proc[p]))
  BY <1>1, <1>4 DEF Owed
<1>. QED  BY <1>1, <1>3, <1>4, <1>5, <1>6, <1>7, QuietMove

\* What becomes of a request after an attempt.
LEMMA FailureShape ==
    ASSUME NEW p, RequestInv(proc[p]), ~proc[p].force
    PROVE  LET r == AfterFailure(p) IN
           /\ RequestInv(r) /\ r.pc \in {"lock", "done"}
           /\ (r.asked /\ ~Owed(r)) <=> proc[p].asked
<1>1. CASE Anonymous(p) /\ ~proc[p].asked
  BY <1>1 DEF AfterFailure, RequestInv, Fields, Owed
<1>2. CASE ~(Anonymous(p) /\ ~proc[p].asked)
  BY <1>2, DoneShape DEF AfterFailure, Owed
<1>. QED  BY <1>1, <1>2

\* A step of a request at pc that neither is nor becomes a fetch, and leaves the cookies.
LEMMA PlainMove ==
    ASSUME Inv, NEW p \in Procs, NEW r, RequestInv(r), proc' = [proc EXCEPT ![p] = r],
           UNCHANGED <<config, clock, visits, guestMu>>, guest' = guest \/ Fresh',
           proc[p].pc \notin {"lock", "locked", "store"}, r.pc \notin {"locked", "store"},
           (r.asked /\ ~Owed(r)) <=> proc[p].asked
    PROVE  Inv'
<1>1. ~Owed(proc[p])
  BY DEF Owed
<1>. QED  BY <1>1, QuietMove

LEMMA SendKeeps ==
    ASSUME Inv, NEW p \in Procs, Send(p)
    PROVE  Inv'
<1>1. RequestInv(proc[p]) /\ proc[p].pc = "send" /\ ~proc[p].force
  BY DEF Inv, Shape, Send, At, RequestInv
<1>2. UNCHANGED <<config, clock, visits, guest, guestMu>>
  BY DEF Send
<1>3. CASE proc' = [proc EXCEPT ![p] = AfterFailure(p)]
  BY <1>1, <1>2, <1>3, FailureShape, PlainMove
<1>4. ASSUME NEW ok \in BOOLEAN, ~Anonymous(p), proc' = [proc EXCEPT ![p] = Finished(proc[p])]
      PROVE  Inv'
  BY <1>1, <1>2, <1>4, DoneShape, PlainMove DEF Owed
<1>5. ASSUME NEW ok \in BOOLEAN, Anonymous(p),
             proc' = [proc EXCEPT ![p] = [proc[p] EXCEPT !.pc = "read", !.failed = ~ok,
                                             !.session = NoCookie, !.header = NoCookie]]
      PROVE  Inv'
  <2>. DEFINE r == [proc[p] EXCEPT !.pc = "read", !.failed = ~ok,
                                   !.session = NoCookie, !.header = NoCookie]
  <2>1. RequestInv(r) /\ r.pc = "read" /\ r.asked = proc[p].asked /\ ~Owed(r)
    BY <1>1 DEF RequestInv, Fields, Owed
  <2>2. proc' = [proc EXCEPT ![p] = r]
    BY <1>5
  <2>. HIDE DEF r
  <2>. QED  BY <1>1, <1>2, <2>1, <2>2, PlainMove
<1>. QED  BY <1>3, <1>4, <1>5 DEF Send

LEMMA RememberReadKeeps ==
    ASSUME Inv, NEW p \in Procs, NEW token, RememberRead(p, token)
    PROVE  Inv'
<1>. DEFINE h == Merged(Merged(MadeUp, guest.cookie), token)
            r == [proc[p] EXCEPT !.pc = "write", !.header = h]
<1>1. RequestInv(proc[p]) /\ proc[p].pc = "read" /\ ~proc[p].force
  BY DEF Inv, Shape, RememberRead, At, RequestInv
<1>2. UNCHANGED <<config, clock, visits, guest, guestMu>> /\ proc' = [proc EXCEPT ![p] = r]
  BY DEF RememberRead
<1>3. "cna" \in DOMAIN h
  BY CnaKept
<1>. HIDE DEF h
<1>4. RequestInv(r) /\ r.pc = "write" /\ r.asked = proc[p].asked /\ ~Owed(r)
  BY <1>1, <1>3 DEF RequestInv, Fields, Owed
<1>. HIDE DEF r
<1>. QED  BY <1>1, <1>2, <1>4, PlainMove

LEMMA RememberNothingKeeps ==
    ASSUME Inv, NEW p \in Procs, RememberNothing(p)
    PROVE  Inv'
<1>1. RequestInv(proc[p]) /\ proc[p].pc = "read" /\ ~proc[p].force
  BY DEF Inv, Shape, RememberNothing, At, RequestInv
<1>2. UNCHANGED <<config, clock, visits, guest, guestMu>>
  BY DEF RememberNothing
<1>3. CASE proc' = [proc EXCEPT ![p] = AfterFailure(p)]
  BY <1>1, <1>2, <1>3, FailureShape, PlainMove
<1>4. CASE proc' = [proc EXCEPT ![p] = Finished(proc[p])]
  BY <1>1, <1>2, <1>4, DoneShape, PlainMove DEF Owed
<1>. QED  BY <1>3, <1>4 DEF RememberNothing

LEMMA RememberWriteKeeps ==
    ASSUME Inv, NEW p \in Procs, RememberWrite(p)
    PROVE  Inv'
<1>. DEFINE r == [proc[p] EXCEPT !.pc = "session"]
<1>1. RequestInv(proc[p]) /\ proc[p].pc = "write" /\ ~proc[p].force
  BY DEF Inv, Shape, RememberWrite, At, RequestInv
<1>2. UNCHANGED <<config, clock, visits, guestMu>> /\ proc' = [proc EXCEPT ![p] = r]
  BY DEF RememberWrite, Goto
<1>3. Fresh'
  BY <1>1, CnaIsACookie DEF RememberWrite, Fresh, RequestInv
<1>4. RequestInv(r) /\ r.pc = "session" /\ r.asked = proc[p].asked /\ ~Owed(r)
  BY <1>1, GotoShape DEF Owed
<1>. HIDE DEF r
<1>. QED  BY <1>1, <1>2, <1>3, <1>4, PlainMove

LEMMA RememberSessionKeeps ==
    ASSUME Inv, NEW p \in Procs, RememberSession(p)
    PROVE  Inv'
<1>1. RequestInv(proc[p]) /\ proc[p].pc = "session" /\ ~proc[p].force
  BY DEF Inv, Shape, RememberSession, At, RequestInv
<1>2. UNCHANGED <<config, clock, visits, guest, guestMu>>
  BY DEF RememberSession
<1>3. CASE proc' = [proc EXCEPT ![p] = AfterFailure(p)]
  BY <1>1, <1>2, <1>3, FailureShape, PlainMove
<1>4. CASE proc' = [proc EXCEPT ![p] = Finished(proc[p])]
  BY <1>1, <1>2, <1>4, DoneShape, PlainMove DEF Owed
<1>. QED  BY <1>3, <1>4 DEF RememberSession

LEMMA CaptureGuestKeeps ==
    ASSUME Inv, NEW p \in Procs, CaptureGuest(p)
    PROVE  Inv'
<1>. DEFINE r == [Idle EXCEPT !.pc = "captured", !.kind = "capture", !.asked = TRUE,
                              !.header = Visited(visits + 1)]
<1>1. RequestInv(proc[p]) /\ proc[p].pc = "idle" /\ ~proc[p].asked
  BY DEF Inv, Shape, CaptureGuest, At, RequestInv
<1>2. /\ UNCHANGED <<config, clock, guest, guestMu>> /\ visits' = visits + 1
      /\ proc' = [proc EXCEPT ![p] = r]
  BY DEF CaptureGuest
<1>3. RequestInv(r) /\ r.pc = "captured" /\ r.asked /\ ~Owed(r)
  BY CnaKept DEF RequestInv, Idle, Fields, Owed
<1>. HIDE DEF r
<1>. QED  BY <1>1, <1>2, <1>3, FetchMove

LEMMA CaptureGuestSetKeeps ==
    ASSUME Inv, NEW p \in Procs, CaptureGuestSet(p)
    PROVE  Inv'
<1>1. RequestInv(proc[p]) /\ proc[p].pc = "captured" /\ ~proc[p].force
  BY DEF Inv, Shape, CaptureGuestSet, At, RequestInv
<1>2. UNCHANGED <<config, clock, visits, guestMu>> /\ proc' = [proc EXCEPT ![p] = Finished(proc[p])]
  BY DEF CaptureGuestSet
<1>3. Fresh'
  BY <1>1, CnaIsACookie DEF CaptureGuestSet, Fresh, RequestInv
<1>. QED  BY <1>1, <1>2, <1>3, DoneShape, PlainMove DEF Owed

\* The restorer's steps and the clock's.
LEMMA RestoreKeeps ==
    ASSUME Inv, Restore \/ RestoreGuest \/ Tick
    PROVE  Inv'
<1>1. /\ \A p \in Procs : proc'[p] = proc[p]
      /\ DOMAIN proc' = All /\ "pc" \in DOMAIN proc'[Restorer]
      /\ proc'[Restorer].pc = "restoring" => SavedGuest'
      /\ UNCHANGED <<config, visits, guestMu>> /\ clock' \in Nat
  BY RestorerAssumption DEF Inv, Shape, Restore, RestoreGuest, Tick, Goto, All, SavedGuest
<1>2. Shape'
  BY <1>1 DEF Inv, Shape
<1>3. Spent' = Spent /\ Storing' = Storing
  BY <1>1 DEF Spent, Storing
<1>4. clock + Restored + Credit <= clock' + Restored' + Credit'
  <2>1. /\ clock \in Int /\ clock' \in Int /\ Credit \in Int /\ Credit' \in Int /\ Restored \in Int /\ Restored' \in Int
        /\ 0 <= Credit /\ Credit <= 1 /\ 0 <= Credit' /\ Credit' <= 1
    BY <1>1 DEF Inv, Shape, Credit, Restored
  <2>2. CASE Restore
    <3>1. Credit' = Credit /\ clock' = clock
      BY <2>2, <1>3 DEF Restore, Credit, Fresh
    <3>2. proc[Restorer].pc # "done" /\ SavedGuest' = SavedGuest
      BY <2>2 DEF Restore, At, SavedGuest
    <3>3. Restored <= Restored'
      BY <3>2 DEF Restored
    <3>. QED  BY <3>1, <3>3, <2>1 DEF Credit, Restored
  <2>3. CASE RestoreGuest
    <3>1. clock' = clock /\ proc[Restorer].pc = "restoring" /\ proc'[Restorer].pc = "done"
      BY <2>3 DEF RestoreGuest, At, Goto, Inv, Shape, All
    <3>2. Restored = 1 /\ Restored' = 2
      BY <3>1, <1>1 DEF Restored, SavedGuest, Inv, Shape
    <3>. QED  BY <3>1, <3>2, <2>1 DEF Credit, Restored
  <2>4. CASE Tick
    <3>1. clock' = clock + 1 /\ Restored' = Restored
      BY <2>4 DEF Tick, Restored, SavedGuest
    <3>. QED  BY <3>1, <2>1 DEF Credit, Restored
  <2>. QED  BY <2>2, <2>3, <2>4
<1>5. /\ clock \in Nat /\ visits \in Nat /\ Cardinality(Spent) \in Nat
      /\ Restored \in Nat /\ Restored' \in Nat /\ Credit \in Nat /\ Credit' \in Nat
  BY SpentFinite DEF Inv, Shape, Restored, Credit
<1>6. PICK s \in Nat, c \in Nat, d \in Nat, r \in Nat, q \in Nat, k \in Nat, l \in Nat :
         /\ s = Cardinality(Spent) /\ c = clock /\ d = clock'
         /\ r = Restored /\ q = Restored' /\ k = Credit /\ l = Credit'
  BY <1>1, <1>5
<1>7. visits \in Nat /\ visits <= c + s + r + k /\ c + r + k <= d + q + l
  BY <1>4, <1>5, <1>6 DEF Inv, Paid
<1>8. visits <= d + s + q + l
  BY <1>7
<1>9. Paid'
  BY <1>1, <1>3, <1>6, <1>8 DEF Paid
<1>. QED  BY <1>2, <1>9 DEF Inv

LEMMA Starts == Init => Inv
<1>1. SUFFICES ASSUME Init PROVE Inv
  OBVIOUS
<1>2. RequestInv(Idle) /\ ~Idle.asked /\ Idle.pc = "idle" /\ "pc" \in DOMAIN Idle
  BY DEF RequestInv, Idle, Fields
<1>3. \A p \in All : proc[p] = Idle
  BY <1>1 DEF Init
<1>4. Shape
  BY <1>1, <1>2, <1>3 DEF Init, Shape, All
<1>5. Spent = {}
  BY <1>2, <1>3 DEF Spent, All
<1>6. Cardinality(Spent) = 0
  BY <1>5, FS_EmptySet
<1>7. Restored = IF SavedGuest THEN 1 ELSE 0
  BY <1>2, <1>3 DEF Restored, All
<1>8. visits = (IF SavedGuest THEN 1 ELSE 0) /\ clock = 0 /\ Credit \in Nat
  BY <1>1 DEF Init, Credit
<1>9. Paid
  BY <1>6, <1>7, <1>8 DEF Paid
<1>. QED  BY <1>4, <1>9 DEF Inv

LEMMA Steps == Inv /\ [Next]_vars => Inv'
<1>1. SUFFICES ASSUME Inv, [Next]_vars PROVE Inv'
  OBVIOUS
<1>2. ASSUME NEW p \in Procs, Begin(p) PROVE Inv'
  BY <1>1, <1>2, RequestKeeps, RefreshGuestKeeps, CaptureGuestKeeps DEF Begin
<1>3. ASSUME NEW p \in Procs, Step(p) PROVE Inv'
  BY <1>1, <1>3, EnsureKeeps, LockKeeps, UseRefreshedKeeps, CaptureKeeps, StoreKeeps,
     BootstrapKeeps, SendKeeps, RememberReadKeeps, RememberNothingKeeps, RememberWriteKeeps,
     RememberSessionKeeps, CaptureGuestSetKeeps DEF Step
<1>4. ASSUME Restore \/ RestoreGuest \/ Tick PROVE Inv'
  BY <1>1, <1>4, RestoreKeeps
<1>5. CASE UNCHANGED vars
  BY <1>1, <1>5 DEF vars, Inv, Shape, RequestInv, Paid, Spent, Owed, Restored, Credit, Fresh,
                    Storing, SavedGuest
<1>. QED  BY <1>1, <1>2, <1>3, <1>4, <1>5 DEF Next

\* guest.go, ensureGuestCookieHeader: of the requests that find the cookies expired one
\* fetches new ones; the others find them refreshed under the lock.
THEOREM FetchedOnce == Spec => []OneFetchPerExpiry
<1>1. ASSUME Inv PROVE OneFetchPerExpiry
  <2>. DEFINE Asked == {p \in Procs : proc[p].asked}
  <2>1. IsFiniteSet(Asked)
    BY ProcsAssumption, FS_Subset
  <2>2. Spent \in SUBSET Asked
    BY DEF Spent
  <2>3. Cardinality(Spent) <= Cardinality(Asked)
    BY <2>1, <2>2, FS_Subset
  <2>4. Cardinality(Spent) \in Nat /\ Cardinality(Asked) \in Nat
    BY <2>1, SpentFinite, FS_CardinalityType
  <2>5. Restored <= (IF SavedGuest THEN 2 ELSE 0) /\ Restored \in Nat
    BY DEF Restored
  <2>6. Credit <= 1 /\ Credit \in Nat
    BY DEF Credit
  <2>7. visits <= clock + Cardinality(Spent) + Restored + Credit /\ clock \in Nat /\ visits \in Nat
    BY <1>1 DEF Inv, Paid, Shape
  <2>. HIDE DEF Asked
  <2>8. visits <= 1 + clock + Cardinality(Asked) + (IF SavedGuest THEN 2 ELSE 0)
    BY <2>3, <2>4, <2>5, <2>6, <2>7
  <2>. QED  BY <2>8 DEF OneFetchPerExpiry, Asked
<1>. QED  BY <1>1, Starts, Steps, PTL DEF Spec

-----------------------------------------------------------------------------
(***************************************************************************)
(* Where a captured account's token can be: in that account's session, and *)
(* in the session of a request that is the account's.                      *)
(***************************************************************************)
Clean(cookies) == "token" \in DOMAIN cookies => cookies["token"] # OldToken

CleanRequest(r) ==
    /\ Clean(r.header)
    /\ r.kind # "account" => Clean(r.session)
    /\ r.kind \in {"account", "signin"} => r.account \in Accounts

TokenInv ==
    /\ Inv
    /\ None \in DOMAIN sessions
    /\ sessions[None] # None => Clean(sessions[None].cookie)
    /\ Clean(guest.cookie)
    /\ \A p \in Procs : CleanRequest(proc[p])

LEMMA CleanCookies ==
    /\ Clean(NoCookie) /\ Clean(MadeUp) /\ \A n : Clean(Visited(n))
    /\ \A a \in Accounts : Clean(Token(a))
BY AccountsAssumption DEF Clean, NoCookie, MadeUp, Visited, Token

LEMMA CleanMerge == ASSUME NEW c, NEW d, Clean(c), Clean(d) PROVE Clean(Merged(c, d))
BY DEF Clean, Merged

LEMMA CleanIdle == CleanRequest(Idle)
BY CleanCookies DEF CleanRequest, Idle

LEMMA CleanFinished == ASSUME NEW r PROVE CleanRequest(Finished(r))
BY CleanCookies DEF CleanRequest, Finished, Idle

LEMMA CleanReturned ==
    ASSUME NEW r, NEW h, RequestInv(r), CleanRequest(r), Clean(h)
    PROVE  CleanRequest(Returned(r, h))
<1>1. CASE r.kind = "refresh"
  BY <1>1, CleanFinished DEF Returned
<1>2. CASE r.kind # "refresh" /\ r.force
  BY <1>2 DEF Returned, RequestInv, Fields, CleanRequest
<1>3. CASE r.kind # "refresh" /\ ~r.force
  BY <1>3 DEF Returned, RequestInv, Fields, CleanRequest
<1>. QED  BY <1>1, <1>2, <1>3

\* A step of one request, as its record says.
LEMMA CleanMove ==
    ASSUME TokenInv, NEW p \in Procs, NEW r, CleanRequest(r), proc' = [proc EXCEPT ![p] = r]
    PROVE  \A q \in Procs : CleanRequest(proc'[q])
<1>1. \A q \in Procs : proc'[q] = IF q = p THEN r ELSE proc[q]
  BY DEF TokenInv, Inv, Shape, All
<1>. QED  BY <1>1 DEF TokenInv

LEMMA CleanReturn ==
    ASSUME TokenInv, NEW p \in Procs, NEW h, Clean(h), Ensured(p, h)
    PROVE  \A q \in Procs : CleanRequest(proc'[q])
<1>1. proc' = [proc EXCEPT ![p] = Returned(proc[p], h)]
  BY DEF Ensured, Returned
<1>2. RequestInv(proc[p]) /\ CleanRequest(proc[p])
  BY DEF TokenInv, Inv, Shape
<1>. QED  BY <1>1, <1>2, CleanReturned, CleanMove

\* A step that leaves sessions and the guest's cookies alone.
LEMMA CleanQuietly ==
    ASSUME TokenInv, Inv', UNCHANGED <<guest, sessions>>,
           \A p \in Procs : CleanRequest(proc'[p])
    PROVE  TokenInv'
BY DEF TokenInv

LEMMA CleanBegins == ASSUME TokenInv, Inv', NEW p \in Procs, Begin(p) PROVE TokenInv'
<1>1. ASSUME NEW kind, NEW a, Request(p, kind, a), kind # "guest" => a \in Accounts PROVE TokenInv'
  <2>. DEFINE r == [Idle EXCEPT !.pc = IF kind = "signin" THEN "send" ELSE "ensure",
                       !.kind = kind, !.account = a,
                       !.session = SessionCookie(SessionKey(kind, a))]
  <2>1. Clean(SessionCookie(None))
    BY CleanCookies DEF TokenInv, SessionCookie
  <2>2. r.kind = kind /\ r.account = a /\ r.header = NoCookie
        /\ (kind # "account" => r.session = SessionCookie(None))
    BY DEF Idle, SessionKey
  <2>3. proc' = [proc EXCEPT ![p] = r] /\ UNCHANGED <<guest, sessions>>
    BY <1>1 DEF Request
  <2>. HIDE DEF r
  <2>4. CleanRequest(r)
    BY <1>1, <2>1, <2>2, CleanCookies DEF CleanRequest
  <2>. QED  BY <2>3, <2>4, CleanMove, CleanQuietly
<1>2. ASSUME RefreshGuest(p) PROVE TokenInv'
  <2>. DEFINE r == [Idle EXCEPT !.pc = "lock", !.kind = "refresh", !.force = TRUE, !.asked = TRUE]
  <2>1. CleanRequest(r)
    BY CleanCookies DEF CleanRequest, Idle
  <2>. QED  BY <1>2, <2>1, CleanMove, CleanQuietly DEF RefreshGuest
<1>3. ASSUME CaptureGuest(p) PROVE TokenInv'
  <2>. DEFINE r == [Idle EXCEPT !.pc = "captured", !.kind = "capture", !.asked = TRUE,
                                !.header = Visited(visits + 1)]
  <2>1. CleanRequest(r)
    BY CleanCookies DEF CleanRequest, Idle
  <2>2. proc' = [proc EXCEPT ![p] = r] /\ UNCHANGED guest
        /\ sessions' = [sessions EXCEPT ![None] = Session(Visited(visits + 1), clock)]
    BY <1>3 DEF CaptureGuest
  <2>3. sessions'[None].cookie = Visited(visits + 1) /\ None \in DOMAIN sessions'
    BY <2>2 DEF TokenInv, Session
  <2>. QED  BY <2>1, <2>2, <2>3, CleanMove, CleanCookies DEF TokenInv
<1>4. Request(p, "guest", None) => TokenInv'
  BY <1>1
<1>5. \A a \in Accounts : Request(p, "account", a) \/ Request(p, "signin", a) => TokenInv'
  BY <1>1
<1>. QED  BY <1>2, <1>3, <1>4, <1>5 DEF Begin

LEMMA CleanSteps == ASSUME TokenInv, Inv', NEW p \in Procs, Step(p) PROVE TokenInv'
<1>1. CleanRequest(proc[p]) /\ RequestInv(proc[p])
  BY DEF TokenInv, Inv, Shape
<1>. DEFINE Quiet == UNCHANGED <<guest, sessions>> /\ \A q \in Procs : CleanRequest(proc'[q])
<1>2. Quiet => TokenInv'
  BY CleanQuietly
<1>3. ASSUME NEW pc, Goto(p, pc) PROVE \A q \in Procs : CleanRequest(proc'[q])
  <2>1. CleanRequest([proc[p] EXCEPT !.pc = pc])
    BY <1>1 DEF CleanRequest, RequestInv, Fields
  <2>. QED  BY <1>3, <2>1, CleanMove DEF Goto
<1>4. ASSUME NEW h, Clean(h), proc' = [proc EXCEPT ![p].pc = "store", ![p].header = h]
             \/ proc' = [proc EXCEPT ![p].pc = "write", ![p].header = h]
      PROVE  \A q \in Procs : CleanRequest(proc'[q])
  <2>1. ASSUME NEW pc, proc' = [proc EXCEPT ![p].pc = pc, ![p].header = h]
        PROVE  \A q \in Procs : CleanRequest(proc'[q])
    <3>. DEFINE r == [proc[p] EXCEPT !.pc = pc, !.header = h]
    <3>1. CleanRequest(r)
      BY <1>1, <1>4 DEF CleanRequest, RequestInv, Fields
    <3>2. proc' = [proc EXCEPT ![p] = r]
      BY <2>1 DEF TokenInv, Inv, Shape, All
    <3>. HIDE DEF r
    <3>. QED  BY <3>1, <3>2, CleanMove
  <2>. QED  BY <1>4, <2>1
<1>5. CleanRequest(AfterFailure(p))
  BY <1>1, CleanFinished, CleanCookies DEF AfterFailure, CleanRequest, RequestInv, Fields
<1>6. ASSUME Ensure(p) \/ UseRefreshed(p) PROVE Quiet
  BY <1>6, <1>3, CleanReturn DEF Ensure, UseRefreshed, TokenInv
<1>7. ASSUME Lock(p) PROVE Quiet
  BY <1>7, <1>3 DEF Lock
<1>8. ASSUME Capture(p) PROVE Quiet
  BY <1>8, <1>4, CleanCookies DEF Capture
<1>9. ASSUME Store(p) PROVE TokenInv'
  <2>1. Clean(proc[p].header)
    BY <1>1 DEF CleanRequest
  <2>2. \A q \in Procs : CleanRequest(proc'[q])
    BY <1>9, <2>1, CleanReturn DEF Store
  <2>3. /\ sessions'[None].cookie = proc[p].header /\ None \in DOMAIN sessions'
        /\ guest'.cookie = proc[p].header
    BY <1>9 DEF Store, TokenInv, Session
  <2>. QED  BY <2>1, <2>2, <2>3 DEF TokenInv
<1>10. ASSUME Bootstrap(p) PROVE TokenInv'
  <2>1. guest'.cookie = Visited(visits + 1) /\ UNCHANGED sessions
    BY <1>10 DEF Bootstrap
  <2>2. \A q \in Procs : CleanRequest(proc'[q])
    BY <1>10, <2>1, CleanReturn, CleanCookies DEF Bootstrap
  <2>. QED  BY <2>1, <2>2, CleanCookies DEF TokenInv
<1>11. ASSUME Send(p) PROVE Quiet
  <2>1. \A ok : CleanRequest([proc[p] EXCEPT !.pc = "read", !.failed = ~ok,
                                             !.session = NoCookie, !.header = NoCookie])
    BY <1>1, CleanCookies DEF CleanRequest, RequestInv, Fields
  <2>. QED  BY <1>11, <1>5, <2>1, CleanFinished, CleanMove DEF Send
<1>12. ASSUME NEW token \in {NoCookie} \cup {Token(a) : a \in {proc[p].account} \ {None}},
              RememberRead(p, token)
       PROVE  Quiet
  <2>1. Clean(token)
    BY <1>1, <1>12, CleanCookies DEF RememberRead, CleanRequest
  <2>2. Clean(Merged(Merged(MadeUp, guest.cookie), token))
    BY <2>1, CleanCookies, CleanMerge DEF TokenInv
  <2>. QED  BY <1>12, <1>4, <2>2 DEF RememberRead
<1>13. ASSUME RememberNothing(p) PROVE Quiet
  BY <1>13, <1>5, CleanFinished, CleanMove DEF RememberNothing
<1>14. ASSUME RememberWrite(p) PROVE TokenInv'
  <2>1. guest'.cookie = proc[p].header /\ UNCHANGED sessions
    BY <1>14 DEF RememberWrite
  <2>. QED  BY <1>1, <1>3, <1>14, <2>1 DEF TokenInv, RememberWrite, CleanRequest
<1>15. ASSUME RememberSession(p) PROVE TokenInv'
  <2>1. \A q \in Procs : CleanRequest(proc'[q])
    BY <1>15, <1>5, CleanFinished, CleanMove DEF RememberSession
  <2>2. None \in DOMAIN sessions' /\ (sessions'[None] # None => Clean(sessions'[None].cookie))
    BY <1>1, <1>15 DEF RememberSession, TokenInv, Session, CleanRequest
  <2>. QED  BY <1>15, <2>1, <2>2 DEF RememberSession, TokenInv
<1>16. ASSUME CaptureGuestSet(p) PROVE TokenInv'
  <2>1. guest'.cookie = proc[p].header /\ UNCHANGED sessions
    BY <1>16 DEF CaptureGuestSet
  <2>2. \A q \in Procs : CleanRequest(proc'[q])
    BY <1>16, CleanFinished, CleanMove DEF CaptureGuestSet
  <2>. QED  BY <1>1, <2>1, <2>2 DEF TokenInv, CleanRequest
<1>. QED  BY <1>2, <1>6, <1>7, <1>8, <1>9, <1>10, <1>11, <1>12, <1>13, <1>14, <1>15, <1>16 DEF Step

\* What was saved, too.
SavedClean == Clean(SavedToken)

LEMMA SavedStays ==
    /\ Init => SavedClean
    /\ SavedClean /\ [Next]_vars => SavedClean'
<1>1. Init => SavedClean
  <2>. SUFFICES ASSUME Init PROVE SavedClean
    OBVIOUS
  <2>1. SavedToken \in {NoCookie} \cup {Token(a) : a \in Accounts}
    BY DEF Init, SavedToken
  <2>. QED  BY <2>1, CleanCookies DEF SavedClean
<1>2. [Next]_vars => config' = config
  BY DEF vars, Next, Begin, Step, Request, RefreshGuest, CaptureGuest, Ensure, Lock, UseRefreshed,
         Capture, Store, Bootstrap, Send, RememberRead, RememberNothing, RememberWrite,
         RememberSession, CaptureGuestSet, Restore, RestoreGuest, Tick
<1>. QED  BY <1>1, <1>2 DEF SavedClean, SavedToken

LEMMA TokensStart == Init => TokenInv
<1>. SUFFICES ASSUME Init PROVE TokenInv
  OBVIOUS
<1>1. sessions[None] = None
  BY AccountsAssumption DEF Init, Keys
<1>. QED  BY <1>1, Starts, CleanIdle, CleanCookies DEF Init, TokenInv, Keys, All

LEMMA TokensStep == TokenInv /\ SavedClean /\ [Next]_vars => TokenInv'
<1>. SUFFICES ASSUME TokenInv, SavedClean, [Next]_vars PROVE TokenInv'
  OBVIOUS
<1>1. Inv'
  BY Steps DEF TokenInv
<1>2. ASSUME NEW p \in Procs, Begin(p) \/ Step(p) PROVE TokenInv'
  BY <1>1, <1>2, CleanBegins, CleanSteps
<1>3. ASSUME Restore \/ RestoreGuest PROVE TokenInv'
  <2>1. \A p \in Procs : proc'[p] = proc[p]
    BY <1>3, RestorerAssumption DEF Restore, RestoreGuest, Goto, TokenInv, Inv, Shape, All
  <2>2. Clean(Saved.cookie)
    BY CleanCookies, CleanMerge DEF Saved, Session, SavedClean
  <2>3. CASE Restore
    BY <1>1, <2>1, <2>2, <2>3 DEF Restore, TokenInv
  <2>4. CASE RestoreGuest
    BY <1>1, <2>1, <2>2, <2>4 DEF RestoreGuest, TokenInv
  <2>. QED  BY <1>3, <2>3, <2>4
<1>4. CASE Tick \/ UNCHANGED vars
  BY <1>1, <1>4, CleanQuietly DEF Tick, vars, TokenInv
<1>. QED  BY <1>2, <1>3, <1>4 DEF Next

\* client.go, buildCookieHeader: an account's requests carry its token, and no request carries
\* the one that a captured browser session still has.
THEOREM OwnTokens == Spec => []TokensAreTheAccounts
<1>1. ASSUME TokenInv PROVE TokensAreTheAccounts
  <2>. SUFFICES ASSUME NEW p \in Procs
                PROVE  LET header == CookieHeader(p) IN
                       /\ proc[p].kind = "account" => header["token"] = proc[p].account
                       /\ "token" \in DOMAIN header => header["token"] # OldToken
    BY DEF TokensAreTheAccounts
  <2>1. CleanRequest(proc[p])
    BY <1>1 DEF TokenInv
  <2>2. CASE proc[p].kind = "account"
    <3>1. CookieHeader(p)["token"] = proc[p].account
      BY <2>2 DEF CookieHeader, OwnToken, Token, Merged
    <3>. QED  BY <2>1, <2>2, <3>1, AccountsAssumption DEF CleanRequest
  <2>3. CASE proc[p].kind # "account"
    <3>1. Clean(CookieHeader(p))
      BY <2>1, <2>3, CleanCookies, CleanMerge DEF CookieHeader, OwnToken, CleanRequest
    <3>. QED  BY <2>3, <3>1 DEF Clean
  <2>. QED  BY <2>2, <2>3
<1>. QED  BY <1>1, TokensStart, TokensStep, SavedStays, PTL DEF Spec
=============================================================================
