---------------------------- MODULE IssuanceProofs ----------------------------
(***************************************************************************)
(* What issuing and revoking through the backend guarantees, for any       *)
(* number of calls, institutions, addresses and credentials.               *)
(***************************************************************************)
EXTENDS Issuance, TLAPS

Status == {"none", "pooled", "lost", "SUCCESS", "FAILED"}

\* How a call, its transaction, the chain and the table belong together.
\* A call that threw before its transaction was submitted is forgotten.
CallInv(c) ==
    LET k == call[c]
        t == tx[c]
    IN  /\ k.pc \notin {"idle", "failed"} \/ t.status # "none" =>
             /\ k.op \in {"issue", "revoke"} /\ k.institution \in Institutions
             /\ k.op = "issue" => k.graduate \in Addresses
             /\ k.op = "revoke" => k.id \in Ids
        /\ k.pc = "idle" => k.op = "none"
        /\ k.pc = "pin" => k.op = "issue"
        /\ k.pc = "find" => k.op = "revoke"
        /\ k.pc = "send" \/ t.status # "none" => k.id \in Ids
        /\ t.status # "none" => k.pc \in {"poll", "save", "notify", "done", "failed"}
        /\ k.pc = "poll" => t.status # "none"
        /\ k.pc \in {"save", "notify", "done"} => t.status = "SUCCESS"
        /\ t.status = "SUCCESS" =>
             /\ t.id = k.id /\ t.id \in Minted
             /\ k.op = "issue" => /\ book[t.id].institution = k.institution
                                  /\ book[t.id].graduate = k.graduate
             /\ k.op = "revoke" => book[t.id].state = "Revoked"
        /\ k.op = "issue" /\ t.status = "SUCCESS" /\ k.pc \in {"poll", "save"} =>
             rows[t.id] = NoRow
        /\ k.op = "revoke" /\ k.pc \notin {"find", "failed"} => rows[k.id] # NoRow
        /\ k.pc \in {"notify", "done"} => /\ rows[k.id] # NoRow
                                          /\ k.op = "revoke" => rows[k.id].status = "REVOKED"

\* No two issues minted the same credential.
MintedApart ==
    \A c, d \in Calls :
       /\ c # d
       /\ call[c].op = "issue" /\ tx[c].status = "SUCCESS"
       /\ call[d].op = "issue" /\ tx[d].status = "SUCCESS"
       => tx[c].id # tx[d].id

\* Calls that submitted one transaction are equal revocations.
Alike(c, d) ==
    /\ tx[c].status # "none" /\ tx[d].status = tx[c].status
    /\ call[c].op = "revoke" /\ call[d].op = "revoke"
    /\ call[d].institution = call[c].institution /\ call[d].id = call[c].id

TwinsAlike ==
    \A c, d \in Calls : c # d /\ tx[d].hash = tx[c].hash => Alike(c, d)

IssuanceInv ==
    /\ IssuanceTypeOK
    /\ RowsFollowChain
    /\ MintedApart
    /\ TwinsAlike
    /\ \A c \in Calls : CallInv(c)

LEMMA IssuanceInvInit == IssuanceInit => IssuanceInv
BY DEF IssuanceInit, Init, NewCall, IssuanceInv, IssuanceTypeOK, Call, Ended,
       RowsFollowChain, MintedApart, TwinsAlike, CallInv

-----------------------------------------------------------------------------
(* What moves and what stays.                                              *)

\* Minted credentials keep their parties, and revoked ones stay revoked.
BookGrows ==
    \A id \in Minted :
       /\ id \in Minted'
       /\ book'[id].institution = book[id].institution
       /\ book'[id].graduate = book[id].graduate
       /\ book[id].state = "Revoked" => book'[id].state = "Revoked"

RowsGrow ==
    \A id \in Ids : rows[id] # NoRow =>
       rows'[id] # NoRow /\ (rows[id].status = "REVOKED" => rows'[id].status = "REVOKED")

LEMMA NothingGrows ==
    ASSUME UNCHANGED <<book, rows>>
    PROVE  BookGrows /\ RowsGrow
BY DEF BookGrows, RowsGrow, Minted

\* A call that does not move keeps its invariant, unless the row it is about to
\* insert is written by another.
LEMMA UnmovedCall ==
    ASSUME IssuanceTypeOK, NEW d \in Calls, CallInv(d), BookGrows, RowsGrow,
           call'[d] = call[d], tx'[d] = tx[d],
           call[d].op = "issue" /\ tx[d].status = "SUCCESS" /\ call[d].pc \in {"poll", "save"}
             => rows'[tx[d].id] = rows[tx[d].id]
    PROVE  CallInv(d)'
<1> DEFINE k == call[d]
<1> DEFINE t == tx[d]
<1>1. /\ t.status = "SUCCESS" => t.id \in Minted
      /\ k.op = "revoke" /\ k.pc \notin {"find", "failed"} => k.id \in Ids /\ rows[k.id] # NoRow
      /\ k.pc \in {"notify", "done"} => k.id \in Ids /\ rows[k.id] # NoRow
  BY DEF CallInv
<1>2. t.status = "SUCCESS" =>
        /\ t.id \in Minted'
        /\ k.op = "issue" => /\ book'[t.id].institution = k.institution
                             /\ book'[t.id].graduate = k.graduate
        /\ k.op = "revoke" => book'[t.id].state = "Revoked"
  BY <1>1 DEF CallInv, BookGrows
<1>3. /\ k.op = "revoke" /\ k.pc \notin {"find", "failed"} => rows'[k.id] # NoRow
      /\ k.pc \in {"notify", "done"} =>
           /\ rows'[k.id] # NoRow
           /\ k.op = "revoke" => rows'[k.id].status = "REVOKED"
  BY <1>1 DEF CallInv, RowsGrow
<1>4. k.op = "issue" /\ t.status = "SUCCESS" /\ k.pc \in {"poll", "save"} => rows'[t.id] = NoRow
  BY DEF CallInv
<1>5. call'[d] = k /\ tx'[d] = t
  OBVIOUS
<1> QED
  BY <1>2, <1>3, <1>4, <1>5 DEF CallInv, k, t

\* What a call was for is not forgotten once something is submitted.
Kept(d) ==
    tx[d].status # "none" =>
      /\ call'[d].op = call[d].op
      /\ call'[d].institution = call[d].institution /\ call'[d].id = call[d].id

\* A step of calls alone: of each that moves, the invariant is shown by the caller.
LEMMA OnlyCallsMove ==
    ASSUME IssuanceInv, UNCHANGED <<book, ledger, tx, account_seq, rows>>,
           call' \in [Calls -> Call],
           \A d \in Calls :
              \/ call'[d] = call[d]
              \/ CallInv(d)' /\ Kept(d)
    PROVE  IssuanceInv'
<1>1. IssuanceTypeOK'
  BY DEF IssuanceInv, IssuanceTypeOK
<1>2. RowsFollowChain'
  BY DEF IssuanceInv, RowsFollowChain, Minted
<1>3. \A d \in Calls : Kept(d)
  BY DEF Kept
<1>4. MintedApart' /\ TwinsAlike'
  BY <1>3 DEF IssuanceInv, MintedApart, TwinsAlike, Alike, Kept
<1>5. ASSUME NEW d \in Calls
      PROVE  CallInv(d)'
  <2>1. CASE call'[d] = call[d]
    BY <2>1, NothingGrows, UnmovedCall DEF IssuanceInv
  <2> QED
    BY <2>1
<1> QED
  BY <1>1, <1>2, <1>4, <1>5 DEF IssuanceInv

\* A call and what is known of it, in one place.
LEMMA CallType ==
    ASSUME IssuanceInv, NEW c \in Calls
    PROVE  /\ call[c] \in Call /\ tx[c] \in [status : Status, id : Ids \cup {0}, hash : Calls]
           /\ call \in [Calls -> Call] /\ CallInv(c)
BY DEF IssuanceInv, IssuanceTypeOK, Status

PCs == Ended \cup {"idle", "pin", "find", "account", "simulate", "send", "poll", "save", "notify"}

LEMMA GotoEffect ==
    ASSUME IssuanceInv, NEW c \in Calls, NEW p \in PCs, Goto(c, p)
    PROVE  /\ call' \in [Calls -> Call]
           /\ call'[c] = [call[c] EXCEPT !.pc = p]
           /\ call'[c].pc = p
           /\ call'[c].op = call[c].op /\ call'[c].institution = call[c].institution
           /\ call'[c].graduate = call[c].graduate /\ call'[c].id = call[c].id
           /\ \A d \in Calls \ {c} : call'[d] = call[d]
<1>1. call[c] \in Call /\ call \in [Calls -> Call]
  BY CallType
<1>2. [call[c] EXCEPT !.pc = p] \in Call
  BY <1>1 DEF Call, PCs
<1> QED
  BY <1>1, <1>2 DEF Goto, Call

\* What is left of a call that throws.
LEMMA ThrownEffect ==
    ASSUME IssuanceInv, NEW c \in Calls
    PROVE  /\ Thrown(c) \in Call /\ Thrown(c).pc = "failed"
           /\ tx[c].status = "none" => Thrown(c).op = "none"
           /\ tx[c].status # "none" =>
                /\ Thrown(c).op = call[c].op /\ Thrown(c).institution = call[c].institution
                /\ Thrown(c).graduate = call[c].graduate /\ Thrown(c).id = call[c].id
<1>1. call[c] \in Call
  BY CallType
<1>2. /\ [NewCall EXCEPT !.pc = "failed"] \in Call
      /\ [NewCall EXCEPT !.pc = "failed"].pc = "failed"
      /\ [NewCall EXCEPT !.pc = "failed"].op = "none"
  BY DEF NewCall, Call, Ended
<1>3. [call[c] EXCEPT !.pc = "failed"] \in Call
  BY <1>1 DEF Call, Ended
<1> QED
  BY <1>1, <1>2, <1>3 DEF Thrown, Call

LEMMA ThrownCall ==
    ASSUME IssuanceInv, NEW c \in Calls, call'[c] = Thrown(c), tx'[c] = tx[c], BookGrows
    PROVE  CallInv(c)'
<1>1. CASE tx[c].status = "none"
  BY <1>1, ThrownEffect DEF CallInv
<1>2. CASE tx[c].status # "none"
  <2>1. /\ call'[c].pc = "failed" /\ call'[c].op = call[c].op /\ call'[c].id = call[c].id
        /\ call'[c].institution = call[c].institution /\ call'[c].graduate = call[c].graduate
    BY <1>2, ThrownEffect
  <2>2. CallInv(c)
    BY CallType
  <2>3. tx[c].status = "SUCCESS" => tx[c].id \in Minted
    BY <2>2 DEF CallInv
  <2>4. tx[c].status = "SUCCESS" =>
          /\ tx[c].id \in Minted'
          /\ call[c].op = "issue" => /\ book'[tx[c].id].institution = call[c].institution
                                     /\ book'[tx[c].id].graduate = call[c].graduate
          /\ call[c].op = "revoke" => book'[tx[c].id].state = "Revoked"
    BY <2>2, <2>3 DEF CallInv, BookGrows
  <2> QED
    BY <1>2, <2>1, <2>2, <2>4 DEF CallInv
<1> QED
  BY <1>1, <1>2

-----------------------------------------------------------------------------
(* The steps of calls that touch nothing else.                             *)

LEMMA FailStep ==
    ASSUME IssuanceInv, NEW c \in Calls, Fail(c),
           UNCHANGED <<book, ledger, tx, account_seq, rows>>
    PROVE  IssuanceInv'
<1>1. call' = [call EXCEPT ![c] = Thrown(c)] /\ call \in [Calls -> Call]
  BY CallType DEF Fail
<1>2. call'[c] = Thrown(c) /\ \A d \in Calls \ {c} : call'[d] = call[d]
  BY <1>1
<1>3. call' \in [Calls -> Call]
  BY <1>1, ThrownEffect
<1>4. CallInv(c)'
  BY <1>2, ThrownCall, NothingGrows
<1>5. Kept(c)
  BY <1>2, ThrownEffect DEF Kept
<1> QED
  BY <1>2, <1>3, <1>4, <1>5, OnlyCallsMove

LEMMA CrashStep ==
    ASSUME IssuanceInv, Crash
    PROVE  IssuanceInv'
<1>1. /\ call' = [c \in Calls |-> IF Running(c) THEN Thrown(c) ELSE call[c]]
      /\ UNCHANGED <<book, ledger, tx, account_seq, rows>>
  BY DEF Crash, chainVars
<1>2. call' \in [Calls -> Call]
  BY <1>1, ThrownEffect, CallType
<1>3. ASSUME NEW d \in Calls
      PROVE  \/ call'[d] = call[d]
             \/ CallInv(d)' /\ Kept(d)
  <2>1. CASE call'[d] = Thrown(d)
    BY <1>1, <2>1, ThrownCall, ThrownEffect, NothingGrows DEF Kept
  <2> QED
    BY <1>1, <2>1
<1> QED
  BY <1>1, <1>2, <1>3, OnlyCallsMove

\* A call that moves on, with nothing else.
LEMMA MoveStep ==
    ASSUME IssuanceInv, NEW c \in Calls, NEW k \in Call,
           call' = [call EXCEPT ![c] = k], CallInv(c)',
           tx[c].status # "none" => /\ k.op = call[c].op
                                    /\ k.institution = call[c].institution
                                    /\ k.id = call[c].id,
           UNCHANGED <<book, ledger, tx, account_seq, rows>>
    PROVE  IssuanceInv'
<1>1. call \in [Calls -> Call]
  BY CallType
<1>2. call' \in [Calls -> Call] /\ call'[c] = k /\ \A d \in Calls \ {c} : call'[d] = call[d]
  BY <1>1
<1> QED
  BY <1>2, OnlyCallsMove DEF Kept

LEMMA BeginIssueStep ==
    ASSUME IssuanceInv, NEW c \in Calls, NEW institution \in Institutions,
           NEW graduate \in Addresses, BeginIssue(c, institution, graduate)
    PROVE  IssuanceInv'
<1> DEFINE k == [NewCall EXCEPT !.pc = "pin", !.op = "issue",
                                !.institution = institution, !.graduate = graduate]
<1>1. /\ k \in Call /\ k.pc = "pin" /\ k.op = "issue" /\ k.institution = institution
      /\ k.graduate = graduate
  BY DEF NewCall, Call
<1>2. /\ call' = [call EXCEPT ![c] = k] /\ call[c].pc = "idle"
      /\ UNCHANGED <<book, ledger, tx, account_seq, rows>>
  BY DEF BeginIssue, chainVars
<1> HIDE DEF k
<1>3. call'[c] = k /\ tx'[c] = tx[c] /\ tx[c].status = "none"
  BY <1>2, CallType DEF CallInv
<1>4. CallInv(c)'
  BY <1>1, <1>3 DEF CallInv
<1> QED
  BY <1>1, <1>2, <1>3, <1>4, MoveStep

LEMMA BeginRevokeStep ==
    ASSUME IssuanceInv, NEW c \in Calls, NEW institution \in Institutions,
           NEW id \in Ids, BeginRevoke(c, institution, id)
    PROVE  IssuanceInv'
<1> DEFINE k == [NewCall EXCEPT !.pc = "find", !.op = "revoke",
                                !.institution = institution, !.id = id]
<1>1. /\ k \in Call /\ k.pc = "find" /\ k.op = "revoke" /\ k.institution = institution
      /\ k.id = id
  BY DEF NewCall, Call
<1>2. /\ call' = [call EXCEPT ![c] = k] /\ call[c].pc = "idle"
      /\ UNCHANGED <<book, ledger, tx, account_seq, rows>>
  BY DEF BeginRevoke, chainVars
<1> HIDE DEF k
<1>3. call'[c] = k /\ tx'[c] = tx[c] /\ tx[c].status = "none"
  BY <1>2, CallType DEF CallInv
<1>4. CallInv(c)'
  BY <1>1, <1>3 DEF CallInv
<1> QED
  BY <1>1, <1>2, <1>3, <1>4, MoveStep

\* Steps that only move the program counter.
LEMMA GotoStep ==
    ASSUME IssuanceInv, NEW c \in Calls, NEW p \in PCs, Goto(c, p), CallInv(c)',
           UNCHANGED <<book, ledger, tx, account_seq, rows>>
    PROVE  IssuanceInv'
BY GotoEffect, OnlyCallsMove DEF Kept

LEMMA PinStep ==
    ASSUME IssuanceInv, NEW c \in Calls, Pin(c)
    PROVE  IssuanceInv'
<1>1. /\ Goto(c, "account") /\ call[c].pc = "pin" /\ "account" \in PCs
      /\ UNCHANGED <<book, ledger, tx, account_seq, rows>>
  BY DEF Pin, chainVars, PCs
<1>2. /\ call'[c].pc = "account" /\ call'[c].op = call[c].op
      /\ call'[c].institution = call[c].institution
      /\ call'[c].graduate = call[c].graduate /\ call'[c].id = call[c].id
  BY <1>1, GotoEffect
<1>3. CallInv(c) /\ tx'[c] = tx[c]
  BY <1>1, CallType
<1>4. CallInv(c)'
  BY <1>1, <1>2, <1>3 DEF CallInv
<1> QED
  BY <1>1, <1>4, GotoStep

LEMMA FindStep ==
    ASSUME IssuanceInv, NEW c \in Calls, Find(c)
    PROVE  IssuanceInv'
<1>1. /\ call[c].pc = "find" /\ "account" \in PCs
      /\ UNCHANGED <<book, ledger, tx, account_seq, rows>>
  BY DEF Find, chainVars, PCs
<1>2. CASE Goto(c, "account") /\ rows[call[c].id] # NoRow
  <2>1. /\ call'[c].pc = "account" /\ call'[c].op = call[c].op
        /\ call'[c].institution = call[c].institution
        /\ call'[c].graduate = call[c].graduate /\ call'[c].id = call[c].id
    BY <1>1, <1>2, GotoEffect
  <2>2. CallInv(c) /\ tx'[c] = tx[c]
    BY <1>1, CallType
  <2>3. CallInv(c)'
    BY <1>1, <1>2, <2>1, <2>2 DEF CallInv
  <2> QED
    BY <1>1, <1>2, <2>3, GotoStep
<1>3. CASE Fail(c)
  BY <1>1, <1>3, FailStep
<1> QED
  BY <1>2, <1>3 DEF Find

LEMMA GetAccountStep ==
    ASSUME IssuanceInv, NEW c \in Calls, GetAccount(c)
    PROVE  IssuanceInv'
<1> DEFINE n == account_seq[call[c].institution] + 1
<1> DEFINE k == [call[c] EXCEPT !.pc = "simulate", !.seq = n]
<1>1. call[c] \in Call /\ CallInv(c) /\ call[c].pc = "account"
  BY CallType DEF GetAccount
<1>2. n \in Nat
  BY <1>1 DEF CallInv, IssuanceInv, IssuanceTypeOK
<1>3. call' = [call EXCEPT ![c] = k] /\ UNCHANGED <<book, ledger, tx, account_seq, rows>>
  BY DEF GetAccount, chainVars
<1> HIDE DEF n
<1>4. /\ k \in Call /\ k.pc = "simulate" /\ k.op = call[c].op /\ k.id = call[c].id
      /\ k.institution = call[c].institution /\ k.graduate = call[c].graduate
  BY <1>1, <1>2 DEF Call
<1> HIDE DEF k
<1>5. call'[c] = k
  BY <1>3, CallType
<1>6. CallInv(c)'
  BY <1>1, <1>3, <1>4, <1>5 DEF CallInv
<1> QED
  BY <1>3, <1>4, <1>6, MoveStep

LEMMA SimulateStep ==
    ASSUME IssuanceInv, NEW c \in Calls, Simulate(c)
    PROVE  IssuanceInv'
<1>1. /\ call[c].pc = "simulate" /\ "send" \in PCs /\ CallInv(c)
      /\ UNCHANGED <<book, ledger, tx, account_seq, rows>>
  BY CallType DEF Simulate, chainVars, PCs
<1>2. CASE Fail(c)
  BY <1>1, <1>2, FailStep
<1>3. ASSUME call[c].op = "issue", NEW id \in Ids,
             call' = [call EXCEPT ![c].pc = "send", ![c].id = id]
      PROVE  IssuanceInv'
  <2> DEFINE k == [call[c] EXCEPT !.pc = "send", !.id = id]
  <2>1. /\ k \in Call /\ k.pc = "send" /\ k.id = id /\ k.op = call[c].op
        /\ k.institution = call[c].institution /\ k.graduate = call[c].graduate
    <3>1. call[c] \in Call
      BY CallType
    <3> QED
      BY <3>1 DEF Call
  <2>2. call' = [call EXCEPT ![c] = k]
    BY <1>3
  <2> HIDE DEF k
  <2>3. call'[c] = k
    BY <2>2, CallType
  <2>4. CallInv(c)'
    BY <1>1, <1>3, <2>1, <2>3 DEF CallInv
  <2>5. tx[c].status = "none"
    BY <1>1 DEF CallInv
  <2> QED
    BY <1>1, <2>1, <2>2, <2>4, <2>5, MoveStep
<1>4. CASE call[c].op = "revoke" /\ Goto(c, "send")
  <2>1. CallInv(c)'
    BY <1>1, <1>4, GotoEffect DEF CallInv
  <2> QED
    BY <1>1, <1>4, <2>1, GotoStep
<1> QED
  BY <1>2, <1>3, <1>4 DEF Simulate

LEMMA PollStep ==
    ASSUME IssuanceInv, NEW c \in Calls, Poll(c)
    PROVE  IssuanceInv'
<1>1. /\ call[c].pc = "poll" /\ "save" \in PCs /\ CallInv(c)
      /\ UNCHANGED <<book, ledger, tx, account_seq, rows>>
  BY CallType DEF Poll, chainVars, PCs
<1>2. CASE Fail(c)
  BY <1>1, <1>2, FailStep
<1>3. CASE tx[c].status = "SUCCESS" /\ call' = [call EXCEPT ![c].pc = "save", ![c].id = tx[c].id]
  <2> DEFINE k == [call[c] EXCEPT !.pc = "save", !.id = tx[c].id]
  <2>1. tx[c].id \in Ids /\ tx[c].id = call[c].id
    BY <1>1, <1>3 DEF CallInv, Minted
  <2>2. /\ k \in Call /\ k.pc = "save" /\ k.id = tx[c].id /\ k.op = call[c].op
        /\ k.institution = call[c].institution /\ k.graduate = call[c].graduate
    <3>1. call[c] \in Call
      BY CallType
    <3> QED
      BY <2>1, <3>1 DEF Call
  <2>3. call' = [call EXCEPT ![c] = k]
    BY <1>3
  <2> HIDE DEF k
  <2>4. call'[c] = k
    BY <2>3, CallType
  <2>5. CallInv(c)'
    BY <1>1, <1>3, <2>1, <2>2, <2>4 DEF CallInv, Minted
  <2> QED
    BY <1>1, <2>1, <2>2, <2>3, <2>5, MoveStep
<1> QED
  BY <1>2, <1>3 DEF Poll

LEMMA NotifyStep ==
    ASSUME IssuanceInv, NEW c \in Calls, Notify(c)
    PROVE  IssuanceInv'
<1>1. /\ Goto(c, "done") /\ call[c].pc = "notify" /\ "done" \in PCs
      /\ UNCHANGED <<book, ledger, tx, account_seq, rows>>
  BY DEF Notify, chainVars, PCs, Ended
<1>2. /\ call'[c].pc = "done" /\ call'[c].op = call[c].op
      /\ call'[c].institution = call[c].institution
      /\ call'[c].graduate = call[c].graduate /\ call'[c].id = call[c].id
  BY <1>1, GotoEffect
<1>3. CallInv(c) /\ tx'[c] = tx[c]
  BY <1>1, CallType
<1>4. CallInv(c)'
  BY <1>1, <1>2, <1>3 DEF CallInv, Minted
<1> QED
  BY <1>1, <1>4, GotoStep

LEMMA ThrowStep ==
    ASSUME IssuanceInv, NEW c \in Calls, Throw(c)
    PROVE  IssuanceInv'
BY FailStep DEF Throw, chainVars

-----------------------------------------------------------------------------
(* The steps of transactions that do not reach the chain.                  *)

\* Those who share a transaction, and what it becomes for all of them.
LEMMA SharingAlike ==
    ASSUME IssuanceInv, NEW c \in Calls
    PROVE  /\ c \in Sharing(c) /\ Sharing(c) \subseteq Calls
           /\ \A d \in Sharing(c) \ {c} : Alike(c, d)
           /\ \A d \in Sharing(c) : tx[d].status = tx[c].status
BY DEF Sharing, IssuanceInv, TwinsAlike, Alike

LEMMA WithEffect ==
    ASSUME NEW C, NEW s, NEW i, NEW h, tx' = With(C, s, i, h)
    PROVE  \A d \in Calls :
              /\ d \in C => tx'[d].status = s /\ tx'[d].id = i /\ tx'[d].hash = h
              /\ d \notin C => tx'[d] = tx[d]
BY DEF With

LEMMA WithType ==
    ASSUME IssuanceInv, NEW C, NEW s \in Status, NEW i \in Ids \cup {0}, NEW h \in Calls,
           tx' = With(C, s, i, h)
    PROVE  tx' \in [Calls -> [status : Status, id : Ids \cup {0}, hash : Calls]]
<1>1. [status |-> s, id |-> i, hash |-> h] \in [status : Status, id : Ids \cup {0}, hash : Calls]
  OBVIOUS
<1>2. \A d \in Calls : tx[d] \in [status : Status, id : Ids \cup {0}, hash : Calls]
  BY CallType
<1> QED
  BY <1>1, <1>2 DEF With

\* Who joins a transaction is like all that share it.
LEMMA JoinAlike ==
    ASSUME IssuanceInv, NEW c \in Calls, NEW e \in {c} \cup Twins(c),
           NEW C, C = {c} \cup Sharing(e),
           NEW s \in Status \ {"none"}, NEW i, tx' = With(C, s, i, tx[e].hash),
           \A d \in Calls : /\ call'[d].op = call[d].op
                            /\ call'[d].institution = call[d].institution
                            /\ call'[d].id = call[d].id
    PROVE  TwinsAlike'
<1>1. e \in Calls /\ C \in SUBSET Calls /\ tx[e].hash \in Calls /\ s \in Status
  <2>1. e \in Calls /\ C \in SUBSET Calls
    BY DEF Twins, Sharing
  <2> QED
    BY <2>1, CallType
<1>2. /\ \A d \in C : tx'[d].status = s /\ tx'[d].hash = tx[e].hash
      /\ \A d \in Calls \ C : tx'[d] = tx[d] /\ tx[d].hash # tx[e].hash
  <2>1. /\ \A d \in C : tx'[d].status = s /\ tx'[d].hash = tx[e].hash
        /\ \A d \in Calls \ C : tx'[d] = tx[d]
    <3>1. \A d \in Calls :
             /\ d \in C => tx'[d].status = s /\ tx'[d].hash = tx[e].hash
             /\ d \notin C => tx'[d] = tx[d]
      BY WithEffect
    <3> QED
      BY <1>1, <3>1
  <2> QED
    BY <2>1 DEF Sharing
<1>3. e # c => /\ call[c].op = "revoke" /\ call[e].op = "revoke"
               /\ call[e].institution = call[c].institution /\ call[e].id = call[c].id
  BY DEF Twins
<1>4. ASSUME NEW x \in C, NEW y \in C, x # y
      PROVE  /\ call[x].op = "revoke" /\ call[y].op = "revoke"
             /\ call[y].institution = call[x].institution /\ call[y].id = call[x].id
  BY <1>1, <1>3, <1>4 DEF Sharing, IssuanceInv, TwinsAlike, Alike
<1>5. ASSUME NEW x \in Calls, NEW y \in Calls, x # y, tx'[y].hash = tx'[x].hash
      PROVE  Alike(x, y)'
  <2>1. CASE x \in C /\ y \in C
    <3>1. tx'[x].status = s /\ tx'[y].status = s /\ s # "none"
      BY <1>2, <2>1
    <3> QED
      BY <1>4, <1>5, <2>1, <3>1 DEF Alike
  <2>2. CASE x \notin C /\ y \notin C
    <3>1. tx'[x] = tx[x] /\ tx'[y] = tx[y]
      BY <1>2, <2>2
    <3>2. Alike(x, y)
      BY <1>5, <3>1 DEF IssuanceInv, TwinsAlike
    <3> QED
      BY <3>1, <3>2 DEF Alike
  <2> QED
    BY <1>2, <1>5, <2>1, <2>2
<1> QED
  BY <1>5 DEF TwinsAlike

LEMMA TxStep ==
    ASSUME IssuanceInv, NEW C \in SUBSET Calls, NEW s \in Status \ {"SUCCESS"},
           NEW h \in Calls, tx' = With(C, s, 0, h), TwinsAlike',
           UNCHANGED <<book, ledger, rows>>, account_seq' \in [Institutions -> Nat],
           call' \in [Calls -> Call], \A d \in Calls \ C : call'[d] = call[d],
           \A d \in C : CallInv(d)'
    PROVE  IssuanceInv'
<1>1. /\ tx' \in [Calls -> [status : Status, id : Ids \cup {0}, hash : Calls]]
      /\ \A d \in C : tx'[d].status = s
      /\ \A d \in Calls \ C : tx'[d] = tx[d]
  <2>1. s \in Status /\ 0 \in Ids \cup {0}
    OBVIOUS
  <2> QED
    BY <2>1, WithType, WithEffect
<1>2. IssuanceTypeOK'
  BY <1>1 DEF IssuanceInv, IssuanceTypeOK, Status
<1>3. RowsFollowChain'
  BY DEF IssuanceInv, RowsFollowChain, Minted
<1>4. MintedApart'
  BY <1>1 DEF IssuanceInv, MintedApart
<1>5. ASSUME NEW d \in Calls \ C
      PROVE  CallInv(d)'
  BY <1>1, NothingGrows, UnmovedCall DEF IssuanceInv
<1> QED
  BY <1>2, <1>3, <1>4, <1>5 DEF IssuanceInv

LEMMA SendStep ==
    ASSUME IssuanceInv, NEW c \in Calls, Send(c)
    PROVE  IssuanceInv'
<1>1. /\ call[c].pc = "send" /\ CallInv(c) /\ tx[c].status = "none"
      /\ UNCHANGED <<book, ledger, account_seq, rows>>
  BY CallType DEF Send, CallInv, chainVars
<1>2. CASE Fail(c) /\ UNCHANGED tx
  BY <1>1, <1>2, FailStep
<1>3. ASSUME NEW p \in {"poll", "failed"}, NEW e \in {c} \cup Twins(c),
             NEW s \in {"pooled", "lost"}, Goto(c, p),
             tx' = With({c} \cup Sharing(e), s, 0, tx[e].hash)
      PROVE  IssuanceInv'
  <2> DEFINE C == {c} \cup Sharing(e)
  <2>1. p \in PCs /\ s \in Status \ {"SUCCESS"} /\ s \in Status \ {"none"}
    BY DEF PCs, Ended, Status
  <2>2. /\ call' \in [Calls -> Call]
        /\ call'[c].pc = p /\ call'[c].op = call[c].op
        /\ call'[c].institution = call[c].institution
        /\ call'[c].graduate = call[c].graduate /\ call'[c].id = call[c].id
        /\ \A d \in Calls \ {c} : call'[d] = call[d]
    BY <1>3, <2>1, GotoEffect
  <2>3. e \in Calls /\ C \in SUBSET Calls /\ tx[e].hash \in Calls
    BY CallType DEF Twins, Sharing
  <2>4. \A d \in C : tx'[d].status = s
    BY <1>3, <2>1, <2>3, WithEffect
  <2>5. TwinsAlike'
    BY <1>3, <2>1, <2>2, JoinAlike
  <2>6. ASSUME NEW d \in C, d # c
        PROVE  CallInv(d)'
    <3>1. tx[d].status \in {"pooled", "lost"}
      BY <1>1, <2>3, <2>6, SharingAlike DEF Twins, Sharing, Alike
    <3>2. CallInv(d) /\ call'[d] = call[d]
      BY <2>2, <2>3, <2>6, CallType
    <3> QED
      BY <1>1, <2>4, <3>1, <3>2 DEF CallInv
  <2>7. CallInv(c)'
    BY <1>1, <2>2, <2>4 DEF CallInv
  <2>8. account_seq' \in [Institutions -> Nat]
    BY <1>1 DEF IssuanceInv, IssuanceTypeOK
  <2>9. tx' = With(C, s, 0, tx[e].hash) /\ \A d \in Calls \ C : call'[d] = call[d]
    BY <1>3, <2>2
  <2> HIDE DEF C
  <2> QED
    BY <1>1, <2>1, <2>2, <2>3, <2>5, <2>6, <2>7, <2>8, <2>9, TxStep
<1> QED
  BY <1>2, <1>3 DEF Send

\* A pooled transaction that is dropped, or fails in a ledger.
LEMMA UnpooledStep ==
    ASSUME IssuanceInv, NEW c \in Calls, NEW s \in {"lost", "FAILED"},
           tx[c].status = "pooled", tx' = With(Sharing(c), s, 0, tx[c].hash),
           UNCHANGED <<book, ledger, call, rows>>, account_seq' \in [Institutions -> Nat]
    PROVE  IssuanceInv'
<1>1. s \in Status \ {"SUCCESS"} /\ s \in Status \ {"none"} /\ call' \in [Calls -> Call]
  BY CallType DEF Status
<1>2. /\ Sharing(c) \in SUBSET Calls /\ {c} \cup Sharing(c) = Sharing(c)
      /\ tx[c].hash \in Calls /\ \A d \in Sharing(c) : tx[d].status = "pooled"
  BY SharingAlike, CallType
<1>3. TwinsAlike'
  BY <1>1, <1>2, JoinAlike
<1>4. ASSUME NEW d \in Sharing(c)
      PROVE  CallInv(d)'
  <2>1. tx'[d].status = s
    BY <1>1, <1>2, WithEffect
  <2>2. CallInv(d) /\ tx[d].status = "pooled"
    BY <1>2, CallType
  <2> QED
    BY <2>1, <2>2 DEF CallInv
<1> QED
  BY <1>1, <1>2, <1>3, <1>4, TxStep

LEMMA DropStep ==
    ASSUME IssuanceInv, NEW c \in Calls, Drop(c)
    PROVE  IssuanceInv'
<1>1. account_seq' \in [Institutions -> Nat]
  BY DEF Drop, IssuanceInv, IssuanceTypeOK
<1> QED
  BY <1>1, UnpooledStep DEF Drop, chainVars

-----------------------------------------------------------------------------
(* The steps of the chain.                                                 *)

LEMMA MintEffect ==
    ASSUME IssuanceTypeOK, NEW id \in Ids, NEW institution \in Addresses,
           NEW graduate \in Addresses, Mint(id, institution, graduate, 0)
    PROVE  /\ BookGrows /\ book' \in [Ids -> Page \cup {Absent}] /\ UNCHANGED ledger
           /\ id \notin Minted /\ id \in Minted'
           /\ book'[id].institution = institution /\ book'[id].graduate = graduate
<1> DEFINE page == [institution |-> institution, graduate |-> graduate, expiry |-> 0,
                    state |-> "Valid"]
<1>1. /\ page \in Page /\ page # Absent
      /\ page.institution = institution /\ page.graduate = graduate
  BY NoExpiryAssumption DEF Page
<1>2. book[id] = Absent /\ book' = [book EXCEPT ![id] = page] /\ UNCHANGED ledger
  BY DEF Mint
<1> HIDE DEF page
<1>3. book \in [Ids -> Page \cup {Absent}]
  BY DEF IssuanceTypeOK
<1> QED
  BY <1>1, <1>2, <1>3 DEF BookGrows, Minted

LEMMA RevokeEffect ==
    ASSUME IssuanceTypeOK, NEW id \in Ids, Revoke(id)
    PROVE  /\ BookGrows /\ book' \in [Ids -> Page \cup {Absent}] /\ UNCHANGED ledger
           /\ id \in Minted' /\ book'[id].state = "Revoked"
<1> DEFINE page == [book[id] EXCEPT !.state = "Revoked"]
<1>1. book[id] \in Page
  BY DEF Revoke, IssuanceTypeOK
<1>2. /\ page \in Page /\ page # Absent /\ page.state = "Revoked"
      /\ page.institution = book[id].institution /\ page.graduate = book[id].graduate
  BY <1>1, NoExpiryAssumption DEF Page
<1>3. book' = [book EXCEPT ![id] = page] /\ UNCHANGED ledger
  BY DEF Revoke
<1> HIDE DEF page
<1>4. book \in [Ids -> Page \cup {Absent}]
  BY DEF IssuanceTypeOK
<1> QED
  BY <1>2, <1>3, <1>4 DEF BookGrows, Minted

\* What the chain does leaves the table true.
LEMMA RowsStillFollow ==
    ASSUME RowsFollowChain, BookGrows, UNCHANGED rows
    PROVE  RowsFollowChain' /\ RowsGrow
BY DEF RowsFollowChain, BookGrows, RowsGrow, Minted

LEMMA OtherUseStep ==
    ASSUME IssuanceInv, OtherUse
    PROVE  IssuanceInv'
<1>1. UNCHANGED <<call, tx, rows>>
  BY DEF OtherUse
<1>2. BookGrows /\ book' \in [Ids -> Page \cup {Absent}] /\ UNCHANGED ledger
  BY MintEffect, RevokeEffect DEF OtherUse, IssuanceInv, Minted
<1>3. PICK a : UseAccount(a)
  BY DEF OtherUse
<1>4. account_seq' \in [Institutions -> Nat]
  BY <1>3 DEF UseAccount, IssuanceInv, IssuanceTypeOK
<1>5. IssuanceTypeOK'
  BY <1>1, <1>2, <1>4 DEF IssuanceInv, IssuanceTypeOK
<1>6. RowsFollowChain' /\ RowsGrow
  BY <1>1, <1>2, RowsStillFollow DEF IssuanceInv
<1>7. MintedApart' /\ TwinsAlike'
  BY <1>1 DEF IssuanceInv, MintedApart, TwinsAlike, Alike
<1>8. ASSUME NEW d \in Calls
      PROVE  CallInv(d)'
  BY <1>1, <1>2, <1>6, UnmovedCall DEF IssuanceInv
<1> QED
  BY <1>5, <1>6, <1>7, <1>8 DEF IssuanceInv

\* A transaction that succeeds, for all that share it.
LEMMA SuccessStep ==
    ASSUME IssuanceInv, NEW c \in Calls, tx[c].status = "pooled",
           tx' = With(Sharing(c), "SUCCESS", call[c].id, tx[c].hash),
           BookGrows, book' \in [Ids -> Page \cup {Absent}],
           call[c].id \in Minted',
           call[c].op = "issue" =>
             /\ call[c].id \notin Minted
             /\ book'[call[c].id].institution = call[c].institution
             /\ book'[call[c].id].graduate = call[c].graduate,
           call[c].op = "revoke" => book'[call[c].id].state = "Revoked",
           UNCHANGED <<ledger, call, rows>>, account_seq' \in [Institutions -> Nat]
    PROVE  IssuanceInv'
<1> DEFINE C == Sharing(c)
<1>1. CallInv(c) /\ call[c].id \in Ids
  BY CallType DEF CallInv
<1>2. /\ C \in SUBSET Calls /\ {c} \cup C = C /\ c \in C /\ tx[c].hash \in Calls
      /\ \A d \in C \ {c} : Alike(c, d)
      /\ \A d \in C : tx[d].status = "pooled"
  BY SharingAlike, CallType
<1>3. "SUCCESS" \in Status /\ "SUCCESS" \in Status \ {"none"}
  BY DEF Status
<1>4. TwinsAlike'
  BY <1>1, <1>2, <1>3, JoinAlike
<1>5. /\ tx' \in [Calls -> [status : Status, id : Ids \cup {0}, hash : Calls]]
      /\ \A d \in C : tx'[d].status = "SUCCESS" /\ tx'[d].id = call[c].id
      /\ \A d \in Calls \ C : tx'[d] = tx[d]
  <2>1. call[c].id \in Ids \cup {0}
    BY <1>1
  <2>2. tx' \in [Calls -> [status : Status, id : Ids \cup {0}, hash : Calls]]
    BY <1>2, <1>3, <2>1, WithType
  <2> QED
    BY <1>2, <2>2, WithEffect
<1> HIDE DEF C
<1>6. IssuanceTypeOK'
  BY <1>5 DEF IssuanceInv, IssuanceTypeOK, Status
<1>7. RowsFollowChain' /\ RowsGrow
  BY RowsStillFollow DEF IssuanceInv
<1>8. \A d \in Calls : tx[d].status = "SUCCESS" => tx[d].id \in Minted
  BY DEF IssuanceInv, CallInv
<1>9. MintedApart'
  <2>1. ASSUME NEW d \in Calls \ {c}, call[d].op = "issue", tx'[d].status = "SUCCESS"
        PROVE  tx'[d] = tx[d] /\ (call[c].op = "issue" => tx'[d].id # tx'[c].id)
    BY <1>2, <1>5, <1>8, <2>1 DEF Alike
  <2> QED
    BY <2>1 DEF IssuanceInv, MintedApart
<1>10. ASSUME NEW d \in Calls \ C
       PROVE  CallInv(d)'
  BY <1>5, <1>7, UnmovedCall DEF IssuanceInv
<1>11. call[c].op = "issue" => rows[call[c].id] = NoRow
  BY <1>1 DEF IssuanceInv, RowsFollowChain
<1>12. ASSUME NEW d \in C
       PROVE  CallInv(d)'
  <2>1. CallInv(d) /\ tx[d].status = "pooled"
    BY <1>2, CallType
  <2>2. CASE d = c
    BY <1>1, <1>2, <1>5, <1>11, <2>1, <2>2 DEF CallInv
  <2>3. CASE d # c
    <3>1. call[d].op = "revoke" /\ call[d].id = call[c].id /\ call[c].op = "revoke"
      BY <1>2, <2>3 DEF Alike
    <3>2. tx'[d].status = "SUCCESS" /\ tx'[d].id = call[d].id
      BY <1>5, <3>1
    <3> QED
      BY <2>1, <3>1, <3>2 DEF CallInv
  <2> QED
    BY <2>2, <2>3
<1> QED
  BY <1>4, <1>6, <1>7, <1>9, <1>10, <1>12 DEF IssuanceInv

LEMMA ApplyStep ==
    ASSUME IssuanceInv, NEW c \in Calls, Apply(c)
    PROVE  IssuanceInv'
<1>1. tx[c].status = "pooled" /\ CallInv(c) /\ UNCHANGED <<call, rows>>
  BY CallType DEF Apply
<1>2. call[c].institution \in Institutions /\ call[c].institution \in Addresses /\ call[c].id \in Ids
  BY <1>1, InstitutionsAssumption DEF CallInv
<1>3. account_seq' \in [Institutions -> Nat]
  BY <1>2 DEF Apply, IssuanceInv, IssuanceTypeOK
<1>4. ASSUME call[c].op = "issue",
             Mint(call[c].id, call[c].institution, call[c].graduate, 0),
             tx' = With(Sharing(c), "SUCCESS", call[c].id, tx[c].hash)
      PROVE  IssuanceInv'
  <2>1. call[c].graduate \in Addresses
    BY <1>1, <1>4 DEF CallInv
  <2>2. /\ BookGrows /\ book' \in [Ids -> Page \cup {Absent}] /\ UNCHANGED ledger
        /\ call[c].id \notin Minted /\ call[c].id \in Minted'
        /\ book'[call[c].id].institution = call[c].institution
        /\ book'[call[c].id].graduate = call[c].graduate
    BY <1>2, <1>4, <2>1, MintEffect DEF IssuanceInv
  <2> QED
    BY <1>1, <1>3, <1>4, <2>2, SuccessStep
<1>5. ASSUME call[c].op = "revoke", Revoke(call[c].id),
             tx' = With(Sharing(c), "SUCCESS", call[c].id, tx[c].hash)
      PROVE  IssuanceInv'
  <2>1. /\ BookGrows /\ book' \in [Ids -> Page \cup {Absent}] /\ UNCHANGED ledger
        /\ call[c].id \in Minted' /\ book'[call[c].id].state = "Revoked"
    BY <1>2, <1>5, RevokeEffect DEF IssuanceInv
  <2> QED
    BY <1>1, <1>3, <1>5, <2>1, SuccessStep
<1>6. CASE tx' = With(Sharing(c), "FAILED", 0, tx[c].hash) /\ UNCHANGED <<book, ledger>>
  BY <1>1, <1>3, <1>6, UnpooledStep
<1> QED
  BY <1>4, <1>5, <1>6 DEF Apply, chainVars

-----------------------------------------------------------------------------
(* The step of the table.                                                  *)

\* A row is written; nobody else was about to insert it.
LEMMA RowStep ==
    ASSUME IssuanceInv, NEW c \in Calls, call[c].pc = "save",
           NEW row \in Row, rows' = [rows EXCEPT ![call[c].id] = row],
           row.institution = book[call[c].id].institution,
           row.graduate = book[call[c].id].graduate,
           row.status = "REVOKED" => book[call[c].id].state = "Revoked",
           rows[call[c].id] # NoRow /\ rows[call[c].id].status = "REVOKED"
             => row.status = "REVOKED",
           call[c].op = "revoke" => row.status = "REVOKED",
           Goto(c, "notify") \/ Goto(c, "done") \/ Fail(c),
           UNCHANGED <<book, ledger, tx, account_seq>>
    PROVE  IssuanceInv'
<1> DEFINE id == call[c].id
<1>1. /\ CallInv(c) /\ tx[c].status = "SUCCESS" /\ tx[c].id = id /\ id \in Minted /\ id \in Ids
      /\ call[c].op \in {"issue", "revoke"}
  BY CallType DEF CallInv, Minted
<1>2. row # NoRow
  BY NoRowAssumption
<1>3. rows \in [Ids -> Row \cup {NoRow}]
  BY DEF IssuanceInv, IssuanceTypeOK
<1>4. /\ rows'[id] = row /\ \A other \in Ids \ {id} : rows'[other] = rows[other]
      /\ rows' \in [Ids -> Row \cup {NoRow}]
  BY <1>1, <1>3
<1>5. BookGrows /\ RowsGrow
  BY <1>2, <1>4 DEF BookGrows, RowsGrow, Minted
<1>6. RowsFollowChain'
  BY <1>1, <1>4 DEF IssuanceInv, RowsFollowChain, Minted
<1>7. ASSUME NEW d \in Calls \ {c}, call[d].op = "issue", tx[d].status = "SUCCESS",
             call[d].pc \in {"poll", "save"}
      PROVE  rows'[tx[d].id] = rows[tx[d].id]
  <2>1. CallInv(d) /\ tx[d].id \in Ids /\ rows[tx[d].id] = NoRow
    BY <1>7 DEF IssuanceInv, CallInv, Minted
  <2>2. CASE call[c].op = "issue"
    BY <1>1, <1>4, <1>7, <2>1, <2>2 DEF IssuanceInv, MintedApart
  <2>3. CASE call[c].op = "revoke"
    <3>1. rows[id] # NoRow
      BY <1>1, <2>3 DEF CallInv
    <3> QED
      BY <1>4, <2>1, <3>1
  <2> QED
    BY <1>1, <2>2, <2>3
<1>8. /\ call' \in [Calls -> Call] /\ call'[c].op = call[c].op /\ CallInv(c)'
      /\ call'[c].institution = call[c].institution /\ call'[c].id = id
      /\ \A d \in Calls \ {c} : call'[d] = call[d]
  <2>1. CASE Fail(c)
    <3>1. /\ call' = [call EXCEPT ![c] = Thrown(c)] /\ call \in [Calls -> Call]
          /\ Thrown(c) \in Call /\ Thrown(c).op = call[c].op
          /\ Thrown(c).institution = call[c].institution /\ Thrown(c).id = id
      BY <1>1, <2>1, CallType, ThrownEffect DEF Fail
    <3>2. call'[c] = Thrown(c) /\ call' \in [Calls -> Call]
      BY <3>1
    <3>3. CallInv(c)'
      BY <1>5, <3>2, ThrownCall
    <3> QED
      BY <3>1, <3>2, <3>3
  <2>2. ASSUME NEW p \in {"notify", "done"}, Goto(c, p)
        PROVE  /\ call' \in [Calls -> Call] /\ call'[c].op = call[c].op /\ CallInv(c)'
               /\ call'[c].institution = call[c].institution /\ call'[c].id = id
               /\ \A d \in Calls \ {c} : call'[d] = call[d]
    <3>1. p \in PCs
      BY DEF PCs, Ended
    <3>2. /\ call' \in [Calls -> Call]
          /\ call'[c].pc = p /\ call'[c].op = call[c].op
          /\ call'[c].institution = call[c].institution
          /\ call'[c].graduate = call[c].graduate /\ call'[c].id = call[c].id
          /\ \A d \in Calls \ {c} : call'[d] = call[d]
      BY <2>2, <3>1, GotoEffect
    <3>3. CallInv(c)'
      BY <1>1, <1>2, <1>4, <3>2 DEF CallInv, Minted
    <3> QED
      BY <3>2, <3>3
  <2> QED
    BY <2>1, <2>2
<1>9. IssuanceTypeOK'
  BY <1>4, <1>8 DEF IssuanceInv, IssuanceTypeOK
<1>10. MintedApart' /\ TwinsAlike'
  BY <1>8 DEF IssuanceInv, MintedApart, TwinsAlike, Alike
<1>11. ASSUME NEW d \in Calls \ {c}
       PROVE  CallInv(d)'
  BY <1>5, <1>7, <1>8, UnmovedCall DEF IssuanceInv
<1> QED
  BY <1>6, <1>8, <1>9, <1>10, <1>11 DEF IssuanceInv

LEMMA SaveRowStep ==
    ASSUME IssuanceInv, NEW c \in Calls, SaveRow(c)
    PROVE  IssuanceInv'
<1> DEFINE id == call[c].id
<1>1. /\ call[c].pc = "save" /\ UNCHANGED <<book, ledger, tx, account_seq>>
      /\ CallInv(c) /\ tx[c].status = "SUCCESS" /\ tx[c].id = id /\ id \in Minted
      /\ call[c].institution \in Institutions
  BY CallType DEF SaveRow, CallInv, chainVars
<1>2. ASSUME call[c].op = "issue", rows[id] = NoRow,
             rows' = [rows EXCEPT ![id] = [institution |-> call[c].institution,
                                           graduate |-> call[c].graduate, status |-> "VALID"]],
             Goto(c, "notify") \/ Goto(c, "done") \/ Fail(c)
      PROVE  IssuanceInv'
  <2> DEFINE row == [institution |-> call[c].institution, graduate |-> call[c].graduate,
                     status |-> "VALID"]
  <2>1. call[c].graduate \in Addresses
    BY <1>1, <1>2 DEF CallInv
  <2>2. /\ row \in Row /\ row.status = "VALID"
        /\ row.institution = call[c].institution /\ row.graduate = call[c].graduate
    BY <1>1, <2>1 DEF Row
  <2>3. /\ book[id].institution = call[c].institution
        /\ book[id].graduate = call[c].graduate
    BY <1>1, <1>2 DEF CallInv
  <2>4. rows' = [rows EXCEPT ![call[c].id] = row]
    BY <1>2
  <2> HIDE DEF row
  <2>5. /\ row \in Row
        /\ row.institution = book[call[c].id].institution
        /\ row.graduate = book[call[c].id].graduate
        /\ row.status = "REVOKED" => book[call[c].id].state = "Revoked"
        /\ rows[call[c].id] # NoRow /\ rows[call[c].id].status = "REVOKED"
             => row.status = "REVOKED"
        /\ call[c].op = "revoke" => row.status = "REVOKED"
    BY <1>2, <2>2, <2>3
  <2> QED
    BY <1>1, <1>2, <2>4, <2>5, RowStep
<1>3. ASSUME call[c].op = "revoke", rows' = [rows EXCEPT ![id].status = "REVOKED"],
             Goto(c, "done") \/ Fail(c)
      PROVE  IssuanceInv'
  <2> DEFINE row == [rows[id] EXCEPT !.status = "REVOKED"]
  <2>1. rows[id] # NoRow /\ id \in Ids /\ rows[id] \in Row
    BY <1>1, <1>3 DEF CallInv, Minted, IssuanceInv, IssuanceTypeOK
  <2>2. /\ row \in Row /\ row.status = "REVOKED"
        /\ row.institution = rows[id].institution /\ row.graduate = rows[id].graduate
    BY <2>1 DEF Row
  <2>3. /\ rows[id].institution = book[id].institution
        /\ rows[id].graduate = book[id].graduate
        /\ book[id].state = "Revoked"
    BY <1>1, <1>3, <2>1 DEF CallInv, IssuanceInv, RowsFollowChain
  <2>4. rows' = [rows EXCEPT ![call[c].id] = row]
    BY <1>3
  <2> HIDE DEF row
  <2>5. /\ row \in Row
        /\ row.institution = book[call[c].id].institution
        /\ row.graduate = book[call[c].id].graduate
        /\ row.status = "REVOKED" => book[call[c].id].state = "Revoked"
        /\ rows[call[c].id] # NoRow /\ rows[call[c].id].status = "REVOKED"
             => row.status = "REVOKED"
        /\ call[c].op = "revoke" => row.status = "REVOKED"
    BY <2>2, <2>3
  <2> QED
    BY <1>1, <1>3, <2>4, <2>5, RowStep
<1> QED
  BY <1>2, <1>3 DEF SaveRow

-----------------------------------------------------------------------------
(* The theorems.                                                           *)

LEMMA IssuanceInvStep ==
    ASSUME IssuanceInv, [IssuanceNext]_issuanceVars
    PROVE  IssuanceInv'
<1>1. CASE UNCHANGED issuanceVars
  BY <1>1, OnlyCallsMove, CallType DEF issuanceVars, IssuanceInv, IssuanceTypeOK
<1>2. ASSUME NEW c \in Calls,
             \/ \E institution \in Institutions, graduate \in Addresses :
                   BeginIssue(c, institution, graduate)
             \/ \E institution \in Institutions, id \in Ids : BeginRevoke(c, institution, id)
      PROVE  IssuanceInv'
  BY <1>2, BeginIssueStep, BeginRevokeStep
<1>3. ASSUME NEW c \in Calls, CallStep(c)
      PROVE  IssuanceInv'
  BY <1>3, PinStep, FindStep, GetAccountStep, SimulateStep, SendStep, PollStep,
     SaveRowStep, NotifyStep DEF CallStep
<1>4. ASSUME NEW c \in Calls, Throw(c) \/ Apply(c) \/ Drop(c)
      PROVE  IssuanceInv'
  BY <1>4, ThrowStep, ApplyStep, DropStep
<1> QED
  BY <1>1, <1>2, <1>3, <1>4, CrashStep, OtherUseStep DEF IssuanceNext

LEMMA IssuanceInvAlways == IssuanceSpec => []IssuanceInv
<1>1. IssuanceInv /\ [IssuanceNext]_issuanceVars => IssuanceInv'
  BY IssuanceInvStep
<1> QED
  BY <1>1, IssuanceInvInit, PTL DEF IssuanceSpec

\* Type correctness.
THEOREM IssuanceTypeCorrect == IssuanceSpec => []IssuanceTypeOK
<1>1. IssuanceInv => IssuanceTypeOK
  BY DEF IssuanceInv
<1> QED
  BY <1>1, IssuanceInvAlways, PTL

\* The table is never ahead of the chain, and never wrong about it.
THEOREM TableFollowsChain == IssuanceSpec => []RowsFollowChain
<1>1. IssuanceInv => RowsFollowChain
  BY DEF IssuanceInv
<1> QED
  BY <1>1, IssuanceInvAlways, PTL

\* The id a call gets is of the credential it minted, and its row is free.
THEOREM CallsGetTheirOwn == IssuanceSpec => []ResultsAreOwn
<1>1. ASSUME IssuanceInv, NEW c \in Calls, call[c].op = "issue", tx[c].status = "SUCCESS"
      PROVE  LET id == tx[c].id
             IN  /\ id \in Minted
                 /\ book[id].institution = call[c].institution
                 /\ book[id].graduate = call[c].graduate
                 /\ \A d \in Calls \ {c} :
                       call[d].op = "issue" /\ tx[d].status = "SUCCESS" => tx[d].id # id
                 /\ call[c].pc = "save" => rows[id] = NoRow
  <2>1. CallInv(c) /\ MintedApart
    BY <1>1 DEF IssuanceInv
  <2> QED
    BY <1>1, <2>1 DEF CallInv, MintedApart
<1>2. IssuanceInv => ResultsAreOwn
  BY <1>1 DEF ResultsAreOwn
<1> QED
  BY <1>2, IssuanceInvAlways, PTL

\* A call that returns has done what it was for, on the chain and in the table.
THEOREM ReturnedIsDone == IssuanceSpec => []DoneIsDone
<1>1. ASSUME IssuanceInv, NEW c \in Calls, call[c].pc = "done"
      PROVE  LET id == call[c].id
             IN  /\ tx[c].status = "SUCCESS"
                 /\ rows[id] # NoRow
                 /\ call[c].op = "revoke" => /\ book[id].state = "Revoked"
                                             /\ rows[id].status = "REVOKED"
  <2>1. CallInv(c)
    BY <1>1 DEF IssuanceInv
  <2> QED
    BY <1>1, <2>1 DEF CallInv
<1>2. IssuanceInv => DoneIsDone
  BY <1>1 DEF DoneIsDone
<1> QED
  BY <1>2, IssuanceInvAlways, PTL

-----------------------------------------------------------------------------
(* The refinement of CredentialService.                                    *)

\* A call moves on: what it asks for, what it did and whether it returned stay.
MovesOn(d) ==
    /\ call'[d].op = call[d].op /\ call'[d].institution = call[d].institution
    /\ call'[d].graduate = call[d].graduate
    /\ call[d].op = "revoke" => call'[d].id = call[d].id
    /\ call'[d].pc = "done" <=> call[d].pc = "done"
    /\ call'[d].pc \in {"poll", "save"} /\ tx[d].status = "SUCCESS"
         => call[d].pc \in {"poll", "save"}
    /\ call'[d].pc = "idle" => call'[d] = call[d]

\* A step that callers cannot tell from calls being given up, or from nothing.
Quiet ==
    /\ UNCHANGED <<book, ledger, rows>>
    /\ \A d \in Calls :
          /\ \/ tx'[d] = tx[d]
             \/ tx[d].status # "SUCCESS" /\ tx'[d].status # "SUCCESS"
          /\ MovesOn(d) \/ (call'[d] = Thrown(d) /\ call[d].pc # "done")

\* What a call that throws still asks for: nothing, unless something was
\* submitted.
LEMMA ThrownRequest ==
    ASSUME IssuanceInv, NEW c \in Calls
    PROVE  /\ tx[c].status = "none" => /\ Thrown(c).op = "none" /\ Thrown(c).institution = "none"
                                       /\ Thrown(c).graduate = "none" /\ Thrown(c).id = 0
           /\ tx[c].status # "none" =>
                /\ Thrown(c).op = call[c].op /\ Thrown(c).institution = call[c].institution
                /\ Thrown(c).graduate = call[c].graduate /\ Thrown(c).id = call[c].id
BY ThrownEffect DEF Thrown, NewCall

\* A call has an effect exactly when its transaction succeeded.
LEMMA EffectOfSuccess ==
    ASSUME IssuanceInv, NEW c \in Calls
    PROVE  /\ tx[c].status = "SUCCESS" => Effect(c) = tx[c].id /\ Effect(c) \in Ids
                                          /\ Effect(c) = call[c].id
           /\ Effect(c) = 0 <=> tx[c].status # "SUCCESS"
BY CallType, IssuanceIdsAssumption DEF Effect, CallInv, Minted

LEMMA QuietIsGiveUp ==
    ASSUME IssuanceInv, Quiet
    PROVE  Service!GiveUp
<1> DEFINE C == {d \in Calls : ~ MovesOn(d) /\ tx[d].status = "none"}
<1>1. C \in SUBSET {c \in Calls : [d \in Calls |-> Effect(d)][c] = 0}
  BY EffectOfSuccess
<1>2. ASSUME NEW d \in Calls
      PROVE  Request(d)' = IF d \in C THEN Service!NoRequest ELSE Request(d)
  <2>1. CASE MovesOn(d)
    BY <2>1 DEF MovesOn, Request
  <2>2. CASE ~ MovesOn(d)
    <3>1. call'[d] = Thrown(d)
      BY <2>2 DEF Quiet
    <3> QED
      BY <2>2, <3>1, ThrownRequest DEF Request, Service!NoRequest
  <2> QED
    BY <2>1, <2>2
<1>3. [d \in Calls |-> Request(d)]'
        = [d \in Calls |-> IF d \in C THEN Service!NoRequest
                           ELSE [e \in Calls |-> Request(e)][d]]
  BY <1>2
<1>4. [d \in Calls |-> Effect(d)]' = [d \in Calls |-> Effect(d)]
  <2>1. ASSUME NEW d \in Calls PROVE Effect(d)' = Effect(d)
    BY DEF Quiet, Effect
  <2> QED
    BY <2>1
<1>5. {d \in Calls : call[d].pc = "done"}' = {d \in Calls : call[d].pc = "done"}
  <2>1. ASSUME NEW d \in Calls PROVE call'[d].pc = "done" <=> call[d].pc = "done"
    BY ThrownEffect DEF Quiet, MovesOn
  <2> QED
    BY <2>1
<1> HIDE DEF C
<1> QED
  BY <1>1, <1>3, <1>4, <1>5 DEF Service!GiveUp, Quiet

\* The steps of calls, of transactions and of the network that callers do not
\* see.
LEMMA OneMoves ==
    ASSUME IssuanceInv, NEW c \in Calls, UNCHANGED <<book, ledger, rows>>,
           \A d \in Calls \ {c} : call'[d] = call[d],
           \A d \in Calls :
              tx'[d] = tx[d] \/ (tx[d].status # "SUCCESS" /\ tx'[d].status # "SUCCESS"),
           MovesOn(c) \/ (call'[c] = Thrown(c) /\ call[c].pc # "done")
    PROVE  Quiet
BY DEF Quiet, MovesOn

LEMMA FailIsQuiet ==
    ASSUME IssuanceInv, NEW c \in Calls, Fail(c), call[c].pc # "done",
           UNCHANGED <<book, ledger, tx, rows>>
    PROVE  Quiet
<1>1. call'[c] = Thrown(c) /\ \A d \in Calls \ {c} : call'[d] = call[d]
  BY CallType DEF Fail
<1> QED
  BY <1>1, OneMoves

LEMMA GotoIsQuiet ==
    ASSUME IssuanceInv, NEW c \in Calls, NEW p \in PCs \ {"idle", "done"}, Goto(c, p),
           call[c].pc # "done",
           p \in {"poll", "save"} /\ tx[c].status = "SUCCESS" => call[c].pc \in {"poll", "save"},
           \A d \in Calls :
              tx'[d] = tx[d] \/ (tx[d].status # "SUCCESS" /\ tx'[d].status # "SUCCESS"),
           UNCHANGED <<book, ledger, rows>>
    PROVE  Quiet
<1>1. MovesOn(c) /\ \A d \in Calls \ {c} : call'[d] = call[d]
  BY GotoEffect DEF MovesOn
<1> QED
  BY <1>1, OneMoves

LEMMA QuietCallSteps ==
    ASSUME IssuanceInv, NEW c \in Calls,
           Pin(c) \/ Find(c) \/ GetAccount(c) \/ Simulate(c) \/ Send(c) \/ Poll(c) \/ Throw(c)
    PROVE  Quiet
<1> USE DEF chainVars
<1>1. {"account", "send", "poll", "failed"} \subseteq PCs \ {"idle", "done"}
  BY DEF PCs, Ended
<1>2. CASE Pin(c)
  BY <1>1, <1>2, GotoIsQuiet DEF Pin
<1>3. CASE Find(c)
  BY <1>1, <1>3, GotoIsQuiet, FailIsQuiet DEF Find
<1>4. CASE GetAccount(c)
  <2>1. /\ call' = [call EXCEPT ![c].pc = "simulate",
                                ![c].seq = account_seq[call[c].institution] + 1]
        /\ call[c].pc = "account" /\ UNCHANGED <<book, ledger, tx, rows>>
        /\ call[c] \in Call /\ call \in [Calls -> Call]
    BY <1>4, CallType DEF GetAccount
  <2>2. MovesOn(c) /\ \A d \in Calls \ {c} : call'[d] = call[d]
    BY <2>1 DEF MovesOn, Call
  <2> QED
    BY <2>1, <2>2, OneMoves
<1>5. CASE Simulate(c)
  <2>1. call[c].pc = "simulate" /\ UNCHANGED <<book, ledger, tx, rows>>
    BY <1>5 DEF Simulate
  <2>2. CASE Fail(c)
    BY <2>1, <2>2, FailIsQuiet
  <2>3. CASE Goto(c, "send")
    BY <1>1, <2>1, <2>3, GotoIsQuiet
  <2>4. ASSUME NEW id \in Ids, call[c].op = "issue",
               call' = [call EXCEPT ![c].pc = "send", ![c].id = id]
        PROVE  Quiet
    <3>1. call[c] \in Call /\ call \in [Calls -> Call]
      BY CallType
    <3>2. MovesOn(c) /\ \A d \in Calls \ {c} : call'[d] = call[d]
      BY <2>1, <2>4, <3>1 DEF MovesOn, Call
    <3> QED
      BY <2>1, <3>2, OneMoves
  <2> QED
    BY <1>5, <2>2, <2>3, <2>4 DEF Simulate
<1>6. CASE Send(c)
  <2>1. /\ call[c].pc = "send" /\ UNCHANGED <<book, ledger, rows>>
        /\ tx[c].status = "none"
    BY <1>6, CallType DEF Send, CallInv
  <2>2. CASE Fail(c) /\ UNCHANGED tx
    BY <2>1, <2>2, FailIsQuiet
  <2>3. ASSUME NEW p \in {"poll", "failed"}, NEW e \in {c} \cup Twins(c),
               NEW s \in {"pooled", "lost"}, Goto(c, p),
               tx' = With({c} \cup Sharing(e), s, 0, tx[e].hash)
        PROVE  Quiet
    <3>1. /\ e \in Calls /\ tx[e].hash \in Calls /\ s \in Status
          /\ tx[e].status \in {"none", "pooled", "lost"}
      BY <2>1, CallType DEF Twins, Status
    <3>2. \A d \in {c} \cup Sharing(e) : tx[d].status # "SUCCESS"
      BY <2>1, <3>1, SharingAlike
    <3>3. {c} \cup Sharing(e) \in SUBSET Calls
      BY DEF Sharing
    <3>4. /\ \A d \in {c} \cup Sharing(e) : tx'[d].status = s
          /\ \A d \in Calls \ ({c} \cup Sharing(e)) : tx'[d] = tx[d]
      BY <2>3, <3>1, <3>3, WithEffect
    <3>5. \A d \in Calls :
             tx'[d] = tx[d] \/ (tx[d].status # "SUCCESS" /\ tx'[d].status # "SUCCESS")
      BY <3>2, <3>4
    <3> QED
      BY <1>1, <2>1, <2>3, <3>5, GotoIsQuiet
  <2> QED
    BY <1>6, <2>2, <2>3 DEF Send
<1>7. CASE Poll(c)
  <2>1. /\ call[c].pc = "poll" /\ UNCHANGED <<book, ledger, tx, rows>>
        /\ call[c] \in Call /\ call \in [Calls -> Call] /\ CallInv(c)
    BY <1>7, CallType DEF Poll
  <2>2. CASE Fail(c)
    BY <2>1, <2>2, FailIsQuiet
  <2>3. CASE tx[c].status = "SUCCESS" /\ call' = [call EXCEPT ![c].pc = "save", ![c].id = tx[c].id]
    <3>1. tx[c].id = call[c].id
      BY <2>1, <2>3 DEF CallInv
    <3>2. MovesOn(c) /\ \A d \in Calls \ {c} : call'[d] = call[d]
      BY <2>1, <2>3, <3>1 DEF MovesOn, Call
    <3> QED
      BY <2>1, <3>2, OneMoves
  <2> QED
    BY <1>7, <2>2, <2>3 DEF Poll
<1>8. CASE Throw(c)
  BY <1>8, FailIsQuiet DEF Throw
<1> QED
  BY <1>2, <1>3, <1>4, <1>5, <1>6, <1>7, <1>8

LEMMA QuietCrash ==
    ASSUME IssuanceInv, Crash
    PROVE  Quiet
BY DEF Crash, chainVars, Quiet, MovesOn, Running, Ended

LEMMA QuietTransactions ==
    ASSUME IssuanceInv, NEW c \in Calls, NEW s \in {"lost", "FAILED"},
           tx[c].status = "pooled", tx' = With(Sharing(c), s, 0, tx[c].hash),
           UNCHANGED <<book, ledger, call, rows>>
    PROVE  Quiet
<1>1. /\ s \in Status /\ tx[c].hash \in Calls
      /\ Sharing(c) \in SUBSET Calls
      /\ \A d \in Sharing(c) : tx[d].status = "pooled"
  BY SharingAlike, CallType DEF Status
<1>2. /\ \A d \in Sharing(c) : tx'[d].status = s
      /\ \A d \in Calls \ Sharing(c) : tx'[d] = tx[d]
  BY <1>1, WithEffect
<1>3. \A d \in Calls :
         tx'[d] = tx[d] \/ (tx[d].status # "SUCCESS" /\ tx'[d].status # "SUCCESS")
  BY <1>1, <1>2
<1> QED
  BY <1>3, OneMoves DEF MovesOn

\* No two transactions revoked the same credential, and until a call whose
\* transaction did saves its row, the row says VALID, unless another call
\* submitted the same transaction.
RevokedApart ==
    \A c, d \in Calls :
       /\ call[c].op = "revoke" /\ tx[c].status = "SUCCESS"
       /\ call[d].op = "revoke" /\ tx[d].status = "SUCCESS" /\ tx[d].id = tx[c].id
       => tx[d].hash = tx[c].hash

HasTwin(c) ==
    \E d \in Calls \ {c} :
       call[d].op = "revoke" /\ tx[d].status = "SUCCESS" /\ tx[d].id = tx[c].id

Unrecorded(c) ==
    call[c].op = "revoke" /\ tx[c].status = "SUCCESS" /\ call[c].pc \in {"poll", "save"}
      => rows[tx[c].id].status = "VALID" \/ HasTwin(c)

\* A call that has not begun has asked for nothing.
IdleIsNew(c) == call[c].pc = "idle" => call[c] = NewCall

RecordInv == RevokedApart /\ \A c \in Calls : Unrecorded(c) /\ IdleIsNew(c)

LEMMA RecordInvInit == IssuanceInit => RecordInv
BY DEF IssuanceInit, NewCall, RecordInv, RevokedApart, Unrecorded, IdleIsNew

\* Steps without a new success and without a new row.
LEMMA RecordInvKept ==
    ASSUME IssuanceInv, RecordInv, UNCHANGED rows,
           \A d \in Calls :
              /\ tx'[d].status = "SUCCESS" \/ tx[d].status = "SUCCESS" =>
                   /\ tx'[d] = tx[d] /\ call'[d].op = call[d].op
                   /\ call'[d].pc \in {"poll", "save"} => call[d].pc \in {"poll", "save"}
              /\ call'[d].pc = "idle" => call'[d] = call[d]
    PROVE  RecordInv'
<1>1. RevokedApart'
  BY DEF RecordInv, RevokedApart
<1>2. ASSUME NEW d \in Calls
      PROVE  Unrecorded(d)' /\ IdleIsNew(d)'
  BY DEF RecordInv, Unrecorded, HasTwin, IdleIsNew
<1> QED
  BY <1>1, <1>2 DEF RecordInv

LEMMA QuietKeepsRecordInv ==
    ASSUME IssuanceInv, RecordInv, Quiet
    PROVE  RecordInv'
<1>1. ASSUME NEW d \in Calls, tx'[d].status = "SUCCESS" \/ tx[d].status = "SUCCESS"
      PROVE  /\ tx'[d] = tx[d] /\ call'[d].op = call[d].op
             /\ call'[d].pc \in {"poll", "save"} => call[d].pc \in {"poll", "save"}
  <2>1. tx'[d] = tx[d]
    BY <1>1 DEF Quiet
  <2>2. CASE MovesOn(d)
    BY <1>1, <2>1, <2>2 DEF MovesOn
  <2>3. CASE call'[d] = Thrown(d)
    BY <1>1, <2>1, <2>3, ThrownEffect
  <2> QED
    BY <2>2, <2>3 DEF Quiet
<1>2. ASSUME NEW d \in Calls, call'[d].pc = "idle"
      PROVE  call'[d] = call[d]
  BY <1>2, ThrownEffect DEF Quiet, MovesOn
<1> QED
  BY <1>1, <1>2, RecordInvKept DEF Quiet

\* A call begins to run for somebody.
LEMMA BeginIsAsk ==
    ASSUME IssuanceInv, RecordInv, NEW c \in Calls, NEW k \in Call, call[c].pc = "idle",
           call' = [call EXCEPT ![c] = k], k.pc \in {"pin", "find"},
           UNCHANGED <<book, ledger, tx, rows>>
    PROVE  /\ RecordInv'
           /\ call'[c] = k
           /\ Request(c) = Service!NoRequest
           /\ [d \in Calls |-> Request(d)]'
                = [[d \in Calls |-> Request(d)] EXCEPT ![c] =
                     [op |-> k.op, institution |-> k.institution, graduate |-> k.graduate,
                      id |-> IF k.op = "revoke" THEN k.id ELSE 0]]
           /\ [d \in Calls |-> Effect(d)]' = [d \in Calls |-> Effect(d)]
           /\ {d \in Calls : call[d].pc = "done"}' = {d \in Calls : call[d].pc = "done"}
<1>1. call \in [Calls -> Call] /\ CallInv(c)
  BY CallType
<1>2. call'[c] = k /\ \A d \in Calls \ {c} : call'[d] = call[d]
  BY <1>1
<1>3. tx[c].status = "none"
  BY <1>1 DEF CallInv
<1>4. RecordInv'
  BY <1>2, <1>3, RecordInvKept
<1>5. Request(c) = Service!NoRequest
  BY DEF RecordInv, IdleIsNew, NewCall, Request, Service!NoRequest
<1>6. ASSUME NEW d \in Calls
      PROVE  /\ Request(d)' = IF d = c THEN [op |-> k.op, institution |-> k.institution,
                                             graduate |-> k.graduate,
                                             id |-> IF k.op = "revoke" THEN k.id ELSE 0]
                              ELSE Request(d)
             /\ Effect(d)' = Effect(d)
             /\ call'[d].pc = "done" <=> call[d].pc = "done"
  BY <1>2 DEF Request, Effect
<1> QED
  BY <1>2, <1>4, <1>5, <1>6

LEMMA BeginIssueIsAsk ==
    ASSUME IssuanceInv, RecordInv, NEW c \in Calls, NEW institution \in Institutions,
           NEW graduate \in Addresses, BeginIssue(c, institution, graduate)
    PROVE  Service!Ask(c) /\ RecordInv'
<1> DEFINE k == [NewCall EXCEPT !.pc = "pin", !.op = "issue",
                                !.institution = institution, !.graduate = graduate]
<1>1. /\ k \in Call /\ k.pc = "pin" /\ k.op = "issue" /\ k.institution = institution
      /\ k.graduate = graduate
  BY DEF NewCall, Call
<1>2. /\ call' = [call EXCEPT ![c] = k] /\ call[c].pc = "idle"
      /\ UNCHANGED <<book, ledger, tx, rows>>
  BY DEF BeginIssue, chainVars
<1> HIDE DEF k
<1>3. /\ RecordInv'
      /\ Request(c) = Service!NoRequest
      /\ [d \in Calls |-> Request(d)]'
           = [[d \in Calls |-> Request(d)] EXCEPT ![c] =
                [op |-> "issue", institution |-> institution, graduate |-> graduate, id |-> 0]]
      /\ [d \in Calls |-> Effect(d)]' = [d \in Calls |-> Effect(d)]
      /\ {d \in Calls : call[d].pc = "done"}' = {d \in Calls : call[d].pc = "done"}
  BY <1>1, <1>2, BeginIsAsk
<1>4. Service!Ask(c)
  BY <1>2, <1>3 DEF Service!Ask
<1> QED
  BY <1>3, <1>4

LEMMA BeginRevokeIsAsk ==
    ASSUME IssuanceInv, RecordInv, NEW c \in Calls, NEW institution \in Institutions,
           NEW id \in Ids, BeginRevoke(c, institution, id)
    PROVE  Service!Ask(c) /\ RecordInv'
<1> DEFINE k == [NewCall EXCEPT !.pc = "find", !.op = "revoke",
                                !.institution = institution, !.id = id]
<1>1. /\ k \in Call /\ k.pc = "find" /\ k.op = "revoke" /\ k.institution = institution
      /\ k.graduate = "none" /\ k.id = id
  BY DEF NewCall, Call
<1>2. /\ call' = [call EXCEPT ![c] = k] /\ call[c].pc = "idle"
      /\ UNCHANGED <<book, ledger, tx, rows>>
  BY DEF BeginRevoke, chainVars
<1> HIDE DEF k
<1>3. /\ RecordInv'
      /\ Request(c) = Service!NoRequest
      /\ [d \in Calls |-> Request(d)]'
           = [[d \in Calls |-> Request(d)] EXCEPT ![c] =
                [op |-> "revoke", institution |-> institution, graduate |-> "none", id |-> id]]
      /\ [d \in Calls |-> Effect(d)]' = [d \in Calls |-> Effect(d)]
      /\ {d \in Calls : call[d].pc = "done"}' = {d \in Calls : call[d].pc = "done"}
  <2>1. /\ RecordInv'
        /\ Request(c) = Service!NoRequest
        /\ [d \in Calls |-> Request(d)]'
             = [[d \in Calls |-> Request(d)] EXCEPT ![c] =
                  [op |-> k.op, institution |-> k.institution, graduate |-> k.graduate,
                   id |-> IF k.op = "revoke" THEN k.id ELSE 0]]
        /\ [d \in Calls |-> Effect(d)]' = [d \in Calls |-> Effect(d)]
        /\ {d \in Calls : call[d].pc = "done"}' = {d \in Calls : call[d].pc = "done"}
    BY <1>1, <1>2, BeginIsAsk
  <2> QED
    BY <1>1, <2>1
<1>4. Service!Ask(c)
  BY <1>2, <1>3 DEF Service!Ask
<1> QED
  BY <1>3, <1>4

\* A transaction succeeds: the calls that share it take effect.
LEMMA SuccessIsEffect ==
    ASSUME IssuanceInv, RecordInv, NEW c \in Calls, tx[c].status = "pooled",
           tx' = With(Sharing(c), "SUCCESS", call[c].id, tx[c].hash),
           call[c].op = "revoke" => book[call[c].id].state = "Valid",
           UNCHANGED <<call, rows>>
    PROVE  /\ RecordInv'
           /\ call[c].id \in Ids
           /\ [d \in Calls |-> Request(d)]' = [d \in Calls |-> Request(d)]
           /\ \A d \in Sharing(c) : Effect(d) = 0
           /\ \A d \in Calls :
                 Effect(d)' = IF d \in Sharing(c) THEN call[c].id ELSE Effect(d)
           /\ {d \in Calls : call[d].pc = "done"}' = {d \in Calls : call[d].pc = "done"}
<1> DEFINE C == Sharing(c)
<1>1. CallInv(c) /\ call[c].id \in Ids
  BY CallType DEF CallInv
<1>2. /\ C \in SUBSET Calls /\ c \in C /\ tx[c].hash \in Calls /\ "SUCCESS" \in Status
      /\ \A d \in C \ {c} : Alike(c, d)
      /\ \A d \in C : tx[d].status = "pooled"
  BY SharingAlike, CallType DEF Status
<1>3. /\ \A d \in C : /\ tx'[d].status = "SUCCESS" /\ tx'[d].id = call[c].id
                      /\ tx'[d].hash = tx[c].hash
      /\ \A d \in Calls \ C : tx'[d] = tx[d]
  BY <1>1, <1>2, WithEffect
<1> HIDE DEF C
<1>4. ASSUME NEW d \in Calls \ C, call[d].op = "revoke", tx[d].status = "SUCCESS",
             NEW e \in C, call[e].op = "revoke"
      PROVE  tx[d].id # call[c].id
  <2>1. book[tx[d].id].state = "Revoked"
    BY <1>4 DEF IssuanceInv, CallInv
  <2>2. call[c].op = "revoke"
    BY <1>2, <1>4 DEF Alike
  <2> QED
    BY <2>1, <2>2
<1>5. RevokedApart'
  <2>1. ASSUME NEW d \in Calls, NEW e \in Calls,
               call[d].op = "revoke", tx'[d].status = "SUCCESS",
               call[e].op = "revoke", tx'[e].status = "SUCCESS", tx'[e].id = tx'[d].id
        PROVE  tx'[e].hash = tx'[d].hash
    BY <1>3, <1>4, <2>1 DEF RecordInv, RevokedApart
  <2> QED
    BY <2>1 DEF RevokedApart
<1>6. ASSUME NEW d \in Calls PROVE Unrecorded(d)' /\ IdleIsNew(d)'
  <2>1. CASE d \notin C
    <3>1. tx'[d] = tx[d]
      BY <1>3, <2>1
    <3>2. \A e \in Calls : tx[e].status = "SUCCESS" => tx'[e] = tx[e]
      BY <1>2, <1>3
    <3> QED
      BY <3>1, <3>2 DEF RecordInv, Unrecorded, HasTwin, IdleIsNew
  <2>2. ASSUME d \in C, call[d].op = "revoke", call[d].pc \in {"poll", "save"}
        PROVE  rows[call[c].id].status = "VALID"
    <3>1. call[c].op = "revoke" /\ call[d].id = call[c].id
      BY <1>2, <2>2 DEF Alike
    <3>2. rows[call[c].id] # NoRow
      BY <2>2, <3>1, CallType DEF CallInv
    <3>3. rows[call[c].id] \in Row /\ rows[call[c].id].status # "REVOKED"
      BY <1>1, <3>1, <3>2 DEF IssuanceInv, IssuanceTypeOK, RowsFollowChain
    <3> QED
      BY <3>3 DEF Row
  <2>3. CASE d \in C
    BY <1>3, <2>2, <2>3 DEF RecordInv, Unrecorded, IdleIsNew
  <2> QED
    BY <2>1, <2>3
<1>7. ASSUME NEW d \in Calls
      PROVE  /\ Request(d)' = Request(d)
             /\ Effect(d)' = IF d \in C THEN call[c].id ELSE Effect(d)
  BY <1>3 DEF Request, Effect
<1>8. \A d \in C : Effect(d) = 0
  BY <1>2 DEF Effect
<1>9. RecordInv'
  BY <1>5, <1>6 DEF RecordInv
<1> QED
  BY <1>1, <1>7, <1>8, <1>9 DEF C

LEMMA ApplyIsEffect ==
    ASSUME IssuanceInv, RecordInv, NEW c \in Calls, Apply(c)
    PROVE  /\ RecordInv'
           /\ \/ Service!GiveUp
              \/ \E id \in Ids : Service!IssueFor(c, id)
              \/ \E C \in SUBSET Calls, id \in Ids : Service!RevokeFor(C, id)
<1>1. tx[c].status = "pooled" /\ UNCHANGED <<call, rows>> /\ CallInv(c)
  BY CallType DEF Apply
<1>2. ASSUME call[c].op = "issue",
             Mint(call[c].id, call[c].institution, call[c].graduate, 0),
             tx' = With(Sharing(c), "SUCCESS", call[c].id, tx[c].hash)
      PROVE  RecordInv' /\ \E id \in Ids : Service!IssueFor(c, id)
  <2>1. Request(c).op = "issue" /\ Request(c).institution = call[c].institution
        /\ Request(c).graduate = call[c].graduate
    BY <1>2 DEF Request
  <2>2. Service!Mint(call[c].id, call[c].institution, call[c].graduate, 0)
    BY <1>2 DEF Mint, Service!Mint
  <2>3. /\ RecordInv'
        /\ call[c].id \in Ids
        /\ [d \in Calls |-> Request(d)]' = [d \in Calls |-> Request(d)]
        /\ \A d \in Sharing(c) : Effect(d) = 0
        /\ \A d \in Calls : Effect(d)' = IF d \in Sharing(c) THEN call[c].id ELSE Effect(d)
        /\ {d \in Calls : call[d].pc = "done"}' = {d \in Calls : call[d].pc = "done"}
    BY <1>1, <1>2, SuccessIsEffect
  <2>4. Sharing(c) = {c}
    BY <1>2, SharingAlike DEF Alike
  <2>5. [d \in Calls |-> Effect(d)]'
          = [[d \in Calls |-> Effect(d)] EXCEPT ![c] = call[c].id]
    BY <2>3, <2>4
  <2>6. Service!IssueFor(c, call[c].id)
    BY <1>1, <2>1, <2>2, <2>3, <2>4, <2>5 DEF Service!IssueFor
  <2> QED
    BY <2>3, <2>6
<1>3. ASSUME call[c].op = "revoke", Revocable(call[c].id, call[c].institution),
             Revoke(call[c].id),
             tx' = With(Sharing(c), "SUCCESS", call[c].id, tx[c].hash)
      PROVE  RecordInv' /\ \E C \in SUBSET Calls, id \in Ids : Service!RevokeFor(C, id)
  <2>1. ASSUME NEW d \in Sharing(c)
        PROVE  /\ d \in Calls /\ Request(d).op = "revoke" /\ Request(d).id = call[c].id
               /\ Request(d).institution = call[c].institution
    BY <1>3, SharingAlike DEF Alike, Request
  <2>2. Service!Revoke(call[c].id) /\ book[call[c].id].state = "Valid"
        /\ book[call[c].id] # Absent
        /\ book[call[c].id].institution = call[c].institution
    BY <1>3 DEF Revoke, Service!Revoke, Revocable, Minted
  <2>3. /\ RecordInv'
        /\ call[c].id \in Ids
        /\ [d \in Calls |-> Request(d)]' = [d \in Calls |-> Request(d)]
        /\ \A d \in Sharing(c) : Effect(d) = 0
        /\ \A d \in Calls : Effect(d)' = IF d \in Sharing(c) THEN call[c].id ELSE Effect(d)
        /\ {d \in Calls : call[d].pc = "done"}' = {d \in Calls : call[d].pc = "done"}
    BY <1>1, <1>3, <2>2, SuccessIsEffect
  <2>4. c \in Sharing(c) /\ Sharing(c) \in SUBSET Calls
    BY SharingAlike
  <2>5. Service!RevokeFor(Sharing(c), call[c].id)
    BY <1>1, <2>1, <2>2, <2>3, <2>4 DEF Service!RevokeFor
  <2> QED
    BY <2>3, <2>4, <2>5
<1>4. CASE tx' = With(Sharing(c), "FAILED", 0, tx[c].hash) /\ UNCHANGED <<book, ledger>>
  BY <1>1, <1>4, QuietTransactions, QuietIsGiveUp, QuietKeepsRecordInv
<1> QED
  BY <1>2, <1>3, <1>4 DEF Apply, chainVars

\* A call returns after it mailed.
LEMMA NotifyIsAnswer ==
    ASSUME IssuanceInv, RecordInv, NEW c \in Calls, Notify(c)
    PROVE  RecordInv' /\ \E id \in Ids : Service!Answer(c, id)
<1>0. PICK id : id = call[c].id
  OBVIOUS
<1>1. /\ call[c].pc = "notify" /\ Goto(c, "done") /\ CallInv(c) /\ "done" \in PCs
      /\ UNCHANGED <<book, ledger, tx, account_seq, rows>>
  BY CallType DEF Notify, chainVars, PCs, Ended
<1>2. /\ call'[c].pc = "done" /\ call'[c].op = call[c].op
      /\ call'[c].institution = call[c].institution
      /\ call'[c].graduate = call[c].graduate /\ call'[c].id = call[c].id
      /\ \A d \in Calls \ {c} : call'[d] = call[d]
  BY <1>1, GotoEffect
<1>3. RecordInv'
  BY <1>1, <1>2, RecordInvKept
<1>4. /\ Effect(c) = id /\ id \in Ids /\ rows[id] # NoRow
      /\ call[c].op = "revoke" => rows[id].status = "REVOKED"
  BY <1>0, <1>1, EffectOfSuccess DEF CallInv
<1>5. ASSUME NEW d \in Calls
      PROVE  Request(d)' = Request(d) /\ Effect(d)' = Effect(d)
  BY <1>1, <1>2 DEF Request, Effect
<1>6. {d \in Calls : call[d].pc = "done"}' = {d \in Calls : call[d].pc = "done"} \cup {c}
  BY <1>2
<1>7. Request(c).op = call[c].op
  BY DEF Request
<1>8. Service!Answer(c, id)
  BY <1>1, <1>4, <1>5, <1>6, <1>7 DEF Service!Answer
<1> QED
  BY <1>3, <1>4, <1>8

\* The chain is used by others.
LEMMA OtherUseIsElsewhere ==
    ASSUME IssuanceInv, RecordInv, OtherUse
    PROVE  RecordInv' /\ Service!Elsewhere
<1>1. UNCHANGED <<call, tx, rows>>
  BY DEF OtherUse
<1>2. RecordInv'
  BY <1>1, RecordInvKept
<1>3. \E id \in Ids : \/ \E institution, graduate \in Addresses :
                            Service!Mint(id, institution, graduate, 0)
                      \/ Service!Revoke(id)
  BY DEF OtherUse, Minted, Mint, Revoke, Service!Mint, Service!Revoke
<1>4. ASSUME NEW d \in Calls
      PROVE  Request(d)' = Request(d) /\ Effect(d)' = Effect(d)
  BY <1>1 DEF Request, Effect
<1> QED
  BY <1>1, <1>2, <1>3, <1>4 DEF Service!Elsewhere

\* A call's effect reaches the table.
LEMMA SaveRowIsRecord ==
    ASSUME IssuanceInv, RecordInv, NEW c \in Calls, SaveRow(c)
    PROVE  RecordInv' /\ \E id \in Ids : Service!Record(c, id)
<1>0. PICK id : id = call[c].id
  OBVIOUS
<1>1. /\ call[c].pc = "save" /\ UNCHANGED <<book, ledger, tx, account_seq>>
      /\ CallInv(c) /\ tx[c].status = "SUCCESS" /\ tx[c].id = id /\ id \in Ids
      /\ call \in [Calls -> Call]
      /\ call[c].op \in {"issue", "revoke"}
  BY <1>0, CallType DEF SaveRow, CallInv, Minted, chainVars
<1>2. /\ \A d \in Calls \ {c} : call'[d] = call[d]
      /\ call'[c].op = call[c].op /\ call'[c].institution = call[c].institution
      /\ call'[c].graduate = call[c].graduate /\ call'[c].id = id
      /\ call'[c].pc \in {"notify", "done", "failed"}
  <2>1. CASE Fail(c)
    BY <1>0, <1>1, <2>1, ThrownEffect DEF Fail
  <2>2. ASSUME NEW p \in {"notify", "done"}, Goto(c, p)
        PROVE  /\ \A d \in Calls \ {c} : call'[d] = call[d]
               /\ call'[c].op = call[c].op /\ call'[c].institution = call[c].institution
               /\ call'[c].graduate = call[c].graduate /\ call'[c].id = id
               /\ call'[c].pc \in {"notify", "done", "failed"}
    <3>1. p \in PCs
      BY DEF PCs, Ended
    <3> QED
      BY <1>0, <2>2, <3>1, GotoEffect
  <2> QED
    BY <2>1, <2>2 DEF SaveRow
<1>3. ASSUME NEW d \in Calls
      PROVE  Request(d)' = Request(d) /\ Effect(d)' = Effect(d)
  BY <1>0, <1>1, <1>2 DEF Request, Effect
<1>4. {d \in Calls : call[d].pc = "done"}'
        \in {{d \in Calls : call[d].pc = "done"}, {d \in Calls : call[d].pc = "done"} \cup {c}}
  BY <1>1, <1>2
<1>5. Effect(c) = id /\ rows \in [Ids -> Row \cup {NoRow}]
  BY <1>0, <1>1, EffectOfSuccess DEF IssuanceInv, IssuanceTypeOK
<1>6. /\ Request(c).op = call[c].op /\ Request(c).institution = call[c].institution
      /\ Request(c).graduate = call[c].graduate
  BY DEF Request
<1>7. Service!Record(c, id)
  <2>1. CASE call[c].op = "issue"
    <3>1. /\ rows[id] = NoRow
          /\ rows' = [rows EXCEPT ![id] = [institution |-> call[c].institution,
                                           graduate |-> call[c].graduate,
                                           status |-> "VALID"]]
      BY <1>0, <2>1 DEF SaveRow
    <3> QED
      BY <1>1, <1>3, <1>4, <1>5, <1>6, <2>1, <3>1 DEF Service!Record
  <2>2. CASE call[c].op = "revoke"
    <3>1. rows[id] # NoRow /\ rows' = [rows EXCEPT ![id].status = "REVOKED"]
      BY <1>0, <1>1, <2>2 DEF SaveRow, CallInv
    <3>2. rows[id].status = "VALID" \/ HasTwin(c)
      BY <1>1, <2>2 DEF RecordInv, Unrecorded
    <3>3. HasTwin(c) => Service!Shared(c)
      BY <1>1, <1>5 DEF HasTwin, Request, Effect, Service!Shared
    <3> QED
      BY <1>1, <1>3, <1>4, <1>5, <1>6, <2>2, <3>1, <3>2, <3>3 DEF Service!Record
  <2> QED
    BY <1>1, <2>1, <2>2
<1>8. \A other \in Ids \ {id} : rows'[other] = rows[other]
  BY <1>0, <1>5 DEF SaveRow
<1>9. ASSUME NEW d \in Calls \ {c}, call[d].op = "revoke", tx[d].status = "SUCCESS",
             call[d].pc \in {"poll", "save"}
      PROVE  tx[d].id \in Ids /\ (tx[d].id = id => HasTwin(d)')
  <2>1. CallInv(d) /\ tx[d].id \in Ids /\ tx[d].id = call[d].id
    BY <1>9 DEF IssuanceInv, CallInv, Minted
  <2>2. CASE call[c].op = "revoke"
    BY <1>1, <1>2, <1>9, <2>1, <2>2 DEF HasTwin
  <2>3. CASE call[c].op = "issue"
    BY <1>1, <1>9, <2>1, <2>3 DEF CallInv
  <2> QED
    BY <1>1, <2>1, <2>2, <2>3
<1>10. RecordInv'
  <2>1. \A e \in Calls : tx'[e] = tx[e] /\ call'[e].op = call[e].op
    BY <1>1, <1>2
  <2>2. RevokedApart'
    BY <2>1 DEF RecordInv, RevokedApart
  <2>3. ASSUME NEW d \in Calls PROVE Unrecorded(d)' /\ IdleIsNew(d)'
    <3>1. CASE d = c
      BY <1>2, <3>1 DEF Unrecorded, IdleIsNew
    <3>2. CASE d # c
      <4>1. call'[d] = call[d] /\ tx'[d] = tx[d] /\ (HasTwin(d) => HasTwin(d)')
        BY <1>2, <2>1, <3>2 DEF HasTwin
      <4> QED
        BY <1>8, <1>9, <3>2, <4>1 DEF RecordInv, Unrecorded, IdleIsNew
    <3> QED
      BY <3>1, <3>2
  <2> QED
    BY <2>2, <2>3 DEF RecordInv
<1> QED
  BY <1>1, <1>7, <1>10

\* Every step is one of the service, or none.
LEMMA ServiceStep ==
    ASSUME IssuanceInv, RecordInv, [IssuanceNext]_issuanceVars
    PROVE  RecordInv' /\ [Service!ServiceNext]_(Service!serviceVars)
<1>1. CASE Quiet
  BY <1>1, QuietIsGiveUp, QuietKeepsRecordInv DEF Service!ServiceNext
<1>2. CASE UNCHANGED issuanceVars
  <2>1. Quiet
    BY <1>2 DEF issuanceVars, Quiet, MovesOn
  <2> QED
    BY <1>1, <2>1
<1>3. ASSUME NEW c \in Calls,
             \/ \E institution \in Institutions, graduate \in Addresses :
                   BeginIssue(c, institution, graduate)
             \/ \E institution \in Institutions, id \in Ids : BeginRevoke(c, institution, id)
      PROVE  RecordInv' /\ Service!ServiceNext
  BY <1>3, BeginIssueIsAsk, BeginRevokeIsAsk DEF Service!ServiceNext
<1>4. ASSUME NEW c \in Calls, CallStep(c) \/ Throw(c)
      PROVE  RecordInv' /\ [Service!ServiceNext]_(Service!serviceVars)
  <2>1. CASE SaveRow(c)
    BY <2>1, SaveRowIsRecord DEF Service!ServiceNext
  <2>2. CASE Notify(c)
    BY <2>2, NotifyIsAnswer DEF Service!ServiceNext
  <2>3. CASE ~ SaveRow(c) /\ ~ Notify(c)
    BY <1>1, <1>4, <2>3, QuietCallSteps DEF CallStep
  <2> QED
    BY <2>1, <2>2, <2>3
<1>5. ASSUME NEW c \in Calls, Apply(c)
      PROVE  RecordInv' /\ Service!ServiceNext
  BY <1>5, ApplyIsEffect DEF Service!ServiceNext
<1>6. ASSUME NEW c \in Calls, Drop(c)
      PROVE  RecordInv' /\ [Service!ServiceNext]_(Service!serviceVars)
  BY <1>1, <1>6, QuietTransactions DEF Drop, chainVars
<1>7. CASE Crash
  BY <1>1, <1>7, QuietCrash
<1>8. CASE OtherUse
  BY <1>8, OtherUseIsElsewhere DEF Service!ServiceNext
<1> QED
  BY <1>2, <1>3, <1>4, <1>5, <1>6, <1>7, <1>8 DEF IssuanceNext

\* Issuing and revoking through the backend keep the service's promise for any
\* number of calls: an effect at most once and as asked, recorded only after it
\* happened, and no return before that.  An issue is recorded once; so is a
\* revocation, unless an equal one shares its transaction.
THEOREM IssuanceImplementsService == IssuanceSpec => ImplementsService
<1>1. IssuanceInit => Service!ServiceInit
  BY DEF IssuanceInit, Init, NewCall, Request, Effect,
         Service!ServiceInit, Service!Init, Service!NoRequest
<1> QED
  BY <1>1, IssuanceInvAlways, RecordInvInit, ServiceStep, PTL
     DEF IssuanceSpec, ImplementsService, Service!ServiceSpec
=============================================================================
