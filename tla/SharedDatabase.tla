---------------------------- MODULE SharedDatabase ----------------------------
(***************************************************************************)
(* The prompt tables when several processes (CLI sessions, the HTTP        *)
(* server, the MCP server) have the same database file open.  A SQLite     *)
(* transaction stays atomic; a method that runs several statements outside *)
(* of one gives the other processes a chance to write between them.        *)
(* Those methods are split here, one action per statement that reads what  *)
(* a later one relies on; the transactional ones are PromptRepository's.   *)
(***************************************************************************)
EXTENDS PromptRepository

CONSTANT Processes

VARIABLE call   \* per process: the call it has begun, and what that call read

sharedVars == <<prompts, versions, fts, tags, promptTags, call>>

Idle == [step |-> "idle"]

SharedInit == Init /\ call = [x \in Processes |-> Idle]

IsIdle(x) == call[x] = Idle
Proceed(x, next) == call' = [call EXCEPT ![x] = next]
Return(x) == Proceed(x, Idle)

(* An UPDATE ... WHERE id = ? of a row that is gone changes nothing. *)
IfPresent(p, Step) == IF p \in DOMAIN prompts THEN Step ELSE UNCHANGED vars

(* The SELECT of a call: the row must be there, active or in the trash as  *)
(* the call requires, or the call throws.                                  *)
BeginSoftDelete(x, p) ==
  /\ IsIdle(x) /\ Active(p)
  /\ Proceed(x, [step |-> "trash", prompt |-> p])
  /\ UNCHANGED vars

BeginRestore(x, p) ==
  /\ IsIdle(x) /\ p \in DOMAIN prompts /\ prompts[p].trashed
  /\ Proceed(x, [step |-> "untrash", prompt |-> p])
  /\ UNCHANGED vars

(* The UPDATE does not repeat the condition on deleted_at. *)
FinishSoftDelete(x) ==
  /\ call[x].step = "trash"
  /\ IfPresent(call[x].prompt, SetTrashed(call[x].prompt, TRUE))
  /\ Return(x)

FinishRestore(x) ==
  /\ call[x].step = "untrash"
  /\ IfPresent(call[x].prompt, SetTrashed(call[x].prompt, FALSE))
  /\ Return(x)

(* updatePromptMetadata: SELECT id; SELECT the current row; UPDATE. *)
BeginUpdate(x, p, title, category) ==
  /\ IsIdle(x) /\ Active(p)
  /\ title # Keep \/ category # Keep
  /\ Proceed(x, [step |-> "check", prompt |-> p, title |-> title, category |-> category])
  /\ UNCHANGED vars

(* A row that vanished since the check leaves nothing to write: the call   *)
(* fails on the missing row, or its UPDATE finds none.                     *)
ReadCurrent(x) ==
  /\ call[x].step = "check"
  /\ LET p == call[x].prompt
     IN IF p \in DOMAIN prompts
        THEN Proceed(x, [step |-> "read", prompt |-> p, title |-> call[x].title,
                         category |-> call[x].category, seen |-> prompts[p]])
        ELSE Return(x)
  /\ UNCHANGED vars

(* Fault: the whole row is written back, deleted_at included. *)
WriteUpdateWholeRow(x) ==
  /\ call[x].step = "read"
  /\ LET c == call[x]
     IN IfPresent(c.prompt,
          /\ prompts' = [prompts EXCEPT ![c.prompt] =
               [c.seen EXCEPT !.title = Chosen(c.title, @), !.category = Chosen(c.category, @)]]
          /\ fts' = Reindex(fts, prompts', versions, c.prompt)
          /\ UNCHANGED <<versions, tags, promptTags>>)
  /\ Return(x)

(* The columns given are written; the checksum covers the row as read. *)
WriteUpdate(x) ==
  /\ call[x].step = "read"
  /\ LET c == call[x]
         p == c.prompt
         current == prompts[p]
         written == [current EXCEPT
           !.title = Chosen(c.title, current.title),
           !.category = Chosen(c.category, current.category),
           !.checksum = Checksum(c.seen.slug, Chosen(c.title, c.seen.title),
                                 Chosen(c.category, c.seen.category))]
     IN IfPresent(p,
          /\ prompts' = [prompts EXCEPT ![p] = written]
          /\ fts' = IF c.title = Keep THEN fts ELSE Reindex(fts, prompts', versions, p)
          /\ UNCHANGED <<versions, tags, promptTags>>)
  /\ Return(x)

(* PromptVaultService.addVersion reads the active prompt, then runs the    *)
(* transaction; a purge in between makes the foreign key fail.  A table    *)
(* at the bound MaxRow refuses the row too, so that no call hangs there.   *)
BeginAddVersion(x, p, body, format) ==
  /\ IsIdle(x) /\ Active(p)
  /\ Proceed(x, [step |-> "append", prompt |-> p, body |-> body, format |-> format])
  /\ UNCHANGED vars

FinishAddVersion(x) ==
  /\ call[x].step = "append"
  /\ LET c == call[x]
     IN IF c.prompt \in DOMAIN prompts /\ NextRow({v.row : v \in versions}) # {}
        THEN \E at \in Times : AddVersion(c.prompt, c.body, c.format, at)
        ELSE UNCHANGED vars
  /\ Return(x)

(* The methods that are one transaction. *)
Transaction(x) ==
  /\ IsIdle(x)
  /\ \/ \E p \in PromptIds, s \in Slugs, t \in Titles, c \in Categories,
           b \in Bodies, f \in Formats, at \in Times : CreatePrompt(p, s, t, c, b, f, at)
     \/ \E p \in PromptIds : PermanentlyDeletePrompt(p)
  /\ UNCHANGED call

SharedNext ==
  \E x \in Processes :
    \/ \E p \in PromptIds : BeginSoftDelete(x, p)
    \/ \E p \in PromptIds : BeginRestore(x, p)
    \/ \E p \in PromptIds, t \in Titles \cup {Keep}, c \in Categories \cup {Keep} :
         BeginUpdate(x, p, t, c)
    \/ \E p \in PromptIds, b \in Bodies, f \in Formats : BeginAddVersion(x, p, b, f)
    \/ FinishSoftDelete(x)
    \/ FinishRestore(x)
    \/ ReadCurrent(x)
    \/ WriteUpdate(x)
    \/ FinishAddVersion(x)
    \/ Transaction(x)

SharedSpec == SharedInit /\ [][SharedNext]_sharedVars

=============================================================================
