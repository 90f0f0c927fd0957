--------------------------- MODULE PromptComposer ---------------------------
(***************************************************************************)
(* The composer of one tab of the panel: what the user types, the message  *)
(* being sent (_promptMutations), and the draft kept of both in the        *)
(* DraftRecoveryStore, into which another tab of the user writes too.      *)
(*                                                                         *)
(* A message keeps its request id through every retry, and the App takes a *)
(* request id once.  Answers get lost; the panel may learn from the events *)
(* of the chat that a message was taken.  A call may be refused before its *)
(* request id is looked up, also that of a message that has been taken;    *)
(* the text is then a draft again.  While a message is being sent the      *)
(* composer is locked.  The tab may be closed and opened again.            *)
(***************************************************************************)
EXTENDS DraftRecovery

CONSTANTS
    Self,       \* the tab
    Here,       \* the chat it shows
    MaxEdits,   \* bound: edits in this tab
    MaxMessages, \* bound: messages of this tab
    MaxMishaps  \* bound: lost answers, failed transactions, reloads

ASSUME ComposerAssumption ==
    /\ Self \in Tab /\ Here \in DraftChat
    /\ MaxEdits \in Nat /\ MaxMessages \in Nat /\ MaxMishaps \in Nat

VARIABLES
    composer, \* the text of the draft, _draftEditRevisions, and whether the
              \* stored draft has been looked at since the tab was opened
    message,  \* the prompt mutation of the chat
    sent,     \* the text of every message, by request id
    outgoing, \* calls on their way to the App
    accepted, \* request ids the App has taken
    returned, \* history: request ids of refused messages
    restored, \* the answer of a restoreDraft that has not been applied
    mishaps, reloads

composerVars == <<composer, message, sent, outgoing, accepted, returned, restored, mishaps,
                  reloads>>
draftVars == <<storeVars, composerVars>>

NoMessage == [id |-> 0, try |-> 0, edit |-> 0, state |-> "none", save |-> 0, saved |-> FALSE,
              removal |-> "no"]
\* A call: each attempt to send a message makes one of its own.
CallOf(m) == [id |-> m.id, try |-> m.try]
NothingRestored == [edit |-> 0, text |-> 0]

ComposerInit ==
    /\ StoreInit
    /\ composer = [text |-> 0, edit |-> 1, checked |-> TRUE]
    /\ message = NoMessage /\ sent = <<>> /\ outgoing = {} /\ accepted = {} /\ returned = {}
    /\ restored = NothingRestored /\ mishaps = 0 /\ reloads = 0

Mishap == mishaps < MaxMishaps /\ mishaps' = mishaps + 1

\* _setDraftForThread; a text is named by the edit that wrote it.
Type(r) ==
    /\ message = NoMessage /\ composer.edit < MaxEdits
    /\ \E text \in {0, composer.edit + 1} :
         /\ composer' = [composer EXCEPT !.text = text, !.edit = @ + 1]
         /\ SaveText(Self, Here, text, r)
    /\ UNCHANGED <<store, horizon, applied, forgot, message, sent, outgoing, accepted, returned,
                   restored, mishaps, reloads>>

\* _sendPrompt, a new message: its text is saved as a draft of its own.
Send(r) ==
    /\ message = NoMessage /\ composer.text # 0 /\ Len(sent) < MaxMessages
    /\ sent' = Append(sent, composer.text)
    /\ composer' = [composer EXCEPT !.edit = @ + 1]
    /\ message' = [id |-> Len(sent'), try |-> 1, edit |-> composer'.edit, state |-> "sending",
                   save |-> r, saved |-> FALSE, removal |-> "no"]
    /\ outgoing' = outgoing \cup {CallOf(message')}
    /\ SaveText(Self, Here, composer.text, r)
    /\ UNCHANGED <<store, horizon, applied, forgot, accepted, returned, restored, mishaps, reloads>>

\* As if a retry were a new message.
RetryAfresh ==
    /\ message.state = "retryable" /\ message.removal = "no" /\ Len(sent) < MaxMessages
    /\ sent' = Append(sent, sent[message.id])
    /\ message' = [message EXCEPT !.state = "sending", !.id = Len(sent')]
    /\ outgoing' = outgoing \cup {CallOf(message')}
    /\ UNCHANGED <<storeVars, composer, accepted, returned, restored, mishaps, reloads>>

\* _sendPrompt again for a message whose answer was lost.
Retry ==
    /\ message.state = "retryable" /\ message.removal = "no"
    /\ message' = [message EXCEPT !.state = "sending", !.try = @ + 1]
    /\ outgoing' = outgoing \cup {CallOf(message')}
    /\ UNCHANGED <<storeVars, composer, sent, accepted, returned, restored, mishaps, reloads>>

\* The App takes a call; a request it has taken before changes nothing.
AppTakes ==
    \E call \in outgoing :
      /\ outgoing' = outgoing \ {call} /\ accepted' = accepted \cup {call.id}
      /\ UNCHANGED <<storeVars, composer, message, sent, returned, restored, mishaps, reloads>>

\* The call is refused for good, and the text is a draft again.  What refuses it
\* comes before the lookup of the request id, so an earlier call of the same
\* message may have been taken, or may still be.
AppRefuses ==
    /\ message.state = "sending" /\ CallOf(message) \in outgoing
    /\ outgoing' = outgoing \ {CallOf(message)} /\ message' = NoMessage
    /\ returned' = returned \cup {message.id}
    /\ UNCHANGED <<storeVars, composer, sent, accepted, restored, mishaps, reloads>>

\* The call fails without saying whether the App has taken the message.
AnswerLost ==
    /\ message.state = "sending" /\ Mishap
    /\ message' = [message EXCEPT !.state = "reconciling"]
    /\ UNCHANGED <<storeVars, composer, sent, outgoing, accepted, returned, restored, reloads>>

\* The chat has been read again and does not show the message, or was not read.
NotObserved ==
    /\ message.state = "reconciling" /\ message.removal = "no"
    /\ message' = [message EXCEPT !.state = "retryable"]
    /\ UNCHANGED <<storeVars, composer, sent, outgoing, accepted, returned, restored, mishaps,
                   reloads>>

Waiting(r) == \E i \in DOMAIN pending[Self] : pending[Self][i].rev = r

\* As if the draft of a message that was taken stayed in the store.
KeepSentDraft(r) ==
    /\ message.id \in accepted /\ message.removal = "no" /\ ~Waiting(message.save)
    /\ message' = [message EXCEPT !.removal = "issued"]
    /\ UNCHANGED <<pending, issued, store, horizon, applied, forgot, composer, sent, outgoing,
                   accepted, returned, restored, mishaps, reloads>>

\* The answer of the call, or the chat's events (_settlePromptMutation), say that
\* the message was taken.  _removeSentRecoveredDraft, once for both: the draft
\* that was saved for the message is removed, if it is still the stored one.
RemoveSentRecoveredDraft(r) ==
    /\ message.id \in accepted /\ message.removal = "no" /\ ~Waiting(message.save)
    /\ message' = [message EXCEPT !.removal = "issued"]
    /\ IF message.saved THEN Issue(Self, "remove", Here, 0, message.save, r)
       ELSE UNCHANGED <<pending, issued>>
    /\ UNCHANGED <<store, horizon, applied, forgot, composer, sent, outgoing, accepted,
                   returned, restored, mishaps, reloads>>

\* As if a message whose answer was lost were taken for sent.
SettleOnLoss ==
    /\ message.removal = "issued" \/ message.state = "reconciling"
    /\ message' = NoMessage
    /\ composer' = IF message.edit = composer.edit
                   THEN [composer EXCEPT !.text = 0, !.edit = @ + 1] ELSE composer
    /\ UNCHANGED <<storeVars, sent, outgoing, accepted, returned, restored, mishaps, reloads>>

\* ... and when that is done the message is settled.
SettlePromptMutation ==
    /\ message.removal = "issued"
    /\ \A i \in DOMAIN pending[Self] : pending[Self][i].kind # "remove"
    /\ message' = NoMessage
    /\ composer' = IF message.edit = composer.edit
                   THEN [composer EXCEPT !.text = 0, !.edit = @ + 1] ELSE composer
    /\ UNCHANGED <<storeVars, sent, outgoing, accepted, returned, restored, mishaps, reloads>>

-----------------------------------------------------------------------------
\* The tab is closed and opened again; the browser runs some of its transactions.
Reload ==
    /\ Mishap /\ reloads' = reloads + 1
    /\ \E n \in 0..Len(pending[Self]) :
         pending' = [pending EXCEPT ![Self] = SubSeq(@, 1, n)]
    /\ composer' = [text |-> 0, edit |-> composer.edit + 1, checked |-> FALSE]
    /\ message' = NoMessage /\ restored' = NothingRestored
    /\ UNCHANGED <<store, issued, horizon, applied, forgot, sent, outgoing, accepted, returned>>

\* _restoreRecoveredDraft up to its transaction ...
RestoreDraft ==
    /\ ~composer.checked /\ composer.text = 0 /\ message = NoMessage
    /\ pending[Self] = <<>>
    /\ composer' = [composer EXCEPT !.checked = TRUE]
    /\ store' = Pruned(store)
    /\ restored' = [edit |-> composer.edit, text |-> store'.draft[Here].text]
    /\ UNCHANGED <<pending, issued, horizon, applied, forgot, message, sent, outgoing, accepted,
                   returned, mishaps, reloads>>

\* ... and from there: an edit made meanwhile has precedence.
ApplyRestored ==
    /\ restored # NothingRestored
    /\ restored' = NothingRestored
    /\ composer' = IF /\ restored.edit = composer.edit /\ composer.text = 0
                      /\ message = NoMessage
                   THEN [composer EXCEPT !.text = restored.text] ELSE composer
    /\ UNCHANGED <<storeVars, message, sent, outgoing, accepted, returned, mishaps, reloads>>

-----------------------------------------------------------------------------
\* Another tab edits, or turns draft recovery off.
OtherTab(w, r) ==
    /\ \/ \E c \in DraftChat, text \in {0, MaxEdits + r} : SaveText(w, c, text, r)
       \/ Issue(w, "clear", Here, 0, 0, r)
    /\ UNCHANGED <<store, horizon, applied, forgot, composerVars>>

RunTransaction(w) ==
    /\ Transact(w)
    /\ message' = IF w = Self /\ message.save = Head(pending[w]).rev
                  THEN [message EXCEPT !.saved = Accepts(Considered(Head(pending[w])),
                                                         Head(pending[w]))]
                  ELSE message
    /\ UNCHANGED <<composer, sent, outgoing, accepted, returned, restored, mishaps, reloads>>

StorageFails(w) ==
    /\ TransactionFails(w) /\ Mishap
    /\ UNCHANGED <<composer, message, sent, outgoing, accepted, returned, restored, reloads>>

Age == Expire /\ UNCHANGED composerVars

ComposerNext ==
    \/ \E r \in NextRevisions(Self) : Type(r) \/ Send(r) \/ RemoveSentRecoveredDraft(r)
    \/ \E w \in Tab \ {Self} : \E r \in NextRevisions(w) : OtherTab(w, r)
    \/ Retry \/ AppTakes \/ AppRefuses \/ AnswerLost \/ NotObserved
    \/ SettlePromptMutation \/ Reload \/ RestoreDraft \/ ApplyRestored
    \/ \E w \in Tab : RunTransaction(w) \/ StorageFails(w)
    \/ Age

ComposerSpec == ComposerInit /\ [][ComposerNext]_draftVars

-----------------------------------------------------------------------------
\* However often it is retried and whatever is lost, a text the user sent once
\* becomes one message.  A tab that was closed before it knew restores the text
\* as unsent, and the user may send it again.  So may he when a retry is refused,
\* although the message was taken; without a lost answer no such text comes back.
AcceptedOnce ==
    /\ \A id \in accepted \ returned :
         Cardinality({other \in accepted \ returned : sent[other] = sent[id]}) <= 1 + reloads
    /\ mishaps = reloads => accepted \cap returned = {}

\* A tab at rest that sees its own draft in the store shows the same text: what
\* was sent is not kept as unsent, and no newer edit is lost with it.
StoreFollowsComposer ==
    LET idle == /\ message = NoMessage /\ pending[Self] = <<>> /\ composer.checked
                /\ restored = NothingRestored /\ mishaps = reloads
    IN  idle /\ store.draft[Here].rev \in issued[Self]
            => store.draft[Here].text = composer.text

\* The panel empties the composer of a message only when the App has taken it;
\* an edit it did not send is replaced by nothing but another edit.
UnsentKept ==
    [][ /\ composer.text # 0 /\ composer'.text # composer.text
        /\ composer'.checked
        /\ pending' = pending
        => \E id \in accepted : sent[id] = composer.text ]_draftVars

=============================================================================
