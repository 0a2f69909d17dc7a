--------------------------- MODULE AgentTurnProofs ---------------------------
(***************************************************************************)
(* Theorems about AgentTurn and TurnController: what a room sees of one    *)
(* turn of an arbitrary agent, for every number of accounts, retries and   *)
(* outputs.                                                                *)
(***************************************************************************)
EXTENDS AgentTurn, TLAPS

-----------------------------------------------------------------------------
(* The controller: types, and what its posts may show.                     *)

HandlerPlaces == {"idle", "track", "plain", "finalize", "publish", "announce", "deliver"}
FinishPlaces == {"idle", "wait", "finalize", "publish", "announce", "deliver", "done", "threw"}
HandlerWords == Shown \cup {"none", "answer"}
FinishWords == {"none", "replay", "failure"}

FlagTypes ==
  /\ paired \in BOOLEAN /\ owns \in BOOLEAN /\ visible \in {"silent", "progress", "final"}
  /\ forFinal \in BOOLEAN /\ hadError \in BOOLEAN /\ ticking \in BOOLEAN
  /\ finals \in Seq({"answer", "replay", "failure"})

Giving == {"publish", "announce", "deliver"}

\* Also, who gives a final has its text.
PlaceTypes ==
  /\ at \in [Publishers -> HandlerPlaces \cup FinishPlaces]
  /\ at["handler"] \in HandlerPlaces /\ at["finish"] \in FinishPlaces
  /\ says \in [Publishers -> HandlerWords \cup FinishWords]
  /\ says["handler"] \in HandlerWords /\ says["finish"] \in FinishWords
  /\ at["handler"] \in Giving => says["handler"] = "answer"
  /\ at["finish"] \in Giving => says["finish"] \in {"replay", "failure"}
  /\ sending \in BOOLEAN /\ (sending = TRUE <=> at["handler"] \in {"track", "plain"})

\* The post that is edited and the one an edit is in flight for show progress,
\* and no final replaces either of them.
PostInv ==
  /\ posts \in Seq({"progress", "final"})
  /\ tracked \in 0 .. Len(posts) /\ editing \in 0 .. Len(posts)
  /\ replaces \in [Publishers -> 0 .. Len(posts)]
  /\ tracked # 0 => posts[tracked] = "progress"
  /\ editing # 0 => posts[editing] = "progress"
  /\ \A p \in Publishers : replaces[p] # 0 => replaces[p] \notin {tracked, editing}
RequestInv == requested \in BOOLEAN /\ (requested = TRUE => editing # 0)

\* What every step of the controller keeps.
ScreenInv == FlagTypes /\ PlaceTypes /\ PostInv /\ RequestInv

LEMMA ScreenTypes == ScreenInv => ControllerTypeOK
<1> SUFFICES ASSUME ScreenInv PROVE ControllerTypeOK
  OBVIOUS
<1>1. sending = (at["handler"] \in {"track", "plain"})
  <2> DEFINE Sends == at["handler"] \in {"track", "plain"}
  <2>1. sending \in BOOLEAN /\ (sending = TRUE <=> Sends)
    BY Zenon DEF ScreenInv, PlaceTypes
  <2>2. Sends \in BOOLEAN /\ (Sends = TRUE <=> Sends)
    OBVIOUS
  <2> HIDE DEF Sends
  <2>3. sending = Sends
    BY <2>1, <2>2
  <2>4. QED BY <2>3, Zenon DEF Sends
<1>2. requested => editing # 0
  BY Zenon DEF ScreenInv, RequestInv
<1>3. /\ at["handler"] \in HandlerPlaces /\ at["finish"] \in FinishPlaces
      /\ says["handler"] \in HandlerWords /\ says["finish"] \in FinishWords
  BY Zenon DEF ScreenInv, PlaceTypes
<1>4. FlagTypes /\ PostInv
  BY Zenon DEF ScreenInv
<1>5. requested \in BOOLEAN
  BY Zenon DEF ScreenInv, RequestInv
<1> HIDE DEF ScreenInv
<1>6. QED
  BY <1>1, <1>2, <1>3, <1>4, <1>5, Zenon DEF FlagTypes, PostInv, ControllerTypeOK, HandlerPlaces,
     FinishPlaces, HandlerWords, FinishWords

LEMMA InitScreen == ControllerInit => ScreenInv
<1> SUFFICES ASSUME ControllerInit PROVE ScreenInv
  OBVIOUS
<1>1. FlagTypes /\ RequestInv
  <2>1. finals \in Seq({"answer", "replay", "failure"})
    BY DEF ControllerInit
  <2>2. QED BY <2>1, Zenon DEF ControllerInit, FlagTypes, RequestInv
<1>2. PlaceTypes
  <2>1. \A p \in Publishers : at[p] = "idle" /\ says[p] = "none"
    BY DEF ControllerInit
  <2>2. at \in [Publishers -> HandlerPlaces] /\ says \in [Publishers -> HandlerWords]
    BY DEF ControllerInit, HandlerPlaces, HandlerWords
  <2>3. sending = FALSE
    BY DEF ControllerInit
  <2>4. at \in [Publishers -> HandlerPlaces \cup FinishPlaces]
        /\ says \in [Publishers -> HandlerWords \cup FinishWords]
    BY <2>2
  <2>5. "idle" \in HandlerPlaces \cap FinishPlaces /\ "none" \in HandlerWords \cap FinishWords
    BY DEF HandlerPlaces, FinishPlaces, HandlerWords, FinishWords
  <2>6. QED
    BY <2>1, <2>2, <2>3, <2>4, <2>5 DEF PlaceTypes, Publishers, Giving
<1>3. PostInv
  BY DEF ControllerInit, PostInv, Publishers
<1>4. QED BY <1>1, <1>2, <1>3 DEF ScreenInv

LEMMA UnchangedFlags ==
  FlagTypes /\ UNCHANGED <<paired, owns, visible, forFinal, hadError, ticking, finals>> => FlagTypes'
BY DEF FlagTypes
LEMMA UnchangedPlaces == PlaceTypes /\ UNCHANGED <<at, says, sending>> => PlaceTypes'
BY DEF PlaceTypes
LEMMA UnchangedPosts == PostInv /\ UNCHANGED <<posts, tracked, editing, replaces>> => PostInv'
BY DEF PostInv
LEMMA UnchangedRequest == RequestInv /\ UNCHANGED <<requested, editing>> => RequestInv'
BY DEF RequestInv
LEMMA UnchangedScreen == ScreenInv /\ UNCHANGED turnVars => ScreenInv'
BY UnchangedFlags, UnchangedPlaces, UnchangedPosts, UnchangedRequest DEF turnVars, ScreenInv

\* An edit is requested for the tracked post.
LEMMA RequestsTracked ==
  ASSUME ScreenInv, RequestEdit PROVE editing' \in {editing, tracked} /\ RequestInv'
<1>1. CASE editing = 0
  BY <1>1 DEF RequestEdit, Editable, ScreenInv, PostInv, RequestInv
<1>2. CASE editing # 0
  BY <1>2 DEF RequestEdit, ScreenInv, RequestInv
<1>3. QED BY <1>1, <1>2

LEMMA EditsTracked ==
  ASSUME PostInv, editing' \in {editing, tracked}, UNCHANGED <<posts, tracked, replaces>>
  PROVE  PostInv'
BY DEF PostInv

LEMMA TickScreen == ASSUME ScreenInv, Tick PROVE ScreenInv'
<1>1. editing' \in {editing, tracked} /\ RequestInv'
  BY RequestsTracked DEF Tick
<1>2. QED
  BY <1>1, UnchangedFlags, UnchangedPlaces, EditsTracked DEF Tick, ScreenInv

LEMMA EditScreen ==
  ASSUME ScreenInv, NEW ok \in BOOLEAN, EditEnds(ok) PROVE ScreenInv'
<1>1. editing' \in {0, tracked} /\ RequestInv'
  <2>1. requested' = FALSE /\ (editing' = 0 \/ editing' = tracked)
    BY DEF EditEnds, Editable
  <2>2. QED BY <2>1 DEF RequestInv
<1>2. /\ posts' \in Seq({"progress", "final"}) /\ Len(posts') = Len(posts)
      /\ \A i \in 1 .. Len(posts) : posts[i] = "progress" => posts'[i] = "progress"
  <2>1. posts' = posts \/ posts' = [posts EXCEPT ![editing] = "progress"]
    BY Zenon DEF EditEnds
  <2>2. QED BY <2>1 DEF ScreenInv, PostInv
<1>3. PostInv'
  BY <1>1, <1>2 DEF EditEnds, ScreenInv, PostInv
<1>4. ticking' \in BOOLEAN
  BY Zenon DEF EditEnds, ScreenInv, FlagTypes
<1>5. FlagTypes'
  BY <1>4 DEF EditEnds, ScreenInv, FlagTypes
<1>6. QED BY <1>1, <1>3, <1>5, UnchangedPlaces DEF EditEnds, ScreenInv

LEMMA OwnershipScreen == ASSUME ScreenInv, LoseOwnership PROVE ScreenInv'
<1>1. FlagTypes'
  BY DEF LoseOwnership, editVars, ScreenInv, FlagTypes
<1>2. QED
  BY <1>1, UnchangedPlaces, UnchangedPosts, UnchangedRequest DEF LoseOwnership, editVars, ScreenInv

-----------------------------------------------------------------------------
(* Progress.                                                               *)

LEMMA HandlerMoves ==
  ASSUME PlaceTypes, NEW pc \in HandlerPlaces, NEW what \in HandlerWords, HandlerAt(pc, what),
         pc \notin Giving, sending' \in BOOLEAN, sending' = TRUE <=> pc \in {"track", "plain"}
  PROVE  PlaceTypes'
BY DEF HandlerAt, PlaceTypes, Publishers

LEMMA SendScreen ==
  ASSUME ScreenInv, NEW o \in Shown, at["handler"] = "idle", SendProgress(o),
         UNCHANGED <<paired, owns>>
  PROVE  ScreenInv'
<1>1. CASE CanDeliver
  <2>1. /\ HandlerAt("track", o) /\ sending' = TRUE
        /\ UNCHANGED <<visible, posts, tracked, hadError, editVars, replaces, finals>>
        /\ forFinal' = (forFinal \/ o = "text")
    BY <1>1, Zenon DEF SendProgress
  <2>2. PlaceTypes'
    BY <2>1, HandlerMoves DEF Giving, HandlerPlaces, HandlerWords, ScreenInv
  <2>3. forFinal' \in BOOLEAN
    BY <2>1
  <2>4. FlagTypes'
    BY <2>1, <2>3 DEF ScreenInv, FlagTypes, editVars
  <2>5. QED
    BY <2>1, <2>2, <2>4, UnchangedPosts, UnchangedRequest DEF ScreenInv, editVars
<1>2. CASE ~CanDeliver
  <2>1. /\ UNCHANGED <<visible, posts, tracked, forFinal, hadError, sending, requested, editing,
                       at, says, replaces, finals>>
        /\ ticking' = (ticking \/ o = "tool")
    BY <1>2, Zenon DEF SendProgress
  <2>2. ticking' \in BOOLEAN
    BY <2>1
  <2>3. FlagTypes'
    BY <2>1, <2>2 DEF ScreenInv, FlagTypes
  <2>4. QED
    BY <2>1, <2>3, UnchangedPlaces, UnchangedPosts, UnchangedRequest DEF ScreenInv
<1>3. QED BY <1>1, <1>2

LEMMA TextScreen ==
  ASSUME ScreenInv, at["handler"] = "idle", HandleText, UNCHANGED <<paired, owns>>
  PROVE  ScreenInv'
<1>1. CASE tracked = 0
  BY <1>1, SendScreen DEF HandleText, Shown
<1>2. CASE tracked # 0
  <2>1. editing' \in {editing, tracked} /\ RequestInv'
    BY <1>2, RequestsTracked DEF HandleText
  <2>2. FlagTypes'
    BY <1>2 DEF HandleText, ScreenInv, FlagTypes
  <2>3. QED
    BY <1>2, <2>1, <2>2, UnchangedPlaces, EditsTracked DEF HandleText, ScreenInv
<1>3. QED BY <1>1, <1>2

LEMMA ToolScreen ==
  ASSUME ScreenInv, at["handler"] = "idle", HandleTool, UNCHANGED <<paired, owns>>
  PROVE  ScreenInv'
<1>1. CASE tracked = 0
  BY <1>1, SendScreen DEF HandleTool, Shown
<1>2. CASE tracked # 0
  <2>1. FlagTypes'
    BY <1>2 DEF HandleTool, ScreenInv, FlagTypes
  <2>2. QED
    BY <1>2, <2>1, UnchangedPlaces, UnchangedPosts, UnchangedRequest DEF HandleTool, ScreenInv
<1>3. QED BY <1>1, <1>2

\* The first post shows progress, and no final has replaced it.
LEMMA TrackedScreen == ASSUME ScreenInv, Tracked PROVE ScreenInv'
<1>1. /\ posts' \in Seq({"progress", "final"}) /\ Len(posts') = Len(posts) + 1
      /\ \A i \in 1 .. Len(posts) : posts'[i] = posts[i]
      /\ posts'[Len(posts) + 1] = "progress"
  BY DEF Tracked, ScreenInv, PostInv
<1>2. PlaceTypes'
  BY HandlerMoves DEF Giving, Tracked, HandlerPlaces, HandlerWords, ScreenInv
<1>3. FlagTypes'
  BY DEF Tracked, ScreenInv, FlagTypes
<1>4. PostInv'
  BY <1>1 DEF Tracked, ScreenInv, PostInv
<1>5. QED BY <1>2, <1>3, <1>4, UnchangedRequest DEF Tracked, ScreenInv

LEMMA NotTrackedScreen == ASSUME ScreenInv, NotTracked PROVE ScreenInv'
<1>1. says["handler"] \in HandlerWords /\ sending = TRUE
  BY DEF NotTracked, ScreenInv, PlaceTypes
<1>2. PlaceTypes'
  BY <1>1, HandlerMoves DEF Giving, NotTracked, HandlerPlaces, ScreenInv
<1>3. QED
  BY <1>2, UnchangedFlags, UnchangedPosts, UnchangedRequest DEF NotTracked, editVars, ScreenInv

LEMMA PlainSentScreen == ASSUME ScreenInv, PlainSent PROVE ScreenInv'
<1>1. PlaceTypes'
  BY HandlerMoves DEF Giving, PlainSent, HandlerPlaces, HandlerWords, ScreenInv
<1>2. ticking' \in BOOLEAN
  BY DEF PlainSent
<1>3. FlagTypes'
  BY <1>2 DEF PlainSent, ScreenInv, FlagTypes
<1>4. QED
  BY <1>1, <1>3, UnchangedPosts, UnchangedRequest DEF PlainSent, ScreenInv

LEMMA PlainFailsScreen == ASSUME ScreenInv, PlainFails PROVE ScreenInv'
<1>1. PlaceTypes'
  BY DEF Giving, PlainFails, ScreenInv, PlaceTypes, Publishers, HandlerPlaces, FinishPlaces,
         HandlerWords, FinishWords
<1>2. QED
  BY <1>1, UnchangedFlags, UnchangedPosts, UnchangedRequest DEF PlainFails, editVars, ScreenInv

-----------------------------------------------------------------------------
(* Final texts.                                                            *)

\* A publisher that sends no progress goes on to another place of its final.
LEMMA PublisherMoves ==
  ASSUME PlaceTypes, NEW p \in Publishers, at[p] \notin {"track", "plain"},
         NEW pc \in {"finalize", "announce", "deliver", Left(p)}, NEW what \in {says[p], "none"},
         pc \in Giving => at[p] \in Giving /\ what = says[p],
         at' = [at EXCEPT ![p] = pc], says' = [says EXCEPT ![p] = what], UNCHANGED sending
  PROVE  PlaceTypes'
<1>1. CASE p = "handler"
  BY <1>1 DEF PlaceTypes, Publishers, Left, Giving, HandlerPlaces, FinishPlaces, HandlerWords
<1>2. CASE p = "finish"
  BY <1>2 DEF PlaceTypes, Publishers, Left, Giving, HandlerPlaces, FinishPlaces, FinishWords
<1>3. QED BY <1>1, <1>2 DEF Publishers

LEMMA StaysPublisher ==
  ASSUME PlaceTypes, NEW p \in Publishers PROVE says = [says EXCEPT ![p] = says[p]]
BY DEF PlaceTypes

LEMMA PublishScreen ==
  ASSUME ScreenInv, NEW p \in Publishers, at[p] \notin {"track", "plain"},
         NEW what, \/ p = "handler" /\ what = "answer"
                   \/ p = "finish" /\ what \in {"replay", "failure"},
         BeginPublish(p, what), hadError' \in BOOLEAN, UNCHANGED <<paired, owns>>
  PROVE  ScreenInv'
<1>1. PlaceTypes'
  BY DEF BeginPublish, Giving, ScreenInv, PlaceTypes, Publishers, HandlerPlaces, FinishPlaces,
         HandlerWords, FinishWords
<1>2. FlagTypes'
  BY DEF BeginPublish, ScreenInv, FlagTypes
<1>3. RequestInv'
  BY DEF BeginPublish, RequestInv
<1>4. QED BY <1>1, <1>2, <1>3, UnchangedPosts DEF BeginPublish, ScreenInv

LEMMA FinalizeScreen ==
  ASSUME ScreenInv, NEW p \in Publishers, at[p] \notin {"track", "plain"},
         BeginFinalize(p), hadError' \in BOOLEAN, UNCHANGED <<paired, owns>>
  PROVE  ScreenInv'
<1>1. PlaceTypes'
  BY PublisherMoves, StaysPublisher DEF Giving, BeginFinalize, ScreenInv
<1>2. FlagTypes'
  BY DEF BeginFinalize, ScreenInv, FlagTypes
<1>3. editing' \in {editing, tracked} /\ RequestInv'
  BY RequestsTracked DEF BeginFinalize
<1>4. QED BY <1>1, <1>2, <1>3, EditsTracked DEF BeginFinalize, ScreenInv

\* The post goes over to the final that replaces it, with no edit of it left.
LEMMA ConsumeScreen ==
  ASSUME ScreenInv, NEW p \in Publishers, Consume(p) PROVE ScreenInv'
<1>1. PlaceTypes'
  BY PublisherMoves, StaysPublisher DEF Giving, Consume, ScreenInv
<1>2. FlagTypes'
  BY DEF Consume, ResetProgress, ScreenInv, FlagTypes
<1>3. RequestInv'
  BY DEF Consume, ResetProgress, RequestInv
<1>4. PostInv'
  <2>1. PICK post \in {tracked, 0} : replaces' = [replaces EXCEPT ![p] = post]
    BY DEF Consume
  <2>2. editing = 0 /\ editing' = 0 /\ tracked' = 0 /\ posts' = posts
    BY DEF Consume, EditsAreIdle, ResetProgress
  <2>3. QED BY <2>1, <2>2 DEF ScreenInv, PostInv
<1>5. QED BY <1>1, <1>2, <1>3, <1>4 DEF ScreenInv

LEMMA LeaveScreen ==
  ASSUME ScreenInv, NEW p \in Publishers, at[p] \notin {"track", "plain"}, Leave(p),
         UNCHANGED sending
  PROVE  /\ PlaceTypes'
         /\ UNCHANGED <<posts, tracked, editing>> => PostInv'
<1>1. PlaceTypes'
  BY PublisherMoves DEF Giving, Left, Leave, ScreenInv
<1>2. UNCHANGED <<posts, tracked, editing>> => PostInv'
  BY DEF Leave, ScreenInv, PostInv
<1>3. QED BY <1>1, <1>2

LEMMA AnnounceScreen ==
  ASSUME ScreenInv, NEW p \in Publishers, Announce(p) PROVE ScreenInv'
<1>1. CASE CanDeliver
  <2>1. /\ at' = [at EXCEPT ![p] = "deliver"] /\ UNCHANGED <<forFinal, ticking, says, replaces>>
        /\ UNCHANGED sending
    BY <1>1 DEF Announce
  <2>2. PlaceTypes'
    BY <2>1, PublisherMoves, StaysPublisher DEF Giving, Announce, ScreenInv
  <2>3. FlagTypes'
    BY <2>1 DEF Announce, ScreenInv, FlagTypes
  <2>4. QED BY <2>1, <2>2, <2>3, UnchangedPosts, UnchangedRequest DEF Announce, ScreenInv
<1>2. CASE ~CanDeliver
  <2>1. forFinal' = FALSE /\ Leave(p) /\ ticking' = (ticking /\ p = "handler")
    BY <1>2 DEF Announce
  <2>2. PlaceTypes' /\ PostInv'
    BY <2>1, LeaveScreen DEF Announce
  <2>3. ticking' \in BOOLEAN
    BY <2>1
  <2>4. FlagTypes'
    BY <2>1, <2>3 DEF Announce, ScreenInv, FlagTypes
  <2>5. QED BY <2>2, <2>4, UnchangedRequest DEF Announce, ScreenInv
<1>3. QED BY <1>1, <1>2

\* A final is shown by a post that nothing edits.
LEMMA DeliveredScreen ==
  ASSUME ScreenInv, NEW p \in Publishers, Delivered(p) PROVE ScreenInv'
<1>1. PlaceTypes'
  BY LeaveScreen DEF Delivered
<1>2. ticking' \in BOOLEAN
  BY DEF Delivered
<1>3. FlagTypes'
  <2>1. at[p] = "deliver" /\ says[p] \in {"answer", "replay", "failure"}
    BY DEF Delivered, Giving, Publishers, ScreenInv, PlaceTypes
  <2>2. finals' \in Seq({"answer", "replay", "failure"})
    BY <2>1 DEF Delivered, ScreenInv, FlagTypes
  <2>3. QED BY <1>2, <2>2 DEF Delivered, ScreenInv, FlagTypes
<1>4. PostInv'
  <2>1. /\ posts' \in Seq({"progress", "final"}) /\ Len(posts') = Len(posts)
        /\ \A i \in 1 .. Len(posts) : i # replaces[p] => posts'[i] = posts[i]
    <3>1. posts' = posts \/ (replaces[p] # 0 /\ posts' = [posts EXCEPT ![replaces[p]] = "final"])
      BY DEF Delivered
    <3>2. QED BY <3>1 DEF ScreenInv, PostInv
  <2>2. QED BY <2>1 DEF Delivered, Leave, ScreenInv, PostInv
<1>5. QED BY <1>1, <1>3, <1>4, UnchangedRequest DEF Delivered, ScreenInv

LEMMA FinalizedScreen ==
  ASSUME ScreenInv, NEW p \in Publishers, Finalized(p) PROVE ScreenInv'
<1>1. PlaceTypes'
  BY LeaveScreen DEF Finalized
<1>2. FlagTypes'
  BY DEF Finalized, ResetProgress, ScreenInv, FlagTypes
<1>3. RequestInv'
  BY DEF Finalized, ResetProgress, RequestInv
<1>4. PostInv'
  BY DEF Finalized, Leave, ResetProgress, ScreenInv, PostInv
<1>5. QED BY <1>1, <1>2, <1>3, <1>4 DEF ScreenInv

-----------------------------------------------------------------------------
(* Every step of the controller.                                           *)

LEMMA HandleScreen ==
  ASSUME ScreenInv, NEW o \in Shown \cup FinalOutputs, HandleOutput(o) PROVE ScreenInv'
<1>1. at["handler"] = "idle" /\ UNCHANGED <<paired, owns>>
  BY DEF HandleOutput
<1>2. CASE visible = "final" \/ o = "null"
  <2>1. NothingShown /\ UNCHANGED hadError
    BY <1>2 DEF HandleOutput
  <2>2. QED
    BY <1>1, <2>1, UnchangedScreen DEF NothingShown, editVars, turnVars
<1>3. CASE visible # "final" /\ o = "text"
  BY <1>1, <1>3, TextScreen DEF HandleOutput
<1>4. CASE visible # "final" /\ o = "tool"
  BY <1>1, <1>4, ToolScreen DEF HandleOutput
<1>5. hadError \in BOOLEAN
  BY DEF ScreenInv, FlagTypes
<1>6. CASE visible # "final" /\ o = "final"
  <2>1. BeginPublish("handler", "answer") /\ UNCHANGED hadError
    BY <1>6 DEF HandleOutput
  <2>2. QED BY <1>1, <1>5, <2>1, PublishScreen DEF Publishers
<1>7. CASE visible # "final" /\ o = "hidden"
  <2>1. BeginFinalize("handler") /\ UNCHANGED hadError
    BY <1>7 DEF HandleOutput
  <2>2. QED BY <1>1, <1>5, <2>1, FinalizeScreen DEF Publishers
<1>8. CASE visible # "final" /\ o = "fault"
  <2>1. NothingShown /\ hadError' = TRUE
    BY <1>8 DEF HandleOutput
  <2>2. FlagTypes'
    BY <1>1, <2>1 DEF NothingShown, editVars, ScreenInv, FlagTypes
  <2>3. QED
    BY <2>1, <2>2, UnchangedPlaces, UnchangedPosts, UnchangedRequest
    DEF NothingShown, editVars, ScreenInv
<1>9. QED BY <1>2, <1>3, <1>4, <1>6, <1>7, <1>8 DEF Shown, FinalOutputs

LEMMA QuietScreen ==
  ASSUME ScreenInv, NEW pc \in FinishPlaces \ Giving, at' = [at EXCEPT !["finish"] = pc],
         UNCHANGED <<sending, says>>
  PROVE  PlaceTypes'
BY DEF ScreenInv, PlaceTypes, Publishers

LEMMA BeginFinishScreen == ASSUME ScreenInv, BeginFinish PROVE ScreenInv'
<1>1. PlaceTypes'
  BY QuietScreen DEF BeginFinish, FinishPlaces, Giving
<1>2. QED
  BY <1>1, UnchangedFlags, UnchangedPosts, UnchangedRequest DEF BeginFinish, editVars, ScreenInv

\* What finish() does: it falls silent, replays the progress, takes it back or
\* tells the failure.
LEMMA FinishCases ==
  ASSUME NEW result, NEW interrupted \in BOOLEAN, FinishTurn(result, interrupted)
  PROVE  \/ FinishQuietly
         \/ FinishInterrupted /\ result = "success"
         \/ BeginPublish("finish", "replay")
         \/ BeginFinalize("finish") /\ result = "success"
         \/ BeginPublish("finish", "failure")
BY Zenon DEF FinishTurn

LEMMA FinishScreen ==
  ASSUME ScreenInv, NEW result, NEW interrupted \in BOOLEAN, FinishTurn(result, interrupted)
  PROVE  ScreenInv'
<1>1. at["finish"] = "wait" /\ hadError' \in BOOLEAN /\ UNCHANGED <<paired, owns>>
  BY DEF FinishTurn
<1>2. CASE FinishQuietly
  <2>1. PlaceTypes'
    BY <1>2, QuietScreen DEF FinishQuietly, FinishPlaces, Giving
  <2>2. FlagTypes'
    BY <1>1, <1>2 DEF FinishQuietly, ScreenInv, FlagTypes
  <2>3. QED
    BY <1>2, <2>1, <2>2, UnchangedPosts, UnchangedRequest DEF FinishQuietly, ScreenInv
<1>3. CASE FinishInterrupted
  <2>1. PlaceTypes'
    BY <1>3, QuietScreen DEF FinishInterrupted, FinishPlaces, Giving
  <2>2. FlagTypes'
    BY <1>1, <1>3 DEF FinishInterrupted, ResetProgress, ScreenInv, FlagTypes
  <2>3. PostInv'
    BY <1>3 DEF FinishInterrupted, ResetProgress, ScreenInv, PostInv
  <2>4. RequestInv'
    BY <1>3 DEF FinishInterrupted, ResetProgress, RequestInv
  <2>5. QED BY <2>1, <2>2, <2>3, <2>4 DEF ScreenInv
<1>4. CASE \E what \in {"replay", "failure"} : BeginPublish("finish", what)
  BY <1>1, <1>4, PublishScreen DEF Publishers
<1>5. CASE BeginFinalize("finish")
  BY <1>1, <1>5, FinalizeScreen DEF Publishers
<1>6. QED BY <1>2, <1>3, <1>4, <1>5, FinishCases

LEMMA StepScreen == ASSUME ScreenInv, ControllerStep PROVE ScreenInv'
BY TrackedScreen, NotTrackedScreen, PlainSentScreen, PlainFailsScreen, EditScreen, ConsumeScreen,
   AnnounceScreen, DeliveredScreen, FinalizedScreen, Zenon DEF ControllerStep

\* The handler is taken up by an output and finish() by the end of the turn:
\* nothing else makes either of them leave its rest.
LEMMA StepFlow ==
  ASSUME ScreenInv, ControllerStep
  PROVE  /\ at["handler"] = "idle" => at'["handler"] = "idle"
         /\ at["finish"] = "idle" => at'["finish"] = "idle"
<1>1. CASE Tracked \/ NotTracked \/ PlainSent \/ PlainFails
  BY <1>1 DEF Tracked, NotTracked, PlainSent, PlainFails, HandlerAt, ScreenInv, PlaceTypes,
              Publishers
<1>2. CASE \E ok \in BOOLEAN : EditEnds(ok)
  BY <1>2 DEF EditEnds
<1>3. ASSUME NEW p \in Publishers, Consume(p) \/ Announce(p) \/ Delivered(p) \/ Finalized(p)
      PROVE  /\ at[p] # "idle"
             /\ \A q \in Publishers \ {p} : at'[q] = at[q]
  BY <1>3 DEF Consume, Announce, Delivered, Finalized, Leave, ScreenInv, PlaceTypes, Publishers
<1>4. QED BY <1>1, <1>2, <1>3 DEF ControllerStep, Publishers

LEMMA FinishFlow ==
  ASSUME ScreenInv, NEW result, NEW interrupted \in BOOLEAN,
         BeginFinish \/ FinishTurn(result, interrupted)
  PROVE  at'["handler"] = at["handler"]
<1>1. CASE BeginFinish
  BY <1>1 DEF BeginFinish, ScreenInv, PlaceTypes, Publishers
<1>2. CASE FinishTurn(result, interrupted)
  BY <1>2, FinishCases
  DEF FinishQuietly, FinishInterrupted, BeginPublish, BeginFinalize, ScreenInv, PlaceTypes,
      Publishers
<1>3. QED BY <1>1, <1>2

-----------------------------------------------------------------------------
(* The attempts: types, and what an attempt, its outputs and the end of    *)
(* the turn say of each other.                                             *)

Run ==
  [alive : BOOLEAN, unread : BOOLEAN, written : [shown : Nat, final : Nat], chain : Seq(Outputs),
   busy : Outputs \cup {"none"}, streamed : BOOLEAN, flushed : BOOLEAN, ahead : Nat,
   verdict : {"none", "success", "error", "failed", "over"}, saw : BOOLEAN, vis : BOOLEAN,
   nullOnly : BOOLEAN, trigger : Reasons \cup {"none"}, session : BOOLEAN]

AccountTypes ==
  /\ provider \in {"claude", "codex"}
  /\ stage \in {"primary", "fresh", "rotate"}
  /\ first \in [vis : BOOLEAN, reason : Reasons \cup {"none"}]
  /\ first.reason # "none" => stage = "rotate"
  /\ transient \in 0 .. MaxTransient /\ refreshed \subseteq 1 .. Tokens
  /\ token \in 1 .. Tokens /\ cooling \subseteq 1 .. Tokens
  /\ outcome \in {"none", "success", "error"}
  /\ answered \in BOOLEAN /\ late \in BOOLEAN

\* The outputs that have been read and not been handled.
Waiting(r) == IF r.busy = "none" THEN Len(r.chain) ELSE Len(r.chain) + 1

\* A verdict waits for exactly the outputs that were read before it.
AttemptOf(r) ==
  /\ r \in Run
  /\ r.alive = TRUE <=> r.verdict = "none"
  /\ r.verdict # "none" /\ outcome = "none" => r.ahead = Waiting(r)
  /\ r.verdict = "none" \/ outcome # "none" => r.ahead = 0
  /\ outcome # "none" => r.verdict # "none"

\* When the turn has its outcome everything was handled, except what is late.
AttemptInv ==
  /\ AttemptOf(run)
  /\ run.busy = "none" <=> at["handler"] = "idle"
  /\ outcome = "none" => at["finish"] = "idle"
  /\ outcome # "none" /\ late # TRUE => at["handler"] = "idle" /\ run.chain = <<>>

Inv == ScreenInv /\ AccountTypes /\ AttemptInv

LEMMA NoOutput == "none" \notin Outputs
BY DEF Outputs, Shown, FinalOutputs, Reasons

LEMMA InvTypes == Inv => TypeOK
<1> SUFFICES ASSUME Inv PROVE TypeOK
  OBVIOUS
<1>1. run.alive = ~Closed
  <2>1. run.alive \in BOOLEAN
    BY DEF Inv, AttemptInv, AttemptOf, Run
  <2>2. Closed \in BOOLEAN /\ (Closed = TRUE <=> run.verdict # "none")
    BY DEF Closed
  <2>3. run.alive = TRUE <=> run.verdict = "none"
    BY DEF Inv, AttemptInv, AttemptOf
  <2> HIDE DEF Closed
  <2>4. QED BY <2>1, <2>2, <2>3
<1>2. /\ run.unread \in BOOLEAN /\ run.chain \in Seq(Outputs)
      /\ run.busy \in Outputs \cup {"none"}
      /\ run.verdict \in {"none", "success", "error", "failed", "over"}
      /\ run.trigger \in Reasons \cup {"none"}
  BY DEF Inv, AttemptInv, AttemptOf, Run
<1>3. run.ahead <= Len(run.chain) + 1
  <2>1. Len(run.chain) \in Nat
    BY <1>2
  <2>2. run.ahead = 0 \/ run.ahead = Waiting(run)
    BY Zenon DEF Inv, AttemptInv, AttemptOf
  <2>3. Waiting(run) \in {Len(run.chain), Len(run.chain) + 1}
    BY <2>1 DEF Waiting
  <2>4. QED BY <2>1, <2>2, <2>3
<1>4. QED
  BY <1>1, <1>2, <1>3, ScreenTypes, Zenon DEF Inv, AccountTypes, TypeOK

LEMMA NewRunTypes == NewRun \in Run
BY DEF NewRun, NothingWritten, Run

LEMMA InitInv == Init => Inv
<1> SUFFICES ASSUME Init PROVE Inv
  OBVIOUS
<1>1. ScreenInv
  BY InitScreen DEF Init
<1>2. AccountTypes
  <2>1. first \in [vis : BOOLEAN, reason : Reasons \cup {"none"}] /\ first.reason = "none"
    BY DEF Init, NoFirst
  <2>2. transient \in 0 .. MaxTransient /\ refreshed \subseteq 1 .. Tokens
        /\ token \in 1 .. Tokens /\ cooling \subseteq 1 .. Tokens
    BY AgentTurnAssumption DEF Init
  <2>3. QED BY <2>1, <2>2, Zenon DEF Init, AccountTypes
<1>3. AttemptInv
  <2>1. at["handler"] = "idle" /\ at["finish"] = "idle"
    BY DEF Init, ControllerInit, Publishers
  <2>2. /\ run.alive = TRUE /\ run.verdict = "none" /\ run.ahead = 0 /\ run.busy = "none"
        /\ outcome = "none"
    BY DEF Init, NewRun
  <2>3. run \in Run
    BY NewRunTypes DEF Init
  <2>4. QED BY <2>1, <2>2, <2>3 DEF AttemptInv, AttemptOf
<1>4. QED BY <1>1, <1>2, <1>3 DEF Inv

-----------------------------------------------------------------------------
(* An output.                                                              *)

LEMMA EvaluatedRun ==
  ASSUME NEW r \in Run, NEW o \in Outputs
  PROVE  /\ Evaluated(o, r) \in Run /\ Evaluated(o, r).busy = o
         /\ Evaluated(o, r).chain = r.chain /\ Evaluated(o, r).ahead = r.ahead
         /\ Evaluated(o, r).verdict = r.verdict /\ Evaluated(o, r).alive = r.alive
<1> DEFINE dropped == r.session \/ (o = "session" /\ ~r.saw)
           answers == r.saw \/ o \in {"final", "hidden"}
           shows   == r.vis \/ Says(o)
           empty   == r.nullOnly \/ (provider = "claude" /\ ~r.saw /\ o \in Shown \cup {"null"})
           cause   == IF Triggers(o) THEN o ELSE r.trigger
<1>1. Evaluated(o, r) = [r EXCEPT !.session = dropped, !.trigger = cause, !.saw = answers,
                                  !.vis = shows, !.nullOnly = empty, !.busy = o]
  BY Zenon DEF Evaluated
<1>2. dropped \in BOOLEAN /\ answers \in BOOLEAN /\ shows \in BOOLEAN /\ empty \in BOOLEAN
  OBVIOUS
<1>3. cause \in Reasons \cup {"none"}
  BY DEF Triggers, Run
<1> HIDE DEF dropped, answers, shows, empty, cause
<1> DEFINE half == [r EXCEPT !.session = dropped, !.trigger = cause, !.saw = answers]
<1>4. /\ half \in Run /\ half.chain = r.chain /\ half.ahead = r.ahead
      /\ half.verdict = r.verdict /\ half.alive = r.alive
  BY <1>2, <1>3 DEF Run
<1>5. Evaluated(o, r) = [half EXCEPT !.vis = shows, !.nullOnly = empty, !.busy = o]
  BY <1>1 DEF Run
<1> HIDE DEF half
<1> DEFINE whole == [half EXCEPT !.vis = shows, !.nullOnly = empty, !.busy = o]
<1>6. whole \in Run
  BY <1>2, <1>4 DEF Run
<1>7. /\ whole.busy = o /\ whole.chain = half.chain /\ whole.ahead = half.ahead
      /\ whole.verdict = half.verdict /\ whole.alive = half.alive
  BY <1>4 DEF Run
<1>8. QED BY <1>4, <1>5, <1>6, <1>7, Zenon

LEMMA DoneRun ==
  ASSUME NEW r \in Run
  PROVE  /\ Done(r) \in Run /\ Done(r).busy = "none" /\ Done(r).chain = r.chain
         /\ Done(r).ahead = IF r.ahead > 0 THEN r.ahead - 1 ELSE 0
         /\ Done(r).verdict = r.verdict /\ Done(r).alive = r.alive
<1>1. (r.flushed \/ (r.busy \in Finals /\ ~Closed)) \in BOOLEAN
  OBVIOUS
<1>2. r.ahead \in Nat /\ (IF r.ahead > 0 THEN r.ahead - 1 ELSE 0) \in Nat
  BY DEF Run
<1>3. QED BY <1>1, <1>2 DEF Done, Run

LEMMA HandleFlow ==
  ASSUME ScreenInv, NEW o \in Shown \cup FinalOutputs, HandleOutput(o)
  PROVE  at'["finish"] = at["finish"]
<1>1. \/ at' = at
      \/ \E pc \in HandlerPlaces : at' = [at EXCEPT !["handler"] = pc]
  BY DEF HandleOutput, NothingShown, HandleText, HandleTool, SendProgress, HandlerAt, BeginPublish,
         BeginFinalize, HandlerPlaces, Shown, FinalOutputs
<1>2. QED BY <1>1 DEF ScreenInv, PlaceTypes, Publishers

LEMMA ShapeOutput == ASSUME NEW o \in Outputs PROVE Shape(o) \in Shown \cup FinalOutputs
BY DEF Shape, FinalOutputs

\* An output that is forwarded is handled by the controller, another one is
\* dropped, and the turn has a final with a text once the first was answered.
LEMMA HandleScreens ==
  ASSUME ScreenInv, NEW o \in Outputs, NEW r, Handle(o, r)
  PROVE  /\ ScreenInv' /\ at'["finish"] = at["finish"]
         /\ answered \in BOOLEAN => answered' \in BOOLEAN
<1>1. PICK forward \in Forwarded(o) :
        IF forward
        THEN HandleOutput(Shape(o)) /\ answered' = (answered \/ (o = "final" /\ ~late'))
        ELSE UNCHANGED <<turnVars, answered>>
  BY Zenon DEF Handle
<1>2. CASE forward
  <2>1. HandleOutput(Shape(o)) /\ answered' = (answered \/ (o = "final" /\ ~late'))
    BY <1>1, <1>2, Zenon
  <2>2. answered' \in BOOLEAN
    BY <2>1
  <2>3. QED BY <2>1, <2>2, ShapeOutput, HandleScreen, HandleFlow
<1>3. CASE ~forward
  <2>1. UNCHANGED <<turnVars, answered>>
    BY <1>1, <1>3, Zenon
  <2>2. QED BY <2>1, UnchangedScreen DEF turnVars
<1>4. QED BY <1>2, <1>3

\* An output that is taken counts as waiting until it was handled.
LEMMA HandleAttempt ==
  ASSUME NEW o \in Outputs, NEW r \in Run, Handle(o, r), r.alive = TRUE <=> r.verdict = "none",
         r.verdict # "none" /\ outcome = "none" => r.ahead = Len(r.chain) + 1,
         r.verdict = "none" \/ outcome # "none" => r.ahead = 0,
         outcome # "none" => r.verdict # "none", outcome' = outcome
  PROVE  /\ AttemptOf(run)' /\ run'.chain = r.chain /\ run'.verdict = r.verdict
         /\ run'.busy = "none" <=> at'["handler"] = "idle"
<1> DEFINE e == Evaluated(o, r)
           d == Done(e)
<1>1. /\ e \in Run /\ e.busy = o /\ e.chain = r.chain /\ e.ahead = r.ahead
      /\ e.verdict = r.verdict /\ e.alive = r.alive
  BY EvaluatedRun
<1>2. /\ d \in Run /\ d.busy = "none" /\ d.chain = e.chain
      /\ d.ahead = IF e.ahead > 0 THEN e.ahead - 1 ELSE 0
      /\ d.verdict = e.verdict /\ d.alive = e.alive
  BY <1>1, DoneRun
<1>3. run' = IF at'["handler"] = "idle" THEN d ELSE e
  BY Zenon DEF Handle
<1>4. o # "none"
  BY NoOutput
<1>5. Len(r.chain) \in Nat
  BY DEF Run
<1> HIDE DEF e, d
<1>6. CASE at'["handler"] = "idle"
  BY <1>1, <1>2, <1>3, <1>5, <1>6 DEF AttemptOf, Waiting
<1>7. CASE at'["handler"] # "idle"
  BY <1>1, <1>3, <1>4, <1>5, <1>7 DEF AttemptOf, Waiting
<1>8. QED BY <1>6, <1>7

LEMMA AccountsStay ==
  ASSUME AccountTypes, Stays, answered' \in BOOLEAN, late' \in BOOLEAN PROVE AccountTypes'
BY DEF AccountTypes, Stays, retryVars

\* An output that is read is handled at once or waits behind the others.
LEMMA ReadInv ==
  ASSUME Inv, NEW o \in Outputs, NEW r \in Run, Read(o, r), Stays, late' \in BOOLEAN,
         r.chain = run.chain, r.busy = run.busy, r.ahead = run.ahead, r.verdict = run.verdict,
         r.alive = run.alive, outcome = "none" => run.verdict = "none",
         outcome # "none" => late' = TRUE
  PROVE  Inv' /\ run'.verdict = r.verdict
<1>1. AttemptInv /\ ScreenInv /\ AccountTypes /\ outcome' = outcome
  BY DEF Inv, Stays
<1>2. /\ r.alive = TRUE <=> r.verdict = "none"
      /\ r.verdict = "none" \/ outcome # "none"
      /\ r.ahead = 0
      /\ outcome # "none" => r.verdict # "none"
  BY <1>1, Zenon DEF AttemptInv, AttemptOf
<1>3. CASE at["handler"] = "idle" /\ r.chain = <<>>
  <2>1. Handle(o, r)
    BY <1>3, Zenon DEF Read
  <2>2. ScreenInv' /\ at'["finish"] = at["finish"] /\ answered' \in BOOLEAN
    BY <1>1, <2>1, HandleScreens, Zenon DEF AccountTypes
  <2>3. /\ AttemptOf(run)' /\ run'.chain = r.chain /\ run'.verdict = r.verdict
        /\ run'.busy = "none" <=> at'["handler"] = "idle"
    BY <1>1, <1>2, <2>1, HandleAttempt
  <2>4. AttemptInv'
    BY <1>1, <2>2, <2>3, Zenon DEF AttemptInv
  <2>5. QED BY <1>1, <2>2, <2>3, <2>4, AccountsStay DEF Inv
<1>4. CASE ~ (at["handler"] = "idle" /\ r.chain = <<>>)
  <2>1. run' = [r EXCEPT !.chain = Append(r.chain, o)] /\ UNCHANGED <<turnVars, answered>>
    BY <1>4, Zenon DEF Read
  <2>2. /\ run' \in Run /\ run'.alive = r.alive /\ run'.busy = r.busy /\ run'.ahead = r.ahead
        /\ run'.verdict = r.verdict
    <3> DEFINE all == Append(r.chain, o)
    <3>1. all \in Seq(Outputs) /\ run' = [r EXCEPT !.chain = all]
      BY <2>1 DEF Run
    <3> HIDE DEF all
    <3>2. QED BY <3>1 DEF Run
  <2>3. AttemptOf(run)'
    BY <1>1, <1>2, <2>2, Zenon DEF AttemptOf
  <2>4. AttemptInv'
    BY <1>1, <2>1, <2>2, <2>3, Zenon DEF AttemptInv, turnVars
  <2>5. QED
    BY <1>1, <2>1, <2>2, <2>4, UnchangedScreen, AccountsStay, Zenon DEF Inv, AccountTypes
<1>5. QED BY <1>3, <1>4

LEMMA WriteInv == ASSUME Inv, NEW o \in Outputs, Write(o) PROVE Inv'
<1> DEFINE r == [run EXCEPT !.written[Class(o)] = @ + 1, !.streamed = TRUE]
<1>1. run \in Run /\ run.alive = TRUE
  BY DEF Inv, AttemptInv, AttemptOf, Write
<1>2. /\ r \in Run /\ r.chain = run.chain /\ r.busy = run.busy /\ r.ahead = run.ahead
      /\ r.verdict = run.verdict /\ r.alive = run.alive
  <2> DEFINE more == [run.written EXCEPT ![Class(o)] = @ + 1]
  <2>1. more \in [shown : Nat, final : Nat]
    BY <1>1 DEF Run, Class
  <2>2. r = [run EXCEPT !.written = more, !.streamed = TRUE]
    BY <1>1 DEF Run
  <2> HIDE DEF more, r
  <2>3. QED BY <1>1, <2>1, <2>2 DEF Run
<1>3. run.verdict = "none" /\ outcome = "none"
  BY <1>1, Zenon DEF Inv, AttemptInv, AttemptOf
<1>4. Read(o, r) /\ Stays /\ late' \in BOOLEAN
  BY Zenon DEF Write, Inv, AccountTypes
<1> HIDE DEF r
<1>5. QED BY <1>2, <1>3, <1>4, ReadInv

LEMMA ReadLateInv ==
  ASSUME Inv, NEW o \in Outputs, ReadLate(o) PROVE Inv' /\ run'.verdict = run.verdict
<1> DEFINE r == [run EXCEPT !.unread = FALSE, !.written = NothingWritten]
<1>1. run \in Run /\ outcome # "none"
  BY DEF Inv, AttemptInv, AttemptOf, ReadLate
<1>2. /\ r \in Run /\ r.chain = run.chain /\ r.busy = run.busy /\ r.ahead = run.ahead
      /\ r.verdict = run.verdict /\ r.alive = run.alive
  BY <1>1 DEF Run, NothingWritten
<1>3. Read(o, r) /\ Stays /\ late' = TRUE
  BY Zenon DEF ReadLate
<1> HIDE DEF r
<1>4. QED BY <1>1, <1>2, <1>3, ReadInv

LEMMA TakeInv == ASSUME Inv, Take PROVE Inv' /\ run'.verdict = run.verdict
<1> DEFINE r == [run EXCEPT !.chain = Tail(run.chain)]
           o == Head(run.chain)
<1>1. /\ run \in Run /\ run.chain # <<>> /\ at["handler"] = "idle" /\ Stays /\ late' = late
      /\ ScreenInv /\ AccountTypes /\ AttemptInv /\ outcome' = outcome /\ Handle(o, r)
  BY Zenon DEF Inv, AttemptInv, AttemptOf, Take, Stays
<1>2. /\ r \in Run /\ r.ahead = run.ahead /\ r.verdict = run.verdict /\ r.alive = run.alive
      /\ r.chain = Tail(run.chain)
  BY <1>1 DEF Run
<1>3. o \in Outputs /\ Len(run.chain) = Len(Tail(run.chain)) + 1
  BY <1>1 DEF Run
<1>4. Waiting(run) = Len(run.chain)
  BY <1>1, Zenon DEF AttemptInv, Waiting
<1>5. /\ r.alive = TRUE <=> r.verdict = "none"
      /\ r.verdict # "none" /\ outcome = "none" => r.ahead = Len(r.chain) + 1
      /\ r.verdict = "none" \/ outcome # "none" => r.ahead = 0
      /\ outcome # "none" => r.verdict # "none"
  BY <1>1, <1>2, <1>3, <1>4, Zenon DEF AttemptInv, AttemptOf
<1> HIDE DEF r, o
<1>6. /\ AttemptOf(run)' /\ run'.verdict = r.verdict
      /\ run'.busy = "none" <=> at'["handler"] = "idle"
  BY <1>1, <1>2, <1>3, <1>5, HandleAttempt
<1>7. ScreenInv' /\ at'["finish"] = at["finish"] /\ answered' \in BOOLEAN
  BY <1>1, <1>3, HandleScreens, Zenon DEF AccountTypes
<1>8. AttemptInv'
  BY <1>1, <1>6, <1>7, Zenon DEF AttemptInv
<1>9. late' \in BOOLEAN
  BY <1>1, Zenon DEF AccountTypes
<1>10. QED BY <1>1, <1>2, <1>6, <1>7, <1>8, <1>9, AccountsStay DEF Inv

-----------------------------------------------------------------------------
(* The end of an attempt, and what follows it.                             *)

LEMMA FinishProcessInv ==
  ASSUME Inv, NEW how \in Exits, NEW unread \in BOOLEAN, run.alive, FinishProcess(how, unread)
  PROVE  Inv'
<1>1. /\ run \in Run /\ run.verdict = "none" /\ outcome = "none"
      /\ ScreenInv /\ AccountTypes /\ AttemptInv
      /\ UNCHANGED <<turnVars, ghosts>> /\ Stays /\ outcome' = outcome
  <2>1. run.alive = TRUE
    BY DEF Inv, AttemptInv, AttemptOf, Run
  <2>2. QED BY <2>1, Zenon DEF Inv, AttemptInv, AttemptOf, FinishProcess, Stays
<1> DEFINE v == Verdict(how)
           left == IF unread THEN run.written ELSE NothingWritten
           n == Len(run.chain) + (IF run.busy = "none" THEN 0 ELSE 1)
<1>2. v \in {"success", "error", "failed"}
  BY DEF Verdict, Exits
<1>3. left \in [shown : Nat, final : Nat]
  BY <1>1 DEF Run, NothingWritten
<1>4. n \in Nat /\ n = Waiting(run)
  <2>1. Len(run.chain) \in Nat
    BY <1>1 DEF Run
  <2>2. CASE run.busy = "none"
    <3>1. n = Len(run.chain) + 0
      BY <2>2, Zenon
    <3> HIDE DEF n
    <3>2. QED BY <2>1, <2>2, <3>1 DEF Waiting
  <2>3. CASE run.busy # "none"
    <3>1. n = Len(run.chain) + 1
      BY <2>3, Zenon
    <3> HIDE DEF n
    <3>2. QED BY <2>1, <2>3, <3>1 DEF Waiting
  <2>4. QED BY <2>2, <2>3
<1>5. run' = [run EXCEPT !.alive = FALSE, !.verdict = v, !.unread = unread, !.written = left,
                         !.flushed = FALSE, !.ahead = n]
  BY Zenon DEF FinishProcess
<1> HIDE DEF v, left, n
<1> DEFINE half == [run EXCEPT !.alive = FALSE, !.verdict = v, !.unread = unread]
<1>6. /\ half \in Run /\ half.alive = FALSE /\ half.verdict = v /\ half.chain = run.chain
      /\ half.busy = run.busy
  <2>1. v \in {"none", "success", "error", "failed", "over"}
    BY <1>2
  <2>2. half \in Run
    BY <1>1, <2>1 DEF Run
  <2>3. QED BY <1>1, <2>2 DEF Run
<1>7. run' = [half EXCEPT !.written = left, !.flushed = FALSE, !.ahead = n]
  BY <1>1, <1>5 DEF Run
<1> HIDE DEF half
<1>8. run' \in Run
  BY <1>3, <1>4, <1>6, <1>7 DEF Run
<1>9. /\ run'.alive = FALSE /\ run'.verdict = v /\ run'.chain = run.chain
      /\ run'.busy = run.busy /\ run'.ahead = n
  BY <1>6, <1>7 DEF Run
<1>10. Waiting(run)' = Waiting(run)
  BY <1>9, Zenon DEF Waiting
<1>11. AttemptOf(run)'
  BY <1>1, <1>2, <1>4, <1>8, <1>9, <1>10 DEF AttemptOf
<1>12. AttemptInv'
  BY <1>1, <1>9, <1>11, Zenon DEF AttemptInv, turnVars, ghosts
<1>13. answered' \in BOOLEAN /\ late' \in BOOLEAN
  BY <1>1, Zenon DEF AccountTypes, ghosts
<1>14. QED BY <1>1, <1>12, <1>13, UnchangedScreen, AccountsStay DEF Inv

\* An attempt is over when all its outputs were handled.
LEMMA ResolvedIdle ==
  ASSUME Inv, Resolved
  PROVE  run.busy = "none" /\ run.chain = <<>> /\ at["handler"] = "idle" /\ at["finish"] = "idle"
<1>1. /\ run \in Run /\ Waiting(run) = 0 /\ at["finish"] = "idle"
      /\ run.busy = "none" <=> at["handler"] = "idle"
  BY Zenon DEF Inv, AttemptInv, AttemptOf, Resolved, Closed
<1>2. Len(run.chain) \in Nat
  BY <1>1 DEF Run
<1>3. run.busy = "none" /\ Len(run.chain) = 0
  BY <1>1, <1>2 DEF Waiting
<1>4. run.chain = <<>>
  BY <1>1, <1>3 DEF Run
<1>5. QED BY <1>1, <1>3, <1>4

Accounts ==
  /\ transient \in 0 .. MaxTransient /\ refreshed \subseteq 1 .. Tokens
  /\ token \in 1 .. Tokens /\ cooling \subseteq 1 .. Tokens

LEMMA AgainInv ==
  ASSUME Inv, Resolved, NEW st \in {"fresh", "rotate"}, Again(st), Accounts',
         first' \in [vis : BOOLEAN, reason : Reasons \cup {"none"}],
         first'.reason # "none" => st = "rotate"
  PROVE  Inv'
<1>1. /\ UNCHANGED <<turnVars, provider, outcome, ghosts>> /\ run' = NewRun /\ stage' = st
      /\ ScreenInv /\ AccountTypes /\ AttemptInv /\ outcome = "none"
  BY Zenon DEF Inv, Again, Resolved
<1>2. AccountTypes'
  BY <1>1, Zenon DEF AccountTypes, Accounts, ghosts
<1>3. NewRun.verdict = "none" /\ NewRun.busy = "none" /\ NewRun.ahead = 0 /\ NewRun.alive = TRUE
  BY DEF NewRun
<1>4. AttemptOf(run)'
  BY <1>1, <1>3, NewRunTypes DEF AttemptOf
<1>5. AttemptInv'
  BY <1>1, <1>3, <1>4, ResolvedIdle DEF AttemptInv, turnVars
<1>6. QED BY <1>1, <1>2, <1>5, UnchangedScreen DEF Inv

LEMMA EndsInv ==
  ASSUME Inv, Resolved, NEW o \in {"success", "error"}, Ends(o),
         token' \in 1 .. Tokens /\ cooling' \subseteq 1 .. Tokens
  PROVE  Inv'
<1>1. /\ UNCHANGED <<turnVars, provider, ghosts>> /\ outcome' = o /\ stage' = "primary"
      /\ first' = NoFirst /\ transient' = 0 /\ refreshed' = {}
      /\ ScreenInv /\ AccountTypes /\ AttemptInv /\ run.ahead = 0 /\ Closed
  BY Zenon DEF Inv, Ends, Resolved
<1>2. AccountTypes'
  <2>1. NoFirst \in [vis : BOOLEAN, reason : Reasons \cup {"none"}] /\ NoFirst.reason = "none"
    BY DEF NoFirst
  <2>2. 0 \in 0 .. MaxTransient
    BY AgentTurnAssumption
  <2>3. o \in {"none", "success", "error"}
    OBVIOUS
  <2>4. QED BY <1>1, <2>1, <2>2, <2>3, Zenon DEF AccountTypes, ghosts
<1>3. run \in Run /\ run.alive # TRUE
  BY <1>1, Zenon DEF AttemptInv, AttemptOf, Closed
<1>4. run' = [run EXCEPT !.verdict = "over", !.vis = FALSE, !.nullOnly = FALSE, !.flushed = FALSE]
  BY Zenon DEF Ends
<1>5. /\ run' \in Run /\ run'.verdict = "over" /\ run'.alive = run.alive /\ run'.busy = run.busy
      /\ run'.chain = run.chain /\ run'.ahead = run.ahead
  BY <1>3, <1>4 DEF Run
<1>6. AttemptOf(run)'
  BY <1>1, <1>3, <1>5 DEF AttemptOf
<1>7. at' = at
  BY <1>1 DEF turnVars
<1>8. AttemptInv'
  BY <1>1, <1>5, <1>6, <1>7, ResolvedIdle DEF AttemptInv
<1>9. QED BY <1>1, <1>2, <1>8, UnchangedScreen DEF Inv

LEMMA FailsInv ==
  ASSUME Inv, Resolved, NEW why, NEW vis, Fails(why, vis), cooling' \subseteq 1 .. Tokens
  PROVE  Inv'
<1>1. token' \in 1 .. Tokens
  BY DEF Fails, Inv, AccountTypes
<1>2. QED BY <1>1, EndsInv DEF Fails

LEMMA SucceedsInv ==
  ASSUME Inv, Resolved, NEW heal \in BOOLEAN, Succeeds(heal) PROVE Inv'
<1>1. token' \in 1 .. Tokens /\ cooling' \subseteq 1 .. Tokens
  BY DEF Succeeds, MarkHealthy, Inv, AccountTypes
<1>2. QED BY <1>1, EndsInv DEF Succeeds

LEMMA RotateInv ==
  ASSUME Inv, Resolved, NEW why, NEW was \in [vis : BOOLEAN, reason : Reasons \cup {"none"}],
         Rotate(why, was)
  PROVE  Inv'
<1>1. /\ Accounts /\ Tokens \in Nat /\ MaxTransient \in Nat
  BY AgentTurnAssumption DEF Inv, AccountTypes, Accounts
<1>2. CASE first' = was /\ RetryTransient(why)
  <2>1. Accounts' /\ Again("rotate")
    BY <1>1, <1>2 DEF RetryTransient, Accounts
  <2>2. QED BY <1>2, <2>1, AgainInv
<1>3. CASE first' = was /\ RetryRefreshed(why)
  <2>1. Accounts' /\ Again("rotate")
    BY <1>1, <1>3 DEF RetryRefreshed, Accounts
  <2>2. QED BY <1>3, <2>1, AgainInv
<1>4. CASE first' = was /\ RetryRotated(why)
  <2>1. Accounts' /\ Again("rotate")
    BY <1>1, <1>4 DEF RetryRotated, RotateToken, NextTokens, Accounts
  <2>2. QED BY <1>4, <2>1, AgainInv
<1>5. CASE Exhausted(why) /\ Fails(was.reason, was.vis)
  <2>1. cooling' \subseteq 1 .. Tokens
    BY <1>1, <1>5 DEF Exhausted, Accounts
  <2>2. QED BY <1>5, <2>1, FailsInv
<1>6. QED BY <1>2, <1>3, <1>4, <1>5 DEF Rotate

LEMMA SessionInv ==
  ASSUME Inv, DropSession \/ SessionStillFails PROVE Inv'
<1>1. CASE DropSession
  <2>1. /\ Accounts' /\ Again("fresh") /\ Resolved /\ first' = first /\ stage = "primary"
        /\ AccountTypes
    BY <1>1 DEF DropSession, Inv, AccountTypes, Accounts
  <2>2. QED BY <2>1, AgainInv DEF AccountTypes
<1>2. CASE SessionStillFails
  <2>1. Resolved /\ Fails("session", run.vis) /\ cooling' \subseteq 1 .. Tokens
    BY <1>2 DEF SessionStillFails, Inv, AccountTypes
  <2>2. QED BY <2>1, FailsInv
<1>3. QED BY <1>1, <1>2

LEMMA WhyIsReason ==
  ASSUME Inv, NEW err \in ErrorTexts PROVE Why(err) \in Reasons \cup {"none"}
BY DEF Inv, AttemptInv, AttemptOf, Run, Why, ErrorTexts

LEMMA AfterFirstInv ==
  ASSUME Inv, NEW err \in ErrorTexts, AfterFirst(err) PROVE Inv'
<1>1. Resolved
  BY DEF AfterFirst
<1>2. CASE Rotate(Why(err), [vis |-> run.vis, reason |-> Why(err)])
  <2>1. run.vis \in BOOLEAN
    BY DEF Inv, AttemptInv, AttemptOf, Run
  <2>2. [vis |-> run.vis, reason |-> Why(err)] \in [vis : BOOLEAN, reason : Reasons \cup {"none"}]
    BY <2>1, WhyIsReason
  <2>3. QED BY <1>1, <1>2, <2>2, RotateInv
<1>3. CASE Succeeds(FALSE)
  BY <1>1, <1>3, SucceedsInv
<1>4. ASSUME NEW why, Fails(why, run.vis), UNCHANGED cooling PROVE Inv'
  <2>1. cooling' \subseteq 1 .. Tokens
    BY <1>4 DEF Inv, AccountTypes
  <2>2. QED BY <1>1, <1>4, <2>1, FailsInv
<1>5. QED BY <1>2, <1>3, <1>4, Zenon DEF AfterFirst

LEMMA AfterRotatedInv ==
  ASSUME Inv, NEW err \in ErrorTexts, AfterRotated(err) PROVE Inv'
<1>1. Resolved
  BY DEF AfterRotated
<1>2. CASE Rotate(Why(err), first)
  <2>1. first \in [vis : BOOLEAN, reason : Reasons \cup {"none"}]
    BY DEF Inv, AccountTypes
  <2>2. QED BY <1>1, <1>2, <2>1, RotateInv
<1>3. CASE Succeeds(TRUE)
  BY <1>1, <1>3, SucceedsInv
<1>4. ASSUME Fails(first.reason, first.vis), UNCHANGED cooling PROVE Inv'
  <2>1. cooling' \subseteq 1 .. Tokens
    BY <1>4 DEF Inv, AccountTypes
  <2>2. QED BY <1>1, <1>4, <2>1, FailsInv
<1>5. QED BY <1>2, <1>3, <1>4, Zenon DEF AfterRotated

-----------------------------------------------------------------------------
(* The end of the turn, and the controller's own steps.                    *)

LEMMA FinishInv == ASSUME Inv, Finish PROVE Inv'
<1>1. /\ outcome # "none" /\ UNCHANGED <<provider, run, retryVars, outcome, ghosts>>
      /\ ScreenInv /\ AccountTypes /\ AttemptInv
  BY DEF Finish, Inv
<1>2. PICK interrupted \in BOOLEAN : BeginFinish \/ FinishTurn(outcome, interrupted)
  BY DEF Finish
<1>3. ScreenInv' /\ at'["handler"] = at["handler"]
  BY <1>1, <1>2, BeginFinishScreen, FinishScreen, FinishFlow
<1>4. AccountTypes'
  BY <1>1 DEF AccountTypes, retryVars, ghosts
<1>5. AttemptOf(run)'
  BY <1>1, Zenon DEF AttemptInv, AttemptOf, Waiting
<1>6. AttemptInv'
  BY <1>1, <1>3, <1>5, Zenon DEF AttemptInv, ghosts
<1>7. QED BY <1>3, <1>4, <1>6 DEF Inv

\* The handling of an output ends with the step that brings the handler back.
LEMMA ControllerInv ==
  ASSUME Inv, Controller(ControllerStep) \/ Controller(Tick) \/ Controller(LoseOwnership)
  PROVE  Inv' /\ run'.verdict = run.verdict
<1>1. /\ run' = IF run.busy # "none" /\ at'["handler"] = "idle" THEN Done(run) ELSE run
      /\ UNCHANGED <<provider, retryVars, outcome, ghosts>>
      /\ ScreenInv /\ AccountTypes /\ AttemptInv /\ AttemptOf(run) /\ run \in Run
  BY Zenon DEF Controller, Inv, AttemptInv, AttemptOf
<1>2. /\ ScreenInv'
      /\ at["handler"] = "idle" => at'["handler"] = "idle"
      /\ at["finish"] = "idle" => at'["finish"] = "idle"
  <2>1. CASE ControllerStep
    BY <1>1, <2>1, StepScreen, StepFlow
  <2>2. CASE Tick
    BY <1>1, <2>2, TickScreen DEF Tick
  <2>3. CASE LoseOwnership
    BY <1>1, <2>3, OwnershipScreen DEF LoseOwnership
  <2>4. QED BY <2>1, <2>2, <2>3, Zenon DEF Controller
<1>3. AccountTypes'
  BY <1>1 DEF AccountTypes, retryVars, ghosts
<1>4. outcome' = outcome /\ late' = late
  BY <1>1 DEF ghosts
<1>5. /\ AttemptOf(run)' /\ run'.chain = run.chain /\ run'.verdict = run.verdict
      /\ (run'.busy = "none" <=> at'["handler"] = "idle")
  <2>1. CASE run.busy # "none" /\ at'["handler"] = "idle"
    <3>1. /\ run' \in Run /\ run'.busy = "none" /\ run'.chain = run.chain
          /\ run'.ahead = IF run.ahead > 0 THEN run.ahead - 1 ELSE 0
          /\ run'.verdict = run.verdict /\ run'.alive = run.alive
      BY <1>1, <2>1, DoneRun
    <3>2. Len(run.chain) \in Nat
      BY <1>1 DEF Run
    <3>3. QED BY <1>1, <1>4, <2>1, <3>1, <3>2 DEF AttemptOf, Waiting
  <2>2. CASE ~ (run.busy # "none" /\ at'["handler"] = "idle")
    <3>1. run' = run
      BY <1>1, <2>2, Zenon
    <3>2. run.busy = "none" <=> at["handler"] = "idle"
      BY <1>1, Zenon DEF AttemptInv
    <3>3. QED BY <1>1, <1>2, <1>4, <2>2, <3>1, <3>2, Zenon DEF AttemptOf, Waiting
  <2>3. QED BY <2>1, <2>2
<1>6. AttemptInv'
  BY <1>1, <1>2, <1>4, <1>5, Zenon DEF AttemptInv
<1>7. QED BY <1>2, <1>3, <1>5, <1>6 DEF Inv

LEMMA UnchangedInv == Inv /\ UNCHANGED vars => Inv'
<1> SUFFICES ASSUME Inv, UNCHANGED vars PROVE Inv'
  OBVIOUS
<1>1. ScreenInv'
  BY UnchangedScreen DEF Inv, vars
<1>2. AccountTypes'
  BY DEF Inv, AccountTypes, vars, retryVars, ghosts
<1>3. AttemptInv'
  <2>1. UNCHANGED <<run, at, outcome, late>> /\ AttemptInv
    BY DEF vars, turnVars, ghosts, Inv
  <2>2. QED BY <2>1, Zenon DEF AttemptInv, AttemptOf, Waiting
<1>4. QED BY <1>1, <1>2, <1>3 DEF Inv

LEMMA InvStep == Inv /\ [Next]_vars => Inv'
<1> SUFFICES ASSUME Inv, [Next]_vars PROVE Inv'
  OBVIOUS
<1>1. CASE Agent
  <2>1. ASSUME NEW how \in Exits, ProcessEnds(how) PROVE Inv'
    <3>1. PICK unread \in BOOLEAN : FinishProcess(how, unread)
      BY <2>1, Zenon DEF ProcessEnds
    <3>2. run.alive
      BY <2>1 DEF ProcessEnds
    <3>3. QED BY <3>1, <3>2, FinishProcessInv
  <2>2. QED BY <1>1, <2>1, WriteInv DEF Agent
<1>2. CASE Runs
  <2>1. AfterAttempt => Inv'
    BY SessionInv, AfterFirstInv, AfterRotatedInv DEF AfterAttempt
  <2>2. QED BY <1>2, <2>1, ReadLateInv, TakeInv, FinishInv DEF Runs
<1>3. CASE ForceResolve
  BY <1>3, FinishProcessInv DEF ForceResolve, Exits
<1>4. CASE Shows \/ Controller(Tick) \/ Controller(LoseOwnership)
  BY <1>4, ControllerInv DEF Shows
<1>5. CASE UNCHANGED vars
  BY <1>5, UnchangedInv
<1>6. QED BY <1>1, <1>2, <1>3, <1>4, <1>5 DEF Next

\* Types, and what the attempts, their outputs and the controller say of each
\* other: a verdict waits for the outputs read before it, a turn with an
\* outcome has handled what was not late, and no final replaces a post that is
\* still edited.
THEOREM InvariantHolds == Spec => []Inv
BY InitInv, InvStep, PTL DEF Spec

\* Every reachable state of a turn is well typed.
THEOREM TypeCorrect == Spec => []TypeOK
BY InvariantHolds, InvTypes, PTL

-----------------------------------------------------------------------------
(* A turn that is run again.                                               *)

LEMMA EndsClosed == ASSUME Inv, NEW o, Ends(o) PROVE Closed'
<1>1. run \in Run
  BY DEF Inv, AttemptInv, AttemptOf
<1>2. run'.verdict = "over"
  BY <1>1 DEF Ends, Run
<1>3. QED BY <1>2 DEF Closed

LEMMA FailsClosed == ASSUME Inv, NEW why, NEW vis, Fails(why, vis) PROVE Closed'
BY EndsClosed DEF Fails

\* Only an attempt of Claude that has answered nothing is followed by another.
LEMMA RerunStep ==
  ASSUME Inv, [Next]_vars, provider = "claude", Closed, ~Closed' PROVE ~run.saw
<1>1. run.verdict # "none" /\ run'.verdict = "none"
  BY DEF Closed
<1>2. run.alive # TRUE
  BY <1>1, Zenon DEF Inv, AttemptInv, AttemptOf
<1>3. run.alive = FALSE
  BY <1>2 DEF Inv, AttemptInv, AttemptOf, Run
<1>4. ~ (Agent \/ ForceResolve)
  BY <1>3, Zenon DEF Agent, Write, ProcessEnds, ForceResolve
<1>5. run'.verdict # run.verdict
  BY <1>1
<1>6. ~ (Shows \/ Controller(Tick) \/ Controller(LoseOwnership))
  BY <1>5, ControllerInv DEF Shows
<1>7. ~ UNCHANGED vars /\ ~ Finish
  BY <1>5 DEF vars, Finish
<1>8. ~ Take /\ ~ \E o \in Outputs : ReadLate(o)
  BY <1>5, TakeInv, ReadLateInv
<1>9. AfterAttempt
  BY <1>4, <1>6, <1>7, <1>8, Zenon DEF Next, Runs
<1>10. CASE DropSession
  BY <1>10 DEF DropSession, SessionFailed
<1>11. CASE SessionStillFails
  BY <1>11, FailsClosed DEF SessionStillFails
<1>12. ASSUME NEW err \in ErrorTexts, AfterFirst(err) PROVE ~run.saw
  <2>1. MayRetry
    BY <1>12, EndsClosed, FailsClosed, Zenon DEF AfterFirst, Succeeds
  <2>2. QED BY <2>1 DEF MayRetry
<1>13. ASSUME NEW err \in ErrorTexts, AfterRotated(err) PROVE ~run.saw
  <2>1. RetryRotation(err)
    BY <1>13, EndsClosed, FailsClosed, Zenon DEF AfterRotated, Succeeds
  <2>2. QED BY <2>1 DEF RetryRotation
<1>14. QED BY <1>9, <1>10, <1>11, <1>12, <1>13 DEF AfterAttempt

\* Claude is not run a second time in a turn once it has answered, whatever
\* fails after the answer: the rotation of accounts, the refresh of tokens, the
\* retries of a failing provider and a dropped session all look at sawOutput.
THEOREM RerunCorrect == Spec => NoRerunAfterAnswer
<1>1. Inv /\ [Next]_vars => [provider = "claude" /\ Closed /\ ~Closed' => ~run.saw]_vars
  BY RerunStep
<1>2. QED BY <1>1, InvariantHolds, PTL DEF Spec, NoRerunAfterAnswer

-----------------------------------------------------------------------------
(* No edit over a final.                                                   *)

FinalStays == \A i \in DOMAIN posts : posts[i] = "final" => posts'[i] = "final"

\* What the other steps do to the controller: they change no post.
LEMMA PostsStay ==
  ASSUME Inv, [Next]_vars, ~ Controller(ControllerStep) PROVE posts' = posts
<1>1. ASSUME NEW o \in Outputs, NEW r, Handle(o, r) PROVE posts' = posts
  <2>1. HandleOutput(Shape(o)) \/ UNCHANGED turnVars
    BY <1>1, Zenon DEF Handle
  <2>2. ASSUME NEW s \in Shown \cup FinalOutputs, HandleOutput(s) PROVE posts' = posts
    BY <2>2 DEF HandleOutput, NothingShown, HandleText, HandleTool, SendProgress, BeginPublish,
                BeginFinalize, Shown, FinalOutputs
  <2>3. QED BY <2>1, <2>2, ShapeOutput DEF turnVars
<1>2. ASSUME NEW o \in Outputs, NEW r, Read(o, r) PROVE posts' = posts
  BY <1>1, <1>2 DEF Read, turnVars
<1>3. CASE Agent \/ ForceResolve
  BY <1>2, <1>3, Zenon DEF Agent, Write, ProcessEnds, ForceResolve, FinishProcess, turnVars
<1>4. CASE Take \/ \E o \in Outputs : ReadLate(o)
  <2>1. Take => Head(run.chain) \in Outputs
    BY DEF Take, Inv, AttemptInv, AttemptOf, Run
  <2>2. QED BY <1>1, <1>2, <1>4, <2>1, Zenon DEF Take, ReadLate
<1>5. CASE AfterAttempt
  <2>1. ASSUME NEW o, Ends(o) PROVE posts' = posts
    BY <2>1 DEF Ends, turnVars
  <2>2. ASSUME NEW st, Again(st) PROVE posts' = posts
    BY <2>2 DEF Again, turnVars
  <2>3. ASSUME NEW why, NEW was, Rotate(why, was) PROVE posts' = posts
    BY <2>1, <2>2, <2>3, Zenon DEF Rotate, RetryTransient, RetryRefreshed, RetryRotated, Fails
  <2>4. QED
    BY <1>5, <2>1, <2>2, <2>3, Zenon
    DEF AfterAttempt, DropSession, SessionStillFails, AfterFirst, AfterRotated, Fails, Succeeds
<1>6. CASE Finish
  <2>1. ASSUME NEW interrupted \in BOOLEAN, FinishTurn(outcome, interrupted)
        PROVE  posts' = posts
    BY <2>1, FinishCases DEF FinishQuietly, FinishInterrupted, BeginPublish, BeginFinalize
  <2>2. QED BY <1>6, <2>1 DEF Finish, BeginFinish
<1>7. CASE Controller(Tick) \/ Controller(LoseOwnership)
  BY <1>7 DEF Controller, Tick, LoseOwnership
<1>8. CASE UNCHANGED vars
  BY <1>8 DEF vars, turnVars
<1>9. QED
  BY <1>3, <1>4, <1>5, <1>6, <1>7, <1>8, Zenon DEF Next, Runs, Shows

LEMMA FinalStep == ASSUME Inv, [Next]_vars PROVE FinalStays
<1>1. PostInv
  BY DEF Inv, ScreenInv
<1>2. CASE Controller(ControllerStep)
  <2>1. CASE Tracked
    BY <1>1, <2>1 DEF Tracked, PostInv, FinalStays
  <2>2. ASSUME NEW ok \in BOOLEAN, EditEnds(ok) PROVE FinalStays
    <3>1. editing # 0 /\ (posts' = posts \/ posts' = [posts EXCEPT ![editing] = "progress"])
      BY <2>2, Zenon DEF EditEnds
    <3>2. QED BY <1>1, <3>1 DEF PostInv, FinalStays
  <2>3. ASSUME NEW p \in Publishers, Delivered(p) PROVE FinalStays
    BY <1>1, <2>3 DEF Delivered, PostInv, FinalStays
  <2>4. ASSUME NotTracked \/ PlainSent \/ PlainFails
               \/ \E p \in Publishers : Consume(p) \/ Announce(p) \/ Finalized(p)
        PROVE  posts' = posts
    BY <2>4, Zenon DEF NotTracked, PlainSent, PlainFails, Consume, Announce, Finalized
  <2>5. posts' = posts => FinalStays
    BY DEF FinalStays
  <2>6. ControllerStep
    BY <1>2 DEF Controller
  <2>7. QED BY <2>1, <2>2, <2>3, <2>4, <2>5, <2>6, Zenon DEF ControllerStep
<1>3. CASE ~ Controller(ControllerStep)
  BY <1>3, PostsStay DEF FinalStays
<1>4. QED BY <1>2, <1>3

\* Once a post shows the final text no edit of the progress, in flight,
\* requested or of the ticker, puts the progress back.
THEOREM LastWordCorrect == Spec => FinalIsLastWord
<1>1. Inv /\ [Next]_vars => [FinalStays]_vars
  BY FinalStep
<1>2. QED BY <1>1, InvariantHolds, PTL DEF Spec, FinalIsLastWord, FinalStays

-----------------------------------------------------------------------------
(* What a step does to the room: the rest leaves the controller alone.     *)

Silent == UNCHANGED <<turnVars, ghosts>>

\* Outputs that come in time are handled before the turn has its outcome.
Handles(o) ==
  /\ HandleOutput(Shape(o)) /\ late' \in {late, TRUE}
  /\ answered' = (answered \/ (o = "final" /\ ~late'))
  /\ late' # TRUE => at["finish"] = "idle"

\* A final with a text is dropped only when the run has lost the turn.
LEMMA HandleCases ==
  ASSUME Inv, NEW o \in Outputs, NEW r, Handle(o, r), late' \in {late, TRUE},
         late' # TRUE => at["finish"] = "idle"
  PROVE  Handles(o) \/ UNCHANGED <<turnVars, answered>>
BY Zenon DEF Handle, Handles

LEMMA ReadCases ==
  ASSUME Inv, NEW o \in Outputs, NEW r, Read(o, r), late' \in {late, TRUE},
         late' # TRUE => at["finish"] = "idle"
  PROVE  Handles(o) \/ UNCHANGED <<turnVars, answered>>
BY HandleCases, Zenon DEF Read

\* Every step handles an output, ends the turn, is the controller's own, or
\* changes nothing the room sees; an outcome comes before the end begins.
RoomStep ==
  \/ /\ UNCHANGED outcome /\ \E o \in Outputs : Handles(o)
  \/ /\ outcome # "none" /\ UNCHANGED <<outcome, ghosts>>
     /\ BeginFinish \/ \E interrupted \in BOOLEAN : FinishTurn(outcome, interrupted)
  \/ UNCHANGED <<outcome, ghosts>> /\ (ControllerStep \/ Tick \/ LoseOwnership)
  \/ /\ UNCHANGED <<turnVars, answered>> /\ late' \in {late, TRUE}
     /\ outcome' = outcome \/ at["finish"] = "idle"

LEMMA RoomSteps == ASSUME Inv, [Next]_vars PROVE RoomStep
<1>1. ASSUME NEW o \in Outputs, Write(o) PROVE RoomStep
  <2>1. run.alive = TRUE
    BY <1>1 DEF Write, Inv, AttemptInv, AttemptOf, Run
  <2>2. outcome = "none" /\ at["finish"] = "idle"
    BY <2>1, Zenon DEF Inv, AttemptInv, AttemptOf
  <2>3. late' = late /\ outcome' = outcome
    BY <1>1, Zenon DEF Write, Stays
  <2>4. Handles(o) \/ UNCHANGED <<turnVars, answered>>
    BY <1>1, <2>2, <2>3, ReadCases, Zenon DEF Write
  <2>5. QED BY <2>3, <2>4, Zenon DEF RoomStep
<1>2. CASE \E how \in Exits : ProcessEnds(how)
  BY <1>2, Zenon DEF ProcessEnds, FinishProcess, Stays, ghosts, RoomStep
<1>3. CASE ForceResolve
  BY <1>3, Zenon DEF ForceResolve, FinishProcess, Stays, ghosts, RoomStep
<1>4. ASSUME NEW o \in Outputs, ReadLate(o) PROVE RoomStep
  <2>1. late' = TRUE /\ outcome' = outcome
    BY <1>4, Zenon DEF ReadLate, Stays
  <2>2. Handles(o) \/ UNCHANGED <<turnVars, answered>>
    BY <1>4, <2>1, ReadCases, Zenon DEF ReadLate
  <2>3. QED BY <2>1, <2>2, Zenon DEF RoomStep
<1>5. CASE Take
  <2>1. Head(run.chain) \in Outputs
    BY <1>5 DEF Take, Inv, AttemptInv, AttemptOf, Run
  <2>2. late' = late /\ outcome' = outcome /\ run.chain # <<>>
    BY <1>5, Zenon DEF Take, Stays
  <2>3. late # TRUE => at["finish"] = "idle"
    BY <2>2, Zenon DEF Inv, AttemptInv
  <2>4. Handles(Head(run.chain)) \/ UNCHANGED <<turnVars, answered>>
    BY <1>5, <2>1, <2>2, <2>3, HandleCases, Zenon DEF Take
  <2>5. QED BY <2>1, <2>2, <2>4, Zenon DEF RoomStep
<1>6. CASE AfterAttempt
  <2>1. Resolved
    BY <1>6, Zenon DEF AfterAttempt, DropSession, SessionStillFails, AfterFirst, AfterRotated
  <2>2. at["finish"] = "idle"
    BY <2>1, ResolvedIdle
  <2>3. ASSUME NEW o, Ends(o) PROVE Silent
    BY <2>3, Zenon DEF Ends, Silent
  <2>4. ASSUME NEW st, Again(st) PROVE Silent
    BY <2>4, Zenon DEF Again, Silent
  <2>5. ASSUME NEW why, NEW was, Rotate(why, was) PROVE Silent
    BY <2>3, <2>4, <2>5, Zenon DEF Rotate, RetryTransient, RetryRefreshed, RetryRotated, Fails
  <2>6. Silent
    BY <1>6, <2>3, <2>4, <2>5, Zenon
    DEF AfterAttempt, DropSession, SessionStillFails, AfterFirst, AfterRotated, Fails, Succeeds
  <2>7. QED BY <2>2, <2>6, Zenon DEF Silent, ghosts, RoomStep
<1>7. CASE Finish
  BY <1>7, Zenon DEF Finish, RoomStep
<1>8. CASE Shows \/ Controller(Tick) \/ Controller(LoseOwnership)
  BY <1>8, Zenon DEF Shows, Controller, RoomStep
<1>9. CASE UNCHANGED vars
  BY <1>9, Zenon DEF vars, ghosts, RoomStep
<1>10. QED
  BY <1>1, <1>2, <1>3, <1>4, <1>5, <1>6, <1>7, <1>8, <1>9, Zenon DEF Next, Agent, Runs

-----------------------------------------------------------------------------
(* The answer.                                                             *)

Unanswered ==
  /\ at["handler"] \notin Giving
  /\ at["finish"] \in {"idle", "wait"} => visible # "final" /\ finals = <<>>

\* The handler is about to give the answer, and nothing was given before.
Answering ==
  /\ at["handler"] \in Giving /\ finals = <<>> /\ at["finish"] = "idle"
  /\ visible = "final" <=> at["handler"] = "deliver"
Answered ==
  /\ at["handler"] = "idle" /\ visible = "final" /\ finals = <<"answer">>
  /\ at["finish"] \in {"idle", "wait", "done"}

AnswerInv ==
  owns = TRUE /\ late = FALSE =>
    /\ answered = FALSE => Unanswered
    /\ answered = TRUE => Answering \/ Answered

LEMMA AnswerStays ==
  ASSUME AnswerInv, UNCHANGED <<owns, late, answered, at, visible, finals>> PROVE AnswerInv'
BY Zenon DEF AnswerInv, Unanswered, Answering, Answered

\* A handled final with a text is on its way to the room; nothing is after it.
LEMMA HandleAnswer ==
  ASSUME Inv, AnswerInv, NEW o \in Outputs, Handles(o), owns' = TRUE, late' = FALSE
  PROVE  /\ answered' = FALSE => Unanswered'
         /\ answered' = TRUE => Answering' \/ Answered'
<1>1. /\ owns = TRUE /\ late = FALSE /\ at["handler"] = "idle" /\ at["finish"] = "idle"
      /\ HandleOutput(Shape(o)) /\ PlaceTypes /\ answered \in BOOLEAN
      /\ Shape(o) \in Shown \cup FinalOutputs
  <2>1. owns = TRUE /\ at["handler"] = "idle"
    BY DEF Handles, HandleOutput
  <2>2. late # TRUE
    BY DEF Handles
  <2>3. late = FALSE
    BY <2>2 DEF Inv, AccountTypes
  <2>4. QED
    BY <2>1, <2>3, ShapeOutput, Zenon DEF Handles, Inv, ScreenInv, AccountTypes
<1>2. answered' \in BOOLEAN /\ (answered' = TRUE <=> answered = TRUE \/ o = "final")
  <2>1. answered' = (answered \/ o = "final")
    BY DEF Handles
  <2>2. QED BY <1>1, <2>1
<1>3. CASE visible = "final"
  <2>1. UNCHANGED <<at, visible, finals>>
    BY <1>1, <1>3, Zenon DEF HandleOutput, NothingShown
  <2>2. answered = TRUE
    BY <1>1, <1>3, Zenon DEF AnswerInv, Unanswered
  <2>3. QED BY <1>1, <1>2, <1>3, <2>1, <2>2, Zenon DEF AnswerInv, Answering, Answered
<1>4. CASE visible # "final"
  <2>1. answered = FALSE /\ finals = <<>>
    <3>1. answered # TRUE
      BY <1>1, <1>4 DEF AnswerInv, Answering, Answered, Giving
    <3>2. answered = FALSE
      BY <1>1, <3>1
    <3>3. QED BY <1>1, <3>2, Zenon DEF AnswerInv, Unanswered
  <2>2. CASE o = "final"
    <3>1. Shape(o) = "final"
      BY <2>2 DEF Shape, FinalOutputs
    <3>2. BeginPublish("handler", "answer")
      BY <1>1, <1>4, <3>1 DEF HandleOutput
    <3>3. /\ at'["handler"] = "publish" /\ at'["finish"] = "idle" /\ visible' = visible
          /\ finals' = finals
      BY <1>1, <3>2 DEF BeginPublish, PlaceTypes, Publishers
    <3>4. Answering'
      BY <1>4, <2>1, <3>3 DEF Answering, Giving
    <3>5. QED BY <1>2, <2>2, <3>4
  <2>3. CASE o # "final"
    <3>1. Shape(o) # "final"
      BY <2>3 DEF Shape
    <3>2. /\ visible' = visible /\ finals' = finals
          /\ at' = at \/ \E pc \in {"track", "finalize"} : at' = [at EXCEPT !["handler"] = pc]
      BY <1>1, <1>4, <3>1
      DEF HandleOutput, NothingShown, HandleText, HandleTool, SendProgress, HandlerAt,
          BeginFinalize, Shown, FinalOutputs
    <3>3. at'["handler"] \notin Giving
      BY <1>1, <3>2 DEF PlaceTypes, Publishers, Giving
    <3>4. Unanswered'
      BY <1>4, <2>1, <3>2, <3>3 DEF Unanswered
    <3>5. answered' # TRUE
      BY <1>2, <2>1, <2>3
    <3>6. QED BY <3>4, <3>5
  <2>4. QED BY <2>2, <2>3
<1>5. QED BY <1>3, <1>4

LEMMA FinishAnswer ==
  ASSUME Inv, AnswerInv, outcome # "none", UNCHANGED ghosts, NEW interrupted \in BOOLEAN,
         BeginFinish \/ FinishTurn(outcome, interrupted)
  PROVE  AnswerInv'
<1>1. UNCHANGED <<owns, late, answered>> /\ PlaceTypes
  BY Zenon DEF BeginFinish, FinishTurn, ghosts, Inv, ScreenInv
<1>2. CASE BeginFinish
  <2>1. /\ at'["handler"] = at["handler"] /\ at["finish"] = "idle" /\ at'["finish"] = "wait"
        /\ UNCHANGED <<visible, finals>>
    BY <1>1, <1>2 DEF BeginFinish, PlaceTypes, Publishers
  <2>2. late # TRUE => at["handler"] = "idle"
    BY Zenon DEF Inv, AttemptInv
  <2>3. owns = TRUE /\ late = FALSE /\ answered = TRUE => Answered
    BY <2>2 DEF AnswerInv, Answering, Giving
  <2>4. Answered => Answered'
    BY <2>1 DEF Answered
  <2>5. Unanswered => Unanswered'
    BY <2>1 DEF Unanswered
  <2>6. QED BY <1>1, <2>3, <2>4, <2>5, Zenon DEF AnswerInv
<1>3. CASE FinishTurn(outcome, interrupted)
  <2>1. /\ at'["handler"] = at["handler"] /\ at["finish"] = "wait"
        /\ at'["finish"] \in {"done", "publish", "finalize"}
        /\ UNCHANGED <<visible, finals>>
    BY <1>1, <1>3, FinishCases
    DEF FinishTurn, FinishQuietly, FinishInterrupted, BeginPublish, BeginFinalize, PlaceTypes,
        Publishers
  <2>2. visible = "final" => at'["finish"] = "done"
    <3>1. visible = "final" => FinishQuietly
      BY <1>3 DEF FinishTurn, TellsFailure
    <3>2. FinishQuietly => at'["finish"] = "done"
      BY <1>1 DEF FinishQuietly, PlaceTypes, Publishers
    <3>3. QED BY <3>1, <3>2
  <2>3. QED BY <1>1, <2>1, <2>2, Zenon DEF AnswerInv, Unanswered, Answering, Answered
<1>4. QED BY <1>2, <1>3

LEMMA PublisherAnswer ==
  ASSUME Inv, AnswerInv, UNCHANGED <<late, answered, owns>>, owns = TRUE, late = FALSE,
         NEW p \in Publishers, Consume(p) \/ Announce(p) \/ Delivered(p) \/ Finalized(p)
  PROVE  AnswerInv'
<1>1. PlaceTypes /\ CanDeliver /\ answered \in BOOLEAN
  BY Zenon DEF Inv, ScreenInv, AccountTypes, CanDeliver
<1>2. CASE p = "handler"
  <2>1. /\ at'["finish"] = at["finish"]
        /\ \/ /\ at["handler"] = "publish" /\ at'["handler"] = "announce"
              /\ UNCHANGED <<visible, finals>>
           \/ /\ at["handler"] = "announce" /\ at'["handler"] = "deliver"
              /\ visible' = "final" /\ finals' = finals
           \/ /\ at["handler"] = "deliver" /\ at'["handler"] = "idle"
              /\ visible' = visible /\ finals' = Append(finals, "answer")
           \/ /\ at["handler"] = "finalize" /\ at'["handler"] = "idle"
              /\ UNCHANGED <<visible, finals>>
    BY <1>1, <1>2
    DEF Consume, Announce, Delivered, Finalized, Leave, Left, PlaceTypes, Publishers, Giving
  <2>2. finals = <<>> => Append(finals, "answer") = <<"answer">>
    OBVIOUS
  <2>3. CASE answered = TRUE
    <3>1. Answering
      BY <2>1, <2>3 DEF AnswerInv, Answered
    <3>2. Answering' \/ Answered'
      BY <2>1, <2>2, <3>1 DEF Answering, Answered, Giving
    <3>3. QED BY <2>3, <3>2, Zenon DEF AnswerInv
  <2>4. CASE answered = FALSE
    <3>1. Unanswered
      BY <2>4 DEF AnswerInv
    <3>2. Unanswered'
      BY <2>1, <3>1 DEF Unanswered, Giving
    <3>3. QED BY <2>4, <3>2, Zenon DEF AnswerInv
  <2>5. QED BY <1>1, <2>3, <2>4
<1>3. CASE p = "finish"
  <2>1. /\ at'["handler"] = at["handler"] /\ at["finish"] \in Giving \cup {"finalize"}
        /\ at'["finish"] \notin {"idle", "wait"}
    BY <1>1, <1>3
    DEF Consume, Announce, Delivered, Finalized, Leave, Left, PlaceTypes, Publishers, Giving
  <2>2. answered # TRUE
    BY <2>1 DEF AnswerInv, Answering, Answered, Giving
  <2>3. answered = FALSE
    BY <1>1, <2>2
  <2>4. Unanswered'
    BY <2>1, <2>3 DEF AnswerInv, Unanswered
  <2>5. QED BY <2>3, <2>4, Zenon DEF AnswerInv
<1>4. QED BY <1>2, <1>3 DEF Publishers

LEMMA ControllerAnswer ==
  ASSUME Inv, AnswerInv, UNCHANGED ghosts, ControllerStep \/ Tick \/ LoseOwnership
  PROVE  AnswerInv'
<1>1. UNCHANGED <<late, answered>> /\ PlaceTypes /\ answered \in BOOLEAN
  BY Zenon DEF ghosts, Inv, ScreenInv, AccountTypes
<1> SUFFICES ASSUME owns' = TRUE, late' = FALSE PROVE AnswerInv'
  BY Zenon DEF AnswerInv
<1>2. ~ LoseOwnership
  BY DEF LoseOwnership
<1>3. owns = TRUE /\ owns' = owns
  BY <1>2, Zenon
  DEF ControllerStep, Tick, Tracked, NotTracked, PlainSent, PlainFails, EditEnds, Consume, Announce,
      Delivered, Finalized
<1>4. CASE Tick \/ \E ok \in BOOLEAN : EditEnds(ok)
  BY <1>1, <1>3, <1>4, AnswerStays, Zenon DEF Tick, EditEnds
<1>5. CASE Tracked \/ NotTracked \/ PlainSent \/ PlainFails
  <2>1. /\ at["handler"] \in {"track", "plain"}
        /\ at'["handler"] \in {"plain", "idle"} /\ visible' \in {visible, "progress"}
        /\ finals' = finals /\ at'["finish"] \in {at["finish"], "threw"}
    BY <1>1, <1>5
    DEF Tracked, NotTracked, PlainSent, PlainFails, HandlerAt, PlaceTypes, Publishers
  <2>2. answered # TRUE
    BY <1>1, <1>3, <2>1 DEF AnswerInv, Answering, Answered, Giving
  <2>3. answered = FALSE
    BY <1>1, <2>2
  <2>4. Unanswered
    BY <1>1, <1>3, <2>3, Zenon DEF AnswerInv
  <2>5. Unanswered'
    BY <2>1, <2>4 DEF Unanswered, Giving
  <2>6. QED BY <1>1, <2>3, <2>5, Zenon DEF AnswerInv
<1>6. CASE \E p \in Publishers : Consume(p) \/ Announce(p) \/ Delivered(p) \/ Finalized(p)
  BY <1>1, <1>3, <1>6, PublisherAnswer
<1>7. QED BY <1>2, <1>4, <1>5, <1>6, Zenon DEF ControllerStep

LEMMA InitAnswer == Init => AnswerInv
<1> SUFFICES ASSUME Init PROVE AnswerInv
  OBVIOUS
<1>1. at["handler"] = "idle" /\ visible = "silent" /\ finals = <<>> /\ answered = FALSE
  BY DEF Init, ControllerInit, Publishers
<1>2. QED BY <1>1 DEF AnswerInv, Unanswered, Giving

LEMMA AnswerStep == ASSUME Inv, AnswerInv, [Next]_vars PROVE AnswerInv'
<1>1. ASSUME NEW o \in Outputs, Handles(o) PROVE AnswerInv'
  BY <1>1, HandleAnswer, Zenon DEF AnswerInv
<1>2. ASSUME outcome # "none", UNCHANGED ghosts,
             BeginFinish \/ \E interrupted \in BOOLEAN : FinishTurn(outcome, interrupted)
      PROVE  AnswerInv'
  BY <1>2, FinishAnswer
<1>3. ASSUME UNCHANGED ghosts, ControllerStep \/ Tick \/ LoseOwnership PROVE AnswerInv'
  BY <1>3, ControllerAnswer
<1>4. ASSUME UNCHANGED <<turnVars, answered>>, late' \in {late, TRUE} PROVE AnswerInv'
  BY <1>4, AnswerStays, Zenon DEF AnswerInv, turnVars
<1>5. QED BY <1>1, <1>2, <1>3, <1>4, RoomSteps, Zenon DEF RoomStep

\* The answer of the agent that reached the turn in time is the one final the
\* room is given, unless another run has taken the turn over: no failure, no
\* retry, no replayed progress and no second answer comes before or after it.
THEOREM AnswerCorrect == Spec => []AnswerReachesRoom
<1>1. Inv /\ AnswerInv => AnswerReachesRoom
  <2> SUFFICES ASSUME Inv, AnswerInv, Over, answered, owns, ~late PROVE finals = <<"answer">>
    BY DEF AnswerReachesRoom
  <2>1. answered = TRUE /\ owns = TRUE /\ late = FALSE
    BY DEF Inv, AccountTypes, ScreenInv, FlagTypes
  <2>2. QED BY <2>1 DEF AnswerInv, Answering, Answered, Over
<1>2. Inv /\ AnswerInv /\ [Next]_vars => AnswerInv'
  BY AnswerStep
<1>3. QED BY <1>1, <1>2, InitAnswer, InvariantHolds, PTL DEF Spec

-----------------------------------------------------------------------------
(* The failure.                                                            *)

\* In a room without reviewer the phase is final only if a final was given or
\* is just being given, and finish() takes progress back only after a success.
ShownIsGiven ==
  paired = FALSE /\ visible = "final" =>
    finals # <<>> \/ at["handler"] = "deliver" \/ at["finish"] = "deliver"
Told ==
  paired = FALSE /\ outcome = "error" /\ at["finish"] = "done" =>
    finals # <<>> \/ at["handler"] = "deliver"
FailureInv ==
  ShownIsGiven /\ Told /\ (at["finish"] = "finalize" => outcome = "success")

LEMMA FailureStays ==
  ASSUME FailureInv, UNCHANGED <<paired, at, visible, finals>>,
         outcome' = outcome \/ at["finish"] = "idle"
  PROVE  FailureInv'
BY Zenon DEF FailureInv, ShownIsGiven, Told

LEMMA HandleFailure ==
  ASSUME Inv, FailureInv, UNCHANGED outcome, NEW o \in Outputs, Handles(o) PROVE FailureInv'
<1>1. /\ at["handler"] = "idle" /\ at'["finish"] = at["finish"] /\ paired' = paired
      /\ HandleOutput(Shape(o)) /\ Shape(o) \in Shown \cup FinalOutputs
  BY HandleFlow, ShapeOutput DEF Handles, HandleOutput, Inv
<1>2. visible' = visible /\ finals' = finals
  BY <1>1 DEF HandleOutput, NothingShown, HandleText, HandleTool, SendProgress, BeginPublish,
              BeginFinalize, Shown, FinalOutputs
<1>3. QED BY <1>1, <1>2, Zenon DEF FailureInv, ShownIsGiven, Told

LEMMA FinishFailure ==
  ASSUME Inv, FailureInv, UNCHANGED outcome, NEW interrupted \in BOOLEAN,
         BeginFinish \/ FinishTurn(outcome, interrupted)
  PROVE  FailureInv'
<1>1. /\ PlaceTypes /\ FlagTypes /\ paired' = paired /\ at'["handler"] = at["handler"]
      /\ visible' = visible /\ finals' = finals /\ at["finish"] \in {"idle", "wait"}
  <2>1. visible' = visible /\ finals' = finals /\ paired' = paired
    BY FinishCases
    DEF BeginFinish, FinishTurn, FinishQuietly, FinishInterrupted, BeginPublish, BeginFinalize
  <2>2. at["finish"] \in {"idle", "wait"}
    BY DEF BeginFinish, FinishTurn
  <2>3. QED BY <2>1, <2>2, FinishFlow DEF Inv, ScreenInv
<1>2. ShownIsGiven'
  BY <1>1 DEF FailureInv, ShownIsGiven
<1>3. CASE BeginFinish
  <2>1. at'["finish"] = "wait"
    BY <1>1, <1>3 DEF BeginFinish, PlaceTypes, Publishers
  <2>2. QED BY <1>2, <2>1 DEF FailureInv, Told
<1>4. CASE FinishTurn(outcome, interrupted)
  <2>1. at'["finish"] = "finalize" => outcome = "success"
    BY <1>1, <1>4, FinishCases
    DEF FinishQuietly, FinishInterrupted, BeginPublish, BeginFinalize, PlaceTypes, Publishers
  <2>2. ASSUME paired = FALSE, outcome = "error", visible # "final"
        PROVE  at'["finish"] # "done"
    <3>1. hadError' = TRUE /\ TellsFailure
      BY <1>4, <2>2 DEF FinishTurn, TellsFailure
    <3>2. BeginPublish("finish", "failure")
      BY <1>4, <2>2, <3>1, Zenon DEF FinishTurn
    <3>3. QED BY <1>1, <3>2 DEF BeginPublish, PlaceTypes, Publishers
  <2>3. Told'
    BY <1>1, <2>2 DEF FailureInv, ShownIsGiven, Told
  <2>4. QED BY <1>2, <2>1, <2>3 DEF FailureInv
<1>5. QED BY <1>3, <1>4

LEMMA PublisherFailure ==
  ASSUME Inv, FailureInv, UNCHANGED outcome, NEW p \in Publishers,
         Consume(p) \/ Announce(p) \/ Delivered(p) \/ Finalized(p)
  PROVE  FailureInv'
<1>1. /\ PlaceTypes /\ paired' = paired /\ finals \in Seq({"answer", "replay", "failure"})
      /\ paired = FALSE => CanDeliver
  BY Zenon DEF Inv, ScreenInv, FlagTypes, CanDeliver, Consume, Announce, Delivered, Finalized
<1>2. \A q \in Publishers \ {p} : at'[q] = at[q]
  BY <1>1 DEF Consume, Announce, Delivered, Finalized, Leave, PlaceTypes
<1>3. CASE Consume(p)
  <2>1. visible' = visible /\ finals' = finals /\ at[p] = "publish" /\ at'[p] = "announce"
    BY <1>1, <1>3 DEF Consume, PlaceTypes
  <2>2. QED
    BY <1>1, <1>2, <2>1 DEF FailureInv, ShownIsGiven, Told, Publishers
<1>4. CASE Announce(p)
  <2>1. at[p] = "announce" /\ finals' = finals
    BY <1>4 DEF Announce
  <2>2. paired = FALSE => at'[p] = "deliver"
    BY <1>1, <1>4 DEF Announce, PlaceTypes
  <2>3. at'[p] # "finalize"
    BY <1>1, <1>4 DEF Announce, Leave, Left, PlaceTypes
  <2>4. QED
    BY <1>1, <1>2, <2>1, <2>2, <2>3 DEF FailureInv, ShownIsGiven, Told, Publishers
<1>5. CASE Delivered(p)
  <2>1. finals' # <<>> /\ at'[p] # "finalize"
    BY <1>1, <1>5 DEF Delivered, Leave, Left, PlaceTypes
  <2>2. QED
    BY <1>1, <1>2, <2>1 DEF FailureInv, ShownIsGiven, Told, Publishers
<1>6. CASE Finalized(p)
  <2>1. visible' = visible /\ finals' = finals /\ at[p] = "finalize" /\ at'[p] = Left(p)
    BY <1>1, <1>6 DEF Finalized, Leave, PlaceTypes
  <2>2. QED
    BY <1>1, <1>2, <2>1 DEF FailureInv, ShownIsGiven, Told, Publishers, Left
<1>7. QED BY <1>3, <1>4, <1>5, <1>6

LEMMA ControllerFailure ==
  ASSUME Inv, FailureInv, UNCHANGED outcome, ControllerStep \/ Tick \/ LoseOwnership
  PROVE  FailureInv'
<1>1. PlaceTypes /\ FlagTypes
  BY DEF Inv, ScreenInv
<1>2. CASE Tick \/ (\E ok \in BOOLEAN : EditEnds(ok))
  BY <1>2, FailureStays, Zenon DEF Tick, EditEnds
<1>3. CASE LoseOwnership
  BY <1>3, FailureStays, Zenon DEF LoseOwnership
<1>4. CASE Tracked \/ NotTracked \/ PlainSent \/ PlainFails
  <2>1. /\ at["handler"] \in {"track", "plain"} /\ paired' = paired
        /\ at'["handler"] # "deliver" /\ visible' \in {visible, "progress"}
        /\ finals' = finals
        /\ at'["finish"] = at["finish"] \/ (at["finish"] = "wait" /\ at'["finish"] = "threw")
    BY <1>1, <1>4
    DEF Tracked, NotTracked, PlainSent, PlainFails, HandlerAt, PlaceTypes, Publishers
  <2>2. QED BY <2>1 DEF FailureInv, ShownIsGiven, Told
<1>5. CASE \E p \in Publishers : Consume(p) \/ Announce(p) \/ Delivered(p) \/ Finalized(p)
  BY <1>5, PublisherFailure
<1>6. QED BY <1>2, <1>3, <1>4, <1>5, Zenon DEF ControllerStep

LEMMA InitFailure == Init => FailureInv
BY DEF Init, ControllerInit, Publishers, FailureInv, ShownIsGiven, Told

LEMMA FailureStep == ASSUME Inv, FailureInv, [Next]_vars PROVE FailureInv'
<1>1. ASSUME NEW o \in Outputs, UNCHANGED outcome, Handles(o) PROVE FailureInv'
  BY <1>1, HandleFailure
<1>2. ASSUME UNCHANGED outcome,
             BeginFinish \/ \E interrupted \in BOOLEAN : FinishTurn(outcome, interrupted)
      PROVE  FailureInv'
  BY <1>2, FinishFailure
<1>3. ASSUME UNCHANGED outcome, ControllerStep \/ Tick \/ LoseOwnership PROVE FailureInv'
  BY <1>3, ControllerFailure
<1>4. ASSUME UNCHANGED turnVars, outcome' = outcome \/ at["finish"] = "idle" PROVE FailureInv'
  BY <1>4, FailureStays, Zenon DEF turnVars
<1>5. QED BY <1>1, <1>2, <1>3, <1>4, RoomSteps, Zenon DEF RoomStep

\* A turn that failed in a room without reviewer ends with a final text, given
\* or just being given, whenever its outputs were read.
THEOREM FailureCorrect == Spec => []FailureIsTold
<1>1. Inv /\ FailureInv => FailureIsTold
  <2> SUFFICES ASSUME Inv, FailureInv, at["finish"] = "done", outcome = "error", ~paired
               PROVE  finals # <<>> \/ at["handler"] = "deliver"
    BY DEF FailureIsTold
  <2>1. paired = FALSE
    BY DEF Inv, ScreenInv, FlagTypes
  <2>2. QED BY <2>1 DEF FailureInv, Told
<1>2. Inv /\ FailureInv /\ [Next]_vars => FailureInv'
  BY FailureStep
<1>3. QED BY <1>1, <1>2, InitFailure, InvariantHolds, PTL DEF Spec
===============================================================================
