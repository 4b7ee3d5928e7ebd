# Formal verification of the Social-Media-Service

TLA+ models of the service's own logic, TLC runs that check them on small
instances and against abstract specifications, and TLAPS proofs of the safety
properties of every module for all values of their constants: any number of
users, rows, requests and failures.  The models are written from
`src/src/modules`; tests and comments are used only where a run compares them
with what the code does.

## 1. The system

A NestJS process answers HTTP and Socket.IO requests over one PostgreSQL database
(TypeORM, READ COMMITTED).  Every handler is an `async` function: it is suspended
at each `await` and other handlers run in between.  Components talk to each other
by direct calls and by an in-process event emitter whose `@OnEvent(..., {async:
true})` handlers run after `emit`, log their own errors and are never retried.

| component | state it keeps | operations | talks to |
|---|---|---|---|
| Follow graph (`follow`, `auth` base users) | `follows` rows; `followersCount`, `followingCount` columns | follow, unfollow, account deletion, saves of a base user | emits `follow.followed`, `follow.unfollowed` |
| Feed (`feed`) | `feed_items` rows | fan-out of a post, backfill of a follow, cleanup after unfollow and after deletion or restriction, nightly expiry, `getFeed` | listens to post and follow events |
| Posts (`posts`) | `posts` rows with two counters, soft deletion | create, update (saves the whole entity), delete | emits `post.created/updated/deleted` |
| Interactions (`interactions`) | `likes`, `comments` rows, the counters of the post | react, unreact, add, update and delete a comment | emits `post.reacted/unreacted`, `comment.created/deleted` |
| Chat (`chat`) | `conversations`, `chat_messages` rows | send, mark as seen, list, paged reads | pushes through the gateway |
| Realtime (`realtime`, `TypingService`) | sockets by user room; typing entries with a timer, in memory | connect, disconnect, `chat:send`, `chat:typing`, `chat:seen`, auto-stop | calls chat |
| Sessions (`auth`) | `refresh_tokens`, `reset_tokens` rows, the password | login, refresh, logout, forgotten and reset password | emits to the mailer |
| Broker (`messaging`) | connection, channel, timer, buffer, in memory | connect, reconnect, publish, flush; 16 bridge handlers | listens to every domain event |
| Notifications (`notifications`) | `notifications` rows | create and push, mark read | listens to follow, like, comment events |
| Accounts (`auth`, `user`, `brand`) | `base_users` rows with `isEmailVerified`, `isProfileComplete`, `postsCount`; profile rows | register, verify; complete, update, image, delete a profile; the post listener | emits profile events, listens to post events |
| Lists (all repositories) | the cursor or offset of a client | paged reads | |
| Search, media upload, mail, guards, configuration | none of their own | reads, external calls | |

What is hard here: checks and effects in different steps (a row is looked up, then
changed by a later statement); counters denormalised away from the rows they count;
whole-entity saves that write back columns read long before; cascades that no
counter and no event follows; handlers of events that overtake one another, fail,
or die with the process; pushes to sockets that may be gone; timers racing events.
What makes each component correct:

* Follow graph: no edge is a loop or dangles; counters equal the rows; events equal
  the rows, also where a transaction stops between its statements.
* Feed: an item is there iff its owner follows the author and the post is there and public,
  as soon as the handlers are done; a public post eventually arrives.
* Interactions: counters equal the likes and shown comments; events equal the rows.
* Chat: a status never moves back; pushes never run ahead of the database; a sender
  learns that a message was seen; a conversation is dated by its newest message.
* Typing: an indicator that is on goes off when its user falls silent.
* Sessions: one valid refresh token; none after a logout; a used reset code is gone.
* Accounts: an account is complete iff it has a profile; the last event tells what the
  profile is; the count equals the posts; a deleted account does not come back.
* Notifications and lists: a client that connects and then loads has seen every row; a
  page repeats and leaves out only what its cursor or offset cannot tell.
* Broker: every bridged event is published, once and in order, as far as a lost confirm
  allows; a lost connection is dialled again.

Every hazard of the code and the properties that guard it are in `PROJECT.json`.

## 2. Conventions of the modules

* A request (or a chain of awaits) is a process with a `pc`; one action is the code
  between two awaits together with the query it awaits.  The value a handler holds
  in memory across an await is in its `job` (or `tasks` slot), so stale reads are
  modelled as such.
* The transactions of `follow` and `unfollow` in `SocialGraph` run one statement a step: what a
  statement wrote stays in the transaction's `job` until the commit, for READ COMMITTED shows it to
  nobody, and a statement of another request that would write the same row waits.  `TxAborted` may
  end it between any two statements.  The other transactions commit in one step: they are a
  counter and a row, or a cascade, under the same locks, and a deadlock victim or lost
  connection is again `TxAborted`.
* TypeORM's `save(entity)` is what it does: SELECT the row by id (soft-deleted ones
  too), then UPDATE the columns that differ from the copy in memory, or INSERT the
  copy when the row is gone (`SaveReload`, `SaveUpdate`, `SaveInsert`).
* Ids, texts and dates are model values or ranks.  Roles, guards that only verify a
  token, DTO validation, logging and response bodies are left out.
* *History variables* (`skewed`, `blind`, `lost`, `late`, `missed`, `crossed`,
  `disturbed`, `raced`, `ended`, `queued`, `refused`, `doubted`, `forgotten`, `mishaps`,
  `through`, `entered`, `departed`, `blurred`) are read by no action.  Each records that one named
  race which the code leaves open has struck a particular account, pair, item or
  message (`entered` counts how often).  The properties hold everywhere else; so they say two things: the
  listed races are the only ones, and they spoil nothing but what they touch.

## 3. Modules

### SocialGraph — `follow.service.ts`, `base-user.repository.ts`, account deletion
`accounts`, `profiles` and `follows` are tables, `followersCount`/`followingCount`
columns of `base_users`, `published` the events by pair.  `Follow`, `FollowInsert` or
`FollowConflict`, `IncrementTarget`, `IncrementActor`, `FollowCommit`, `EmitFollowed` are the steps of
`follow`; `Unfollow`, `UnfollowDelete`, the same two increments, `UnfollowCommit`, `EmitUnfollowed` those of
`unfollow`.  `HoldsRow` and `HoldsAccount` say what an open transaction has locked, and `RowTaken`,
`Locked`, `InUse` who waits for it: an INSERT or DELETE of the same pair, an UPDATE of the same account, the
DELETE of an account that an open transaction updates or refers to.  `TxAborted` is an error of
any statement, a deadlock victim (two users who follow each other lock their accounts in opposite orders)
or a lost connection.  `DeleteAccount`,
`DeleteCommit` are `UserService.deleteAccount` and `BrandService.deleteProfile` with
the cascades of migration 007; `SaveRead` to `SaveInsert` are
`BaseUsersRepository.update`.  The initial state is any graph with right counters, and the accounts
in `Completed` have a profile.

### Feed — `feed.service.ts`, `feed.repository.ts`, the listener and the nightly job
A slot of `tasks` is a request and, once it emits, the handler of its event: `emit`
calls the handler before the request returns.  Reads (`FanOutRead`,
`BackfillRead`) and inserts (`InsertChunk`, one statement of `bulkInsert` each)
are different steps.  `BACKFILL_LIMIT` and `CHUNK_SIZE` are constants.  The INSERT
of a chunk fails as a whole when an owner or the post is gone, and takes the rest of the
batch with it.  `createdAt` is dated before the commit, so posts may commit out of
order.  `HandlerDies` is a failed query, or the process stopping, in any handler.  An item is `Due` while
the listener would leave it in the feed: its owner follows the author, the post is there and is public.
`fanOutPost` and `backfillForFollow` do not read the visibility, and the model's do not either.

### Interactions — `interactions.service.ts`, `PostsService.updatePost/deletePost`
One post; a like is named by its user (unique constraint of migration 010).
`UpdatePost`, `PostReload`, `PostSave` write the whole post back; `CommentReload`,
`CommentSave` the whole comment, `deletedAt` included.  `DeleteAccount` is the
cascade as one step at any moment.

### Chat — `chat.service.ts`, `message.repository.ts`, `conversation.repository.ts`
One conversation with two participants.  Statuses are ranked SENT < DELIVERED < SEEN.
Each await of `sendMessage` (`SendMessage`, `Insert`, `IsOnline`, `Deliver`, `Refetch`,
`Touch`, `PushMessage`) and of `markConversationAsSeen` (`MarkAsSeen`, `FindUnseen`,
`MarkSeen`, `PushSeen`) is an action, `CallFails` an error at any of them.
`display` is what the sender's sockets were told.

`MessageStatus` is what this promises, with none of the requests: a message is stored,
delivered, seen by the other participant, each in one step and never back; its sender is told
only what was reached; a conversation that is gone takes all of it along.  `Chat` implements it
(`ImplementsMessageStatus`) with `open` for the conversation's row and `told` for what the
sender knows of the messages that are still stored.

### Typing — `typing.service.ts` and the gateway handlers around it
The entry of one user and conversation, with its age and its timer in half seconds
(`DEBOUNCE_MS` 4, `AUTO_STOP_MS` 6 ticks), the lookups of the recipient that are in
flight, which may answer in any order, whether the other participant has a socket, and the indicator that
participant sees.  `sendToUser` does nothing for a user without a socket (`Answer`), and nobody repeats a stop.

### Sessions — `auth.service.ts`, `RT.guard.ts`, the token services and repositories
The refresh tokens and reset codes of one account.  A token's hash is a function of
the handler that signs it and of the second of its `iat`, for the JWT has no id.
`Refresh` is the guard, whose `findOne` returns any of the rows with the hash.

### Messaging — `messaging.service.ts`, `event-bridge.service.ts`
`RoutingKey` is the bridge: one entry per handler; an event without one (`comment.deleted`,
`auth.user.registered`) is not published.  `pc` is the await `connect` is suspended at, so
`isConnecting` is `pc # "idle"`; `DialOk`, `ChannelOk`, `AssertOk` are its steps, and the
flush that `AssertOk` starts goes on with each `Ack` or `Nack`.  `channel` is set before the
exchange is asserted, as in the code.  `wire`, `confirms`, `published` stand for the channel and
the broker.  A close may strike anywhere (`Reconnect`).  What it does to the callbacks of
unconfirmed messages is the library's choice, and both are modelled: `CloseFails` calls them with an
error, `CloseSilent` never calls them, and a `connect` that was flushing then never returns (`pc =
"hung"`).  A refused message goes back to the buffer and stays there until
the next reconnect, although the log says "retrying" (`messaging.service.ts:141`).

`Outbox` is what this promises, with no channel, buffer or timer: a message that was accepted is
outstanding until it is delivered; it is delivered again only after it was doubted; or it is given up.
`Messaging` implements it (`ImplementsOutbox`): outstanding is what is on the wire, in the buffer,
behind the awaited message of a flush, or refused with the answer on its way.  A close is the
only step that doubts (`CloseFails`) or gives up (`CloseSilent`).

### Accounts — `auth.service.ts`, `user.service.ts`, `brand.service.ts`, `post-event.listener.ts`
`base` and `profile` are the rows of accounts in `base_users` and in `user_profiles` or
`brand_profiles` by role; the two services are one model where their code is alike, and differ where it
differs (`EmitUpdated`, `EmitDeleted`).  `Register`, `RegisterInsert` are `register`; `VerifyEmail`,
`ResetPassword` and the last step of `completeProfile` end in `BaseFind`, `BaseReload`, `BaseWrite`, the
save of a base user; `CompleteInsert`, `CompleteFind` are `completeProfile`; `UpdateFind`,
`UpdateCheck`, `ImageFind`, `ProfileReload`, `ProfileWrite`, `EmitUpdated` the two updates;
`DeleteFind`, `DeleteCommit`, `EmitDeleted` the deletion; `PostInsert`, `PostRemove` and the listener's
`CountPost` the posts.  `announced` is the profile another service holds that follows the events by
account id.  `image` stands for every column of a profile but the username.

### Lists — the repositories' paged reads, `notification.service.ts`
One client and one list, of any of four kinds: the messages of a conversation, by a cursor; notifications,
by an offset; lists by an offset whose rows may be deleted; conversations, whose rows also move: `updateLastMessageAt` writes the date of its own message over whatever date is
there, so sends that overlap move a row to the middle of the list, or down (`Move`).  Messages
and notifications are also pushed to a connected client by the handler that stored them (`Commit`, `Push`).
A cursor is the last row's date cut to the millisecond and its id, as `toISOString` cuts it; the column
holds microseconds.  Rows with one key have no order in the offset lists, so `FindByOffset` may order them
differently for each page.  The client is external: it connects before it loads and asks on until a page
is short or has no cursor.

### MC modules
`MCSocialGraph`, `MCFeed`, `MCInteractions`, `MCChat`, `MCSessions`, `MCMessaging`, `MCAccounts`,
`MCLists` give the constants that a `.cfg` cannot (functions, symmetry sets).  Operators commented `Bug:` are not
part of any specification: each is a plausible mistake in the operator below it, with
which TLC refutes one of the properties.

## 4. Runs

| run | bounds | shows |
|---|---|---|
| `SocialGraph_safety` | 3 users, 3 requests | `GraphWellFormed`, `CountersExact`, `EventsMatchGraph` |
| `Feed_posts` | author and 1 follower, 2 posts, 2 slots, limit 1, chunk 1 | `FeedComplete`, `FeedSound` |
| `Feed_liveness` | the same with 1 post, both audiences, fairness | `PostsReachFollowers` for public posts, `FeedSound` for posts that are restricted and made public again |
| `Interactions_safety` | owner and guest, 2 comments, 4 requests | `CountersExact`, `EventsMatchRows` |
| `Chat_safety` | 2 messages, 3 calls, failing queries | `ImplementsMessageStatus`, `PushesNeverAhead`, `SenderToldOfSeen`, `LastMessageIsNewest` |
| `Typing_fair` | the code's own times, 3 lookups in flight | `AutoStopNotLate`, `IndicatorCovered`, `IndicatorGoesOff` |
| `Sessions_safety` | 4 requests, 2 passwords, 2 seconds, failing queries | `SingleSession`, `LogoutEndsSessions`, `CodeConsumed` |
| `Messaging_fair` | 4 events, one unbridged, 2 closes, fairness | `ImplementsOutbox`, `NeverStranded`, `NothingVanishes`, `OrderKept`, `BufferedIsPublished` |
| `Accounts_safety` | 2 accounts, 2 usernames, 1 post, 3 requests, failing queries | `CompleteMatchesProfile`, `AnnouncedMatchesProfile`, `PostsCountExact`, `DeletedStaysDeleted` |
| `Lists_safety` | 3 rows, pages of 1, 4 ticks of half a millisecond, at most 2 entries ahead | `ListedOnce`, `NothingMissed` |
| `SocialGraph_negative` | 2 users, 2 requests | a counter falls below 0 (violation) |
| `Sessions_guard` | 3 requests, 1 second | a valid refresh token is denied (violation) |

Each passing run but `Feed_posts` also checks the types of its module (`TypeOK`; `TypingTypeOK` in `Typing`, whose definitions bear
its name because `ClientProofs` extends `Lists` with it).

Why the bounds are enough.  Every race found or excluded here is between two
requests on one pair, post, message or token, sometimes with a third that deletes or
saves the row: three requests on three users include a bystander, so that effects on
the wrong account show.  Every account of `SocialGraph_safety` starts with a profile: one without can
only be denied its deletion, as an account that was deleted and saved back is.  A limit and a chunk of 1 put every batch of two on the other
side of the bound; two slots allow each pair of handlers to cross, and slots are
reused without limit.  Four requests in `Interactions_safety` and `Sessions_safety`
allow two to race and two more to set the stage and observe.  The typing model is
bounded only in the lookups in flight.  Three bridged events are two that can overtake each
other and one in the buffer behind them; a second close meets what the first has put back.
Two accounts compete for a name, and the third request of `Accounts_safety` deletes or saves
between the steps of two others.  In `Lists_safety` one row is the end of a page, one comes, goes or moves
ahead of it and one is left to be skipped or repeated; two ticks fall into each millisecond.  The rows
there at the start are a millisecond old, which leaves two ticks and a last one: dates above, at and below one another.  A row could move up and
down for ever: no move follows `MaxEntered` entries ahead of the reader, and with two, an offset of 1 is overtaken
twice.  Requests are served once, so those systems
stop: `CHECK_DEADLOCK FALSE`.

Fairness.  `Feed_liveness`: weak fairness of each slot's continuation: Postgres answers a
query or the query fails, and Node runs the continuation.  Failing is *not* forbidden: a
handler may die at any step, and the property then excuses the items it served.
`Typing_fair`: weak fairness of time, of a due timer and of the answers to lookups.
`Messaging_fair`: weak fairness of timers, of an open connection's answers and of the broker;
strong fairness of `DialOk`, for a broker that is down may be dialled any number of times but comes
back.  Nothing is assumed of users, sockets or failures.

### What the violations say
1. Two concurrent `unfollow`s both find the row and both decrement: the transaction does
   not look at how many rows its DELETE removed (`follow.service.ts:108`; the same shape is in
   `unreact` and `deleteComment`).
2. Two logins in one second have the same refresh token; the second row is valid, the
   guard may find the first, revoked one (`refresh-token.repository.ts:20`).

The history variables name the remaining open races.  A fan-out or backfill that has read the graph
before an unfollow inserts after that unfollow's cleanup, and nothing removes the item later
(`feed.service.ts:96`); `updatePost` writes back `reactionsCount` and `commentsCount` as read
(`posts.repository.ts:141`); a save of a stale base user
restores old counters or re-creates a deleted account; a deleted account's neighbours keep
their counts; a save of a stale comment revives a soft-deleted one; items of a
deleted post inserted after its cleanup stay; a login and a refresh that cross leave
two valid tokens, and one that crosses a logout leaves one; overlapping sends may date a
conversation by the older message; a stop that overtakes another lookup, whose own lookup fails, or that
finds its recipient without a socket (`realtime.gateway.ts:186`, while the page reconnects) leaves a typing indicator on
until the next event; an event is published twice when its confirm is lost with the channel, and after a newer
one when it had to wait in the buffer.

Of restricted posts: `onPostUpdated` takes a post that becomes PRIVATE or FOLLOWERS out of every feed
(`feed-event.listener.ts:33-50`), but `fanOutPost` and `backfillForFollow` (`feed.service.ts:81-110`) read no
visibility.  A post created as PRIVATE is in the feeds of all followers, and one restricted later comes back
into the feed of whoever follows its author next.  Nothing in the repository says which of the two is
meant, so no run calls either a violation: `FeedComplete` and `PostsReachFollowers` ask
nothing of a restricted post, and `FeedSound` counts an item inserted for one as `late`.

Of accounts: a `completeProfile` that fails after its INSERT leaves an account with a profile that is
never marked complete, and every retry ends in 409; `updateProfileImage` saves the whole profile it has read, so it
may restore an old username; two updates may be announced in the other order than they were
written; a brand's deletion is announced under the id of its profile, not of its account
(`brand.service.ts:158`); two deletions of one post, both past their check, decrement `postsCount` twice,
and a listener that fails is not retried.

Of lists: rows that come after the last one of a page but share its millisecond are skipped by the next
page, because the cursor is cut to a date at or below theirs; with an offset a row that comes in ahead makes the next page repeat one, a row
that leaves ahead makes it skip one, and rows of one date may do either.

## 5. Proofs

Every safety property that a run checks is a theorem of its module's specification, and so
are the action properties and the two refinements.  Each proof module has the same plan: an
inductive invariant in named parts (`IInv`; `Sound` in `SocialGraphProofs`; `ListIInv` and `TypingIInv` in `ClientProofs`; parts that only one theorem needs, as `EventsBalance` of the follow
graph or `ToldOrHeld` and `NewestOK` of the chat, are proved on top of it), `Init => IInv`, one lemma per
action (or per group of actions that touch the same part) for `IInv /\ [Next]_vars => IInv'`, and
theorems that follow from `Spec => []IInv`.  TLC finds no violation of any of these invariants on the bounds of
its module's run.  The constants
have the assumptions each module names; they say that the sets counted over are finite
(`IsFiniteSet`), that ids of different kinds differ, and that limits and times are numbers in their
natural order.

* `SocialGraphProofs`.  The invariant is `Sound`: the types with what a request holds (`JobsOK`), `Held` and
  `GraphWellFormed`.  `Held` is what a transaction relies on between its statements: its locks are nobody else's
  (`Exclusive`); the row it inserted is not committed and both its accounts are there, or the row it deleted is
  committed still (`RowHeld`); each counter it wrote is the committed one moved by one (`FollowersHeld`,
  `FollowingHeld`).  It is needed because nothing else ties a commit to the state its statements read:
  `OthersKept` says that a step which touches no locked row leaves the others' transactions standing, and
  `StatementHeld` that a statement has to stand only by what it writes itself.  `CommitOwns` then gives each commit
  both counters, so that `CountersStayExact` follows by `EdgeAdded` and `EdgeRemoved` on the
  cardinalities of `Followers` and `Following`, inductive because a step that breaks an account's counter adds
  the account to `skewed`; an aborted transaction has shown nothing.  `GraphStaysWellFormed` and `Held` need each
  other: a DELETE locks a row of a well-formed graph, and a commit adds the row that `Held` describes.
  `EventsStayMatched`: the property speaks of quiet pairs only, and `EventsBalance` is inductive: the events
  published plus the `emitFollowed` minus the `emitUnfollowed` announcements still owed equal the presence of the
  row, for every pair that is not `blind`.
* `FeedProofs`.  `FeedStaysComplete` and `FeedStaysSound` for any number of handlers in flight and every
  `BACKFILL_LIMIT` and `CHUNK_SIZE`.  Both are restated over what each chain adds and cleans (`Adding`,
  `Cleaning`), as `Complete` and `Sound`.  They need three facts.  `Stamped`: a post is created by one chain,
  and has a date only from then on, so that `CommitCreate` is the only step that makes a post due, and
  brings its fan-out with it.  `Fits`: a follower that is backfilled is not the author, so that a backfill may leave
  out what is not among the newest (`NewestRead`, `NewestShrinks`, on cardinalities).  `Ordered`: what a
  cleanup deletes was ordered removed.  A follow makes posts due and starts the backfill
  that serves them; an unfollow, a deletion or a restriction makes items undue and starts their cleanup.
  Neither a fan-out nor a backfill reads the visibility, so `Complete` is proved of restricted posts too (`Owed`),
  and the property, of public ones, follows.
* `InteractionsProofs`.  `CountersStayExact`: needs `Fresh`, that nobody else knows the id of a comment being
  inserted, or a deletion could count a comment that is not there yet.  `EventsStayMatched` by
  `EventsBalance`, as in the follow graph, over likes and comments.
* `AccountsProofs`.  The invariant is a conjunction over accounts (`Sound(u)`), each part in terms of the
  row and of what every request holds of it.  `Saved`: a save in flight still holds the row as it is but
  for the flag it sets, unless the account is marked `stale`.  `Marked`, `ToBeMarked`: whoever has seen a profile
  still finds it, and someone will mark an account that has a profile and no mark; with them
  `MarksMatch` proves `CompleteMatchesProfile`.  `Told`: whoever will write or announce a profile holds the
  stored one, for `AnnouncementsMatch`.  `Counted`: `postsCount` plus the increments owed equals the posts plus
  the decrements owed, for `PostsCounted`.  `Known`, `Stored`, `Fresh` say who may know an account or a post
  before it exists.  `DeletedStay` is the action property `DeletedStaysDeleted`: of the four steps that write
  `base_users` only a save could bring a row back, and `Saved` says that it was `stale` then.
* `ChatProofs`.  `PushesStayBehind`: what a send holds of its message is not ahead of the row, no two sends have one
  message (`SendOK`, `SendsDiffer`), and a reader's batch is SEEN or gone once marked (`BatchOK`).
  `SendersAreTold` by `ToldOrHeld`: a seen message whose sender was not told is in the batch of a call that is
  about to tell.  `DatedByNewest` by `NewestOK`: while nothing overlaps there is one send at most, and it
  knows by how much `lastMessageAt` is behind.  `ChatImplements` is the refinement: under `IInv`
  each step maps to one step of `MessageStatus` or to none.
* `ClientProofs`, about what a connected client is shown: its lists and the typing indicator.
  * `RowsListedOnce`, for any rows, any page size and any precision of a cursor.  By a cursor (`CursorInv`): what was
    given is not below the cursor, and what is still to be given is below it unless it is blurred.  That a new
    cursor keeps this is a fact about cut dates: `CursorNotAbove` for what the page gave and what came before it,
    `CursorBelow` for the rest, where only a row of the last one's millisecond can fail.  The page itself is
    `First(Limit, First(Limit + 1, rows))`: `ItemsBeforeRest` and `ItemsAreAll` say that it comes before the rest,
    and is everything when the extra row is missing, from `FirstExists`, `LastExists` and counts.  By an
    offset a property of single rows is not inductive, for a page only says how many rows it skipped: `NotAgain` and
    `NotPast` count the rows ahead of a row that was given (fewer than the offset, unless rows came in ahead and it
    was not yet given once more for each of them) and ahead of every position that was not passed (no fewer, while
    none left from there).  So an offset repeats a row at most once for each row that came in ahead.  `PageParts`
    gives what a page is for any order of the rows of one key, `AheadOfPage` and `AheadOfSkipped` the counts.
    A row that moves up comes in ahead of the dates between, and is counted in `entered` if the reader has passed its
    new date; one that moves down leaves the dates between, and is counted in `departed` if the reader has passed its
    old one; both are no longer asked for (`through`).
  * `NothingIsMissed`: by `ShownOrPushed`, a row stored since the list was loaded waits for its push or had it, and the
    rows listed from the first page on are given by `RowsListedOnce`'s invariant, for no row of a pushed list leaves.
  * `TypingTypesCorrect`, `AutoStopIsInTime`, `IndicatorStaysCovered`: the three invariants of `Typing` are inductive
    together, for any `Debounce < AutoStop` and any `MaxLookups`; the lookups are a sequence, and its last entry decides
    whether an indicator is about to be on.
* `SessionsProofs`.  `OneSession` by `Sole`: unless `raced`, a handler that has revoked the other tokens is the only one
  that will store one.  `LogoutIsFinal` by `LoggedOut`: after a logout no handler is on its way to store a token.
  `CodesAreConsumed` by `Coded`: a code was sent by a request that has ended, so none inserts it again.
* `MessagingProofs`.  `ConnectionNeverStranded` by `ConnectOK`: channel and timer exclude each other, the channel is
  there exactly in the later steps of `connect`, and a batch is awaited only while flushing.
  `EventsNeverVanish`, `OrderIsKept`: the four places where a message waits (refusals and confirms on their way, the
  wire, the rest of a flush, the buffer) are sequences without duplicates and without a message in common
  (`Placed`), hold only events already raised (`Known`) and between them all that is not published or given
  up (`Kept`), and are ordered each within itself and against the next (`OrderOK`), except for messages
  that had to wait (`Buffered`).  `MessagingImplements` is the refinement of `Outbox`.

Only model-checked: the liveness properties `PostsReachFollowers`, `IndicatorGoesOff` and
`BufferedIsPublished`, for the prover has neither fairness nor ENABLED; and the two violations, which are
counterexamples.

## 6. What is not modelled

* The read marks of notifications: each is one UPDATE with its condition (`isRead = false`, and
  the recipient), so that neither races the other; `markAllAsRead` also marks notifications its
  caller has not been shown.  A notification is not taken back when its like or follow is.
* Profile getters and search; the columns of a profile beside the username one by one; `role` and
  `isActive` changes, which no controller calls.
* `MessagingService.disconnect` and the loss of the in-memory buffer when the process stops; an exchange
  of another type, whose assertion would close the channel alone.
* `getFeed`'s filling up of a page: it asks for public posts with the offset of the personal feed, and
  so leaves the first ones out on later pages.  Comments are listed oldest first, so rows come in behind the
  reader: that order is not in `Lists`.  Mail and media upload: external services.
* Expiry of tokens and codes: the modelled runs are shorter than any lifetime.
* `findOrCreate` of a conversation; a second process instance (the code keeps typing state
  and events per process).

## 7. Plan

All components with state of their own are modelled, and all their safety properties proved.  What is left,
most important first:

1. Bounds of the excuses: a history variable grows only in a step that loses the race it names, as an
   action property beside each invariant.
2. The transactions of `Interactions` and of the deletions statement by statement, as those of `SocialGraph` are.
