# A verification of auth-backend

TLA+ models of the core of this backend, TLC configurations that check them on
small instances, and TLAPS proofs for instances of every size. Paths below are
relative to the repository; `src/` is its application code.

## The system

A NestJS application in front of PostgreSQL (through Prisma), Redis and a BullMQ
queue, with REST controllers and socket.io gateways. Several replicas may run;
they share the database and Redis and nothing else. Inside a replica, Node.js
runs one callback at a time, so code between two `await`s is atomic and every
`await` is a point where other requests, of this replica or another, run.
Almost no handler uses a transaction around its reads *and* its writes. This is
where the hard behaviour of the system is: **a value read in one query decides a
write in a later one.**

| Component | State | Operations | Interacts with |
|---|---|---|---|
| Password sessions (`auth/auth.service.ts`, `auth/handlers`) | `User.password`, `User.tokenVersion`, `RefreshToken`, `EmailPasswordReset` | login, second-factor login, refresh, logout, revoke, change, forgot and reset password | e-mail by events; privacy settings on login |
| Two-factor enrolment (`auth/auth.service.ts`) | `totpSecret`, `backupCodes`, `isTwoFactorEnabled` | generate, enable, verify, new codes, disable | sessions |
| Registration, external login (`auth/handlers`, `auth/auth.service.ts`) | `User`, `RefreshToken`, `UserLogin` | register, `loginWithOAuth` | privacy settings, sessions, e-mail |
| OAuth provider (`auth/app.oauth.service.ts`) | `AuthorizationCode`, `OAuthToken`, `UserConsent`, `OAuthClient` | authorize, exchange, refresh, consent, revoke, rotate secret | users |
| Project files (`intelligence.service.ts` 2425-3323) | `AIProject`, `AIProjectFile`, `AIProjectFileVersion`, `AIProjectCollaborator` | create, edit, delete, revert, initialise files; delete project; collaborators | chat threads |
| Agent execution (`intelligence/agent`) | `Agent`, `AgentStep`, `AgentExecution`, `ApplicationUsage`, `Application.balance` | execute (owner or API key), edit steps, delete agent | model providers, applications |
| Agent credentials (`intelligence/agent`) | `AgentCredential`, `AgentVariable` | add, update, delete | agent execution |
| Calls (`messaging.service.ts` 986-1163) | `CallSession`, `CallParticipant` | initiate, join, leave | gateway by events |
| Messages and groups | `Message`, `MessageRead`, `MessageDeletion`, `Group*`, cached lists, socket rooms | send, read, delete, membership | cache, event bus, gateway |
| Request quota (`intelligence/usage`) | `UserSearchUsage`, `User.role` | check and increment, add, remove, remaining, upgrade | called by chat and search streams |
| Chat streams and threads | `AIThread`, `AIThreadMessage`, `UserMemory`, `UserInstruction` | chat, edit, branch, retry, rename, extract and clear memories, instructions | quota, gateway, providers |
| Chat gateway (`intelligence/intelligence.gateway.ts`) | a socket per message | research, browse, answer, fall back, complete | quota, search, threads |
| Reasoning and generation pipelines | a loop per request; a copy of a project's files | drafts, thoughts, tools of an agent run | project files, providers |
| Applications and billing | `Application`, `ApplicationUsage`, `AIModelPricing` | create, delete, charge, set and sync prices | agents, instructions |
| Web search and browsing (`intelligence/browser`) | cached pages and searches, `WebSearchSource` | search engines, fetch, summarise, save | gateway, quota |
| Nodes and tasks (`services/command-control`) | Redis keys per node | register, heartbeat, elect, distribute | news collection |
| News collection | `Source`, `Article` | hourly job on every node | nodes |
| Event bus (`services/event-emitter.module.ts`) | none | publish, re-emit | gateways, e-mail |
| Photos, albums and their cache (`cache`, `collection`, `photo`) | `Photo`, `Album`, Redis keys | create, update, delete, read aside, invalidate | |
| Privacy settings | `UserPrivaySettings` | initialise, create, update, delete | login |
| E-mail, storage, load balancer, profiles, HTTP shell | queue jobs, S3 objects | | |

What makes each of the modelled components correct:

- *Sessions.* A valid session was obtained with the password that is stored
  now; one that has ended never becomes valid again, nor does its token once no
  other row can hold it; a reset row yields one password, and the one that was
  mailed is the one that works.
- *Project files.* The history of a file has no gap and no fork, only grows at
  its end, and the current version is its last one; a deleted project leaves
  nothing behind; a path belongs to one file.
- *Agent execution.* The row of an execution tells what was run, whatever fails;
  once closed it is final; an application pays once, what the row reports;
  workflows without a way back end.
- *Calls.* A call nobody is left in has ended, in whatever order they left.
- *Chat threads.* A thread reads as the conversation it was, whenever its
  messages were stored, and no operation leaves half a turn behind.
- *Quota.* A user is granted no more than the allowance, every granted request
  is counted, and the count starts again each month.
- *Messages and groups.* Who has sent a message sees it; who was removed from a
  group no longer finds it in a list and is told of its messages only through sockets
  connected before; a browser
  is notified for one user only; an event does not go round for ever.
- *Accounts, second factor.* An account has one row of settings with every
  change of the user; a backup code works once; a second factor that is
  required is one the user has shown to have.
- *OAuth provider.* A code is exchanged once; one consent covers an application.
- *Conversation.* A message to the assistant ends once for its client and costs
  once; memories and titles are those the user left; instructions stay within
  their limit; a chain of reasoning ends.
- *Search and agent runs.* The client is told of what becomes a source, in that
  order, and of the end; the searches counted are those under way and an agents' search
  is charged once; nothing found is kept as an answer only where the code means to; an agent run works on files as its own reports say.
- *Billing.* A balance is the cost of its usage rows; a model has one price.
- *Photos, albums, credentials.* A cached list is that of the table; a
  credential keeps its value, unless an update of it fails half-way or another is
  stored under its name.
- *Nodes and news.* A node leads beside a running leader of a smaller name only if
  that one was not yet registered or its row expired; a row tells the work of its
  node; nodes of one view take every feed once.

`PROJECT.json` lists the hazards behind these, each at its line, with the
properties that cover it.

## Modules

| Module | Models |
|---|---|
| `AuthSessions` | sessions, password changes and resets |
| `AuthSessionsProofs` | its theorems |
| `ProjectFiles` | files, versions and collaborators of one project |
| `FileHistory` | the abstract specification `ProjectFiles` implements |
| `ProjectFilesProofs` | its theorems |
| `AgentExecution` | executions, their billing, the editing of the workflow |
| `AgentExecutionProofs` | its theorems |
| `Calls`, `CallsProofs` | calls, and their theorems |
| `UsageQuota`, `UsageQuotaProofs` | the quota row of one user around a change of month, and its theorems |
| `ChatThreads`, `ChatThreadsProofs` | the messages turns store, and changes of threads meanwhile; its theorems |
| `MCAuthSessions`, `MCProjectFiles`, `MCUsageQuota`, `MCChatThreads` | symmetry sets for TLC |
| `Actors` | users and requests, the constants all modules below share |
| `DirectMessages` | messages of two users, read and deleted, and cached conversations |
| `GroupRooms` | groups, members, cached lists and pages, rooms and sockets |
| `PushSubscriptions` | web-push endpoints and who they notify |
| `EventBus` | events between the nodes through Redis |
| `MCMessaging`, `MessagingProofs` | the four above for TLC, and their theorems |
| `OAuthProvider` | applications, codes, consents |
| `Accounts` | registration, external login, privacy settings |
| `TwoFactor` | secret and backup codes of one account |
| `ChatGateway` | a message from the socket to its last event, and its charges |
| `UserContext`, `ChatInstructions` | memories and title; instructions |
| `Reasoning`, `AgentPipeline` | loops of drafts and thoughts; the tools of an agent run |
| `Billing`, `PriceList` | balances and usage; prices of the models |
| `WebSearch`, `PageCache` | one streamed search; cached lookups |
| `Nodes`, `NewsCollection` | registry, leader and tasks; the feeds shared on top of it |
| `AgentCredentials`, `MediaLibrary` | credentials and variables; photos and albums |
| `MCPlatform`, `PlatformProofs` | these sixteen for TLC, and their theorems |

`NewsCollection` extends `Nodes` and its steps run between those of the nodes:
a job stops when its node does. The other modules of `MCMessaging` and
`MCPlatform` share no variable, so these two compose them as a sum: a behaviour
picks a component initially and stays in it. Where the code of two of them meets
in a table, the one has what it reads of the other's as an input or a step of its
environment: `Billing` a price that changes (`PriceList`), `AgentPipeline` files
that others write (`ProjectFiles`), `ChatGateway` the allowance its messages share (`UsageQuota`).
A product would multiply their states and add only orders of these steps that the
environment already takes.

### How state and actions correspond to the code

Tables are functions from row identities to rows, with `None` (in
`ChatThreads`, `Free` or `Gone`) for a missing row. Row identities are
constants: they bound how many rows a behaviour can create. A request that is
being served is a record in `req` (in `AgentExecution`, `run`): its step, and
the local variables later queries use.
Each action is the code from one `await` to the next; the step says which
comes next. Two adjacent queries are one action only when the second reads
nothing another request changes (the `userLogin` and event rows of the login,
for instance) or when the database makes the pair equivalent to one of them (a
foreign key rejects `agentStep.create` if the agent went away after the check).

A Prisma transaction is one action: what it reads and writes is protected by
the row locks, unique indexes and foreign keys of PostgreSQL, and when one of
these rejects it, it leaves nothing. A query that throws is assumed not to have
written anything; a commit whose reply is lost is not modelled. Variables
marked "history" in the modules are not in the program; they record what a
property has to talk about.

- `AuthSessions`. bcrypt is equality of passwords. A refresh token is what it
  signs: the user and the second (`iat`), with no identity of its own, and the column
  is not unique; so a row has an id and a token, and two logins of one user in one
  second store two rows with one token. A lookup by token (`Holds`) returns either.
  `now` is the clock of seconds; a request signs with a second between its last
  await of the database and now (`Signed`). The tokens of reset links are likewise shared by rows
  of one user (`Links`). `proved` in a session row is the password whose knowledge
  created it. A client presents any token that was put in a cookie. A reset
  row is found until it has expired or is deleted. `overlapped` records that a
  password write used a version that was no longer stored: the increment is a
  read and a write without a transaction, so all that follows from versions
  needs its absence, and the properties say so.
- `ProjectFiles`. One project; access is checked first and never again, as in
  the code. `Insertable` is the unique index on `(fileId, version)` with the
  foreign key of the version. Paths and contents are members of small sets.
- `AgentExecution`. A step returns success with or without tokens, or failure;
  a failed prompt may have used tokens. `QueryFails` places the exception of
  each query inside or outside the `try` block, `Crash` ends every call.
- `Calls`. Participants are "in" or "left" by their `leaveTime`.
- `ChatThreads`. `createdAt` is a small clock that advances when a question is
  sent to the model and while some row bears a time not yet past; other times
  differ in nothing. An insert that nobody awaits is a row in the state "insert",
  which `Insert` and `InsertFails` resolve at any moment. A thread that was
  created without messages by a copy or a branch is hidden, as in the lists.
  `createMany` of a branch names a column the table does not have and is always
  rejected. `before` and `raced` are histories: which turn was over before which
  one began, and where a turn overlapped a change; nothing in the code orders
  the two, so `AnswersKeepTheirQuestion` needs their absence.
- `UsageQuota`. Months are numbers; `late` says that today's date may not exist
  in the next month, which `Overflowing` names. Days within a month do not
  matter otherwise, since reset dates are firsts of months.

- `DirectMessages`, `GroupRooms`, `MediaLibrary`. A cached list is the set of
  rows it was built from. A reader who misses the cache reads the rows in one step
  and fills the cache in a later one; `crossed` and `overtaken` are histories of
  a write that came in between. An invalidation nobody awaits is a step that other
  requests may precede. In `GroupRooms` a group's page is the number of
  its posts; the handler of `group.members.added` throws before it joins anybody,
  so it changes nothing.
- `PushSubscriptions`. The lookup of an endpoint returns any of its rows.
- `EventBus`. `isFromRedis` is a parameter of `Emit`, as it holds exactly during
  a synchronous call. A message is in the inbox of every node subscribed when it is
  published.
- `OAuthProvider`. `raced` records exchanges of one code, or grants of one
  consent, that overlapped. A refusal sent through `response` throws
  afterwards, and changes nothing.
- `Accounts`. A user is an e-mail address or an external identity; names
  are members of a small set, so that two users may ask for the same. A registration
  looks its name up; an external user is given one unseen, and `clashed` records who then
  shares it. Every handler may die after any query.
- `TwoFactor`. Knowing a secret or a backup code is holding a member of a set.
  `mingled` records that a handler wrote while another one stood between its
  read and its write.
- `ChatGateway`. The outcome of each engine, model and stream is a choice;
  events that only announce progress are left out.
- `UserContext`, `ChatInstructions`. Memories are their keys, a title is None,
  "generated" or "chosen", instructions are rows without content.
- `Reasoning`. A response is what its parser finds: a complexity, a call for
  improvement, both or neither.
- `AgentPipeline`. Contents are numbered, so that the copy and the table can be
  compared; a tool's own project operation is one step, as `ProjectFiles` has its
  interleavings. `elsewhere` holds the paths others have written.
- `Billing`, `PriceList`. One answer of a model is one unit; the transaction of
  usage row and balance is one step.
- `WebSearch`, `PageCache`. A text is its length in the one; in the other an answer is
  what it was made from: a text found, blanks, the error message that `extractText` returns as a
  page's text (`PageTexts`; always for raw pages, which pass it no address), the apology for a
  failed model, or nothing. A fetch that timed out goes on in the background and may still
  arrive. The keys expire at any moment.
- `Nodes`, `NewsCollection`. Every process start is a new node. It changes what it
  knows of itself and then sends its row to Redis (`RegisterAs`); `writes` are the rows on
  their way, in the order of the connection, and Redis takes the next one (`RowWritten`) or
  it fails (`WriteFails`), which nobody waits for but the start and the next heartbeat repairs.
  A row expires once its node has stopped renewing it, which a stalled event loop may also do. The
  rows are listed in one query and read in another. `peers`, `lapsed` and `behind` are histories: who
  listened when a node listed the rows, whose row expired under it, whose last write failed.
- `AgentCredentials`. A credential is a name with a value; encryption is left out. An
  update is a deletion and an upsert by name, as in the code; `lost` holds the credentials
  whose update failed in between, `overwritten` those that were there when another was stored
  under their name.

Each module also contains operators that a comment marks `Mutant`: the same
code with a plausible mistake. `PROJECT.json` names for every property the
mutants that break it; they are used nowhere else. A property that is a conjunction
over several components has a mutant in each of the modules it speaks of.

## Runs

All passing runs explore their whole state space. Deadlock is not checked
because every model really stops: row identities, versions and months run out,
and an execution that has ended stays ended.

| Run | Instance | Shows |
|---|---|---|
| `AuthSessions` | one two-factor account, 2 seconds, 2 session rows and 2 reset rows (three of the four) with one link, 2 passwords, 2 requests, 2 versions a write may start at | a session at its account's version was obtained with the stored password; an ended one stays ended and a token whose rows have all ended stays dead; one mail per reset row, and the mailed password is the stored one |
| `ProjectFiles` | 2 files, 2 paths, owner and one collaborator, 2 requests, 2 versions | linear histories, empty deleted project, and that the tables implement `FileHistory` |
| `AgentExecution` | 2 steps in either order, each followed by none, the listed next one or one fixed step, so with and without loops; 1 execution of up to 3 steps, for the owner or 1 application; under fairness | the row tells the run; closed rows are final; billed once, as reported; forward workflows end |
| `Calls` | 3 users, 3 requests, 1 call; under fairness | a deserted call has ended, and reaches that end |
| `ChatThreads` | 2 threads, 4 messages, 2 turns, 2 requests of which one may be more than a turn; a second of 1 clock step, clock up to 3 | conversations and copies are in order; answers keep their questions |
| `UsageQuota` | 2 rows, 2 requests, 2 months, the first one long, allowances 1 and 2 | no row counts more than an allowance permitted; serial requests are counted, in one row |
| `Messaging` | each of four components with 2 users and 2 requests: 2 messages; 1 group, 1 socket, 1 post; 2 endpoints; 3 nodes and 1 event, published at most twice | a sender's list shows the message; a removed user's list does not show the group; rooms follow members; an endpoint has one user; events do not echo |
| `Platform` | each of sixteen components with 2 users and 2 requests, or 2 nodes; the constants are in `Platform.cfg` | grants are single; user data, conversation, billing, search and cluster hold: each a conjunction of the invariants of its components |

Two requests are enough for every race in these components but one: each
involves a stale read of one request and a write of another. In a call three
requests of three users are used, since a third user may join between the
counts of two who leave. Two versions, months or password writes let every
operation meet both the first and a later value, and two password writes may
overlap. Two seconds are what it takes for tokens to be the same and to differ, and two rows
for one to end while its twin lives; `MCAuthSessions` creates at most three rows, sessions
and resets together. Executions share nothing but the steps, which are edited by others
anyway, and the balance, which only grows smaller by atomic decrements; so one
execution is enough. Symmetry is used for rows, requests and passwords, which
the modules never compare except for equality, and only in runs without
liveness.

In `Platform` the limits of the code are scaled down so that they are met: 2
instructions for 20, 1 search at a time for 25, 2 sources for 10, one retry for
3, an allowance of 3 requests, texts of length 0 and 1 with 2 returned. Five
bounds are actions' guards in `MCPlatform`. `NewsBound` keeps elections, messages
and heartbeats out of the runs of feeds, which the component "nodes" has. `NodesBound` sends
commands and tasks only while no row has expired under its node and one row at a time
is on its way to Redis. `PagesBound` keeps at most two kinds of answers at a time, which share
nothing. `PartsBound` lets an agent have credentials or variables at a time, and three
credentials be about, of which the owner keeps track of two and has lost one.
`AccountsBound` lets one user at a time change settings, and only where no
account is external. What they keep from meeting are different rows, or steps whose
meeting adds nothing to the properties; the invariants of the components are proved without
them (`NodesSafe`, `PartsSafe` and the other lemmas of that form in `PlatformProofs`).
User names, fields, feeds and values of credentials are one set of model values, as no two
kinds are ever compared, so one symmetry permutes them all. `MaxRows`, `MaxValue`, `MaxUsages`,
`MaxByHand`, `MaxMessages`, `MaxWrites`, `MaxSecond`, `MaxContents`, `MaxCalls`, `MaxPosts` and
`MaxPublish` bound counters and appear in the guard of the action that
counts.

Runs that end in a violation check a statement of the repository about itself
and show that the code does something else:

| Run | Statement | What happens |
|---|---|---|
| `ProjectPathsViolation` | a path "already exists in this project" is rejected | two requests check, then both create |
| `AgentFailureViolation` | `nextOnFailure`: "null = stop execution" | the next step in order is run |
| `UsageGrantsViolation` | "Check if a user has message usage remaining and increment if available" | two increments of the same read |
| `UsageResetViolation` | "first day of next month" | on 31 January the next reset is 1 March |

Seen while modelling, and part of the actions without a run of their own: a
refresh looks at expiry and revocation but not at the token version; a deleted
file that is reverted keeps its mark; a step that runs twice counts its tokens
once; a branch of a chat thread stays empty; a question asked within a second of
an answer may sort before it; a retry or an edit during a stream may leave the
stream's answer without its question; a call that has ended can be joined; two
overlapping uses of a backup code, exchanges of a code or creations at a limit
all succeed; refresh tokens of the OAuth provider are never stored, as
Prisma sends no query nobody awaits; a stream that failed is reported complete
after the error; an agent run works on deleted files too and its edit does not
undelete them; after a leader's exit nobody is elected, and a node of
a smaller name that starts later leads beside the leader it lists;
leaving deletes a hash field nobody writes; two logins of a user in one second get one
token in two rows, and logging out of one leaves it valid through the other; a reset asked for twice in one second gives one link to two rows,
each of which mails a password; a credential stored under a taken name overwrites the one
that has it; an external user may be given a name somebody holds; `fetchRaw` answers every page with
the error message of `extractText`, which JSDOM throws into for want of an address, and caches
it; the node that publishes an event handles it twice.

### Fairness

The invariants need no fairness. `AgentExecution!FairSpec` and `Calls!FairSpec` are weakly fair in the next step
of each execution or request (`Continue`). Node.js resumes a handler when its
promise settles, and every query, provider call and step either answers or
throws in the end; throwing is itself one of the steps, so fairness never
promises success. Nothing is assumed about new requests, edits or crashes.

## Proofs

Every safety invariant and every action property that a passing run checks, and the
refinement of `FileHistory`, is also a theorem of TLAPS: for any number of users,
requests, rows and messages, and for every value of the limits. The assumptions on the
constants are the `ASSUME`s of the modules, which TLC evaluates as well. Most of them
are of three kinds: limits are natural numbers, `None` is not one of the values it
stands beside, and a set that the code counts or orders (steps of a workflow, feeds,
nodes, addresses of one search) is finite. The others say more about the program:

- `Second` and `ConcurrencyLimit` and `MaxInstructions` are not 0, as the constants
  of the code are not.
- `ActorsAssumption`, `ProjectAssumption`, `AuthAssumption`, `ChatAssumption`: which
  users, roles or requests are of a special kind.
- `BillingAssumption`: prices are not negative.

A typed state says nothing of what a request has read, so all the inductive
invariants have two parts: a *shape* for the locals of a request at each of its
steps, and a relation between what it has read and what is stored now. The proofs
of the larger modules first sort the actions into a few kinds by what they
do to the tables (`NextKinds`, `TurnKind`, `Moves`), and then show that each kind keeps each
part of the invariant.

**`AuthSessionsProofs`** (`TypeCorrect`, `SessionsProvePassword`, `MailsCarryPassword`,
`ResetsMailOnce`, `EndedStayEnded`). `EvidenceInv`: whatever a request, a session row
or a mail holds about an account is either older than the stored version or agrees
with the stored password, unless writes overlapped. The heart is that a write that
does not overlap leaves all older evidence behind (`WriteKeepsBehind`).
`MailerInv`: a request that is about to mail has deleted its reset row, is the
only one of that row, and nothing was mailed for it yet. For tokens: a row holds a token
of its own user (`OwnTokens`) signed no later than now (`RowsSigned`), and a request that is about
to sign one does so from the second it has noted on (`SignersLate`); so once a token's second is over and
those requests have stored their rows, no new row can hold it (`TokensStayEnded`).

**`ProjectFilesProofs`** (`TypeCorrect`, `HistoriesAreLinear`,
`DeletedProjectsStayEmpty`, `FilesImplementHistory`). `HistoryIsLinear` is not inductive: it
needs that the number a request computed is at most one above the file's
current one as long as the file exists, and that files never leave without
their project (`Known`). With it, the unique index admits a number only if it is
the next. The refinement follows step by step: a transaction that
creates files is `Create`, one that stores a version `Commit`, the deletion of the project
`DiscardAll`, and all else stutters.

**`AgentExecutionProofs`** (`TypeCorrect`, `RowsTellTheRun`, `BillsMatchTheRows`,
`ClosedRowsAreFinal`). `CallInv` relates the locals of `executeAgent` at each point to
the row: at most the last step is missing from it. `BillInv` adds that a usage row belongs to an ended
call with a closed row and equals it, and that a balance is minus the tokens
of its rows, a sum over a finite set that one row enters at a time.

**`UsageQuotaProofs`** (`TypeCorrect`, `NeverAbovePeak`, `SerialCount`). `PeakInv`:
neither the rows nor what requests have read of them exceeds the highest allowance. `SerialInv`:
without overlap there is one request, one row, and what was read is still true.

**`CallsProofs`** (`TypeCorrect`, `DesertedCallsEnded`). A request past its `leaveTime`
belongs to a user with a participant row and a request inside a call names a call
that exists; then the last one to set its `leaveTime` still has its count ahead.

**`ChatThreadsProofs`** (`TypeCorrect`, `ConversationsInOrder`, `AnswersStayWithQuestions`).
`OrderInv` speaks of all lines that are told, stored, being inserted or read to be
copied, and gives a turn the fact that all turns before it are in its past; all steps but the sending
of rows add no line (`Quiet`). `KeepInv`: where no change met a turn, what a request
has listed to delete or read to copy consists of whole turns.

**`MessagingProofs`** (`Composed`, `TypesCorrect`, and one theorem per property of the
run). `Composed`: a behaviour of the sum is one of each component, most of them standing
still; so each component is proved by itself. `BusInv` counts what a node ran and what
Redis still holds for it. `PushInv`, for an endpoint no two requests subscribed at once: one
owner, one request, and what that request read is true. `ThreadsInv` and
`ListInv`: a cached list, or one being built, misses something only if it was crossed, or
if a request that will drop it is under way. `RoomInv`: a socket that is reading its
groups will join only rooms of members, or of users removed since.

**`PlatformProofs`** (`Composed`, `TypesCorrect`, `CodesYieldOnce`, `UserDataKept`,
`ConversationsEnd`, `BalancesAreUsage`, `SearchesEnd`, `NodesAgree`), one section and one
inductive invariant per component. What they add to the properties:

- `OAuthInv`, `AccInv`, `FactorInv`: where requests did not meet, one request is
  between the read and the write and its read is still true; codes in use
  come from batches that were generated, so a new batch is fresh.
- `InstructionsInv`: the creations under way, counted, are at most `atOnce`, so the
  rows are at most that many above the limit.
- `GatewayInv`, `ContextInv`, `ReasoningInv`, `PipeInv`: what was emitted, told or charged is a
  function of the step a message, turn, chain or run has reached.
- `BillInv`: a charged request's cost is in the sum of the rows; `PriceInv`: a sync
  that runs alone has every model listed, or on its list to create.
- `NodesInv`, `NewsInv`: a node that listened when another listed the rows has its row
  there unless it expired; the last row sent, or taken if none is on its way, is what the node
  is, unless a write failed; jobs hold only their node's share of the order they computed.
- `PartsInv`, `MediaInv`: a credential is there, or in the hands of an update, or its update failed, or
  it was overwritten; names are unique, as storing finds the one row of a name; a
  list that is not fresh is about to be dropped, or its reader was overtaken.
- `CacheInv`: the counters are the numbers of lookups that are performing and paying.
- `SearchInv`: what is awaited is neither told nor given up, and what is told and what is awaited together
  respect the limit.

tlapm has no induction over data, as its library states that with an operator
as a parameter. The order on the natural numbers is well-founded, though, and a least
counterexample is enough: `LeastNumber`, `NumbersInduct` and `NumbersUpTo` give
induction over a *set* of numbers, `FoldExists` the function that `FoldLeft` chooses,
and `FoldingSources` and `FoldingLengths` its values one source after the other, from
which `PruneKeeps` concludes that the pruned sources fit and no image is lost.

Only model-checked: the liveness properties `ForwardExecutionsEnd` and
`DesertedCallEnds`, as liveness under fairness and `ENABLED` are out of TLAPS's reach; and the four
violations, which are counterexamples and need none.

## Not modelled

- The text of prompts, answers, pages, mails and notifications, and the
  providers that make them: what can go wrong there is not a matter of order.
- E-mail delivery (a queue job per mail), object storage, profiles and locations
  (single updates nothing else reads), the HTTP, GraphQL and telemetry shell.
- The load balancer, a round robin over a map that nothing fills, and the
  crawler, which nothing calls.
- In messaging: presence, typing and encryption. In the chat: the
  threads of projects, which are created and listed but not otherwise
  different. In the OAuth provider: secrets, the contents of tokens, and the
  refresh grant, which never finds a row.
- The keys `album:<id>`, which are deleted but never set, and
  `distributeTask`, which is modelled but called by nothing.

## Plan

Done: the core, messaging and the event bus, the components around them, and a proof of
each of their safety properties. What is left:

1. The inductive invariants as invariants of runs of their own, so that a change of a
   model shows in TLC before it shows in a proof.
2. A login and a message to the assistant meet in one user's
   rows: a composition of `AuthSessions`, `UsageQuota` and `ChatGateway` as a product.
3. More of the intelligence service: the project threads and the file tools of the controller.
