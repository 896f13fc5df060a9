----------------------------- MODULE GroupRooms -----------------------------
(***************************************************************************)
(* Groups, their cached lists and pages, and the rooms of their sockets:    *)
(* the group operations of src/messaging/messaging.service.ts and the       *)
(* connections of src/messaging/messaging.gateway.ts.                       *)
(*                                                                          *)
(* Membership is a table; who is told of a message is decided by the rooms  *)
(* a socket joined when it connected.  The handler of group.members.added   *)
(* looks for sockets at this.server.sockets.sockets, which a namespace does *)
(* not have: it throws for the first new member who is connected, and its   *)
(* error is logged.  Nothing listens to group.members.removed.              *)
(***************************************************************************)
EXTENDS Naturals, Actors

CONSTANTS
    Groups,    \* identities of Group rows (bounds the rows)
    Sockets,   \* connections a client may open
    MaxPosts   \* bound: no message is posted to a group that has so many

ASSUME GroupAssumption ==
    /\ None \notin Users \cup Groups
    /\ MaxPosts \in Nat /\ None \notin 0 .. MaxPosts

VARIABLES
    role,       \* role[g][u]: the role of u in group g
    groupList,  \* groupList[u]: cached `userGroups:u`, or None
    posts,      \* posts[g]: how many messages group g has
    page,       \* page[g]: how many of them the cached first page was built from
    socket,     \* socket[s]: whose connection s is, and how far it got
    room,       \* room[g]: sockets in room `group_g`
    grp         \* grp[r]: step and locals of request r

groupVars == <<role, groupList, posts, page, socket, room, grp>>

GroupSteps == {"idle", "create.admin", "create.members", "groups.fill", "add.create",
               "add.clear", "remove.delete", "remove.admin", "remove.clear",
               "post.create", "page.fill"}

GroupRequest == [step : GroupSteps, group : Groups \cup {None}, user : Users \cup {None},
                 users : SUBSET Users, groups : SUBSET Groups, posts : Nat, crossed : BOOLEAN]

GroupIdle == [step |-> "idle", group |-> None, user |-> None, users |-> {}, groups |-> {},
              posts |-> 0, crossed |-> FALSE]

\* `lost` is history: the groups the user was removed from since connecting.
SocketRow == [state : {"closed", "open", "reading"}, user : Users \cup {None},
              groups : SUBSET Groups, lost : SUBSET Groups]

NoSocket == [state |-> "closed", user |-> None, groups |-> {}, lost |-> {}]

\* `crossed`: a removal of the user was under way while the list was built.
GroupList == [groups : SUBSET Groups, crossed : BOOLEAN]

GroupInit ==
    /\ role = [g \in Groups |-> [u \in Users |-> "none"]]
    /\ groupList = [u \in Users |-> None]
    /\ posts = [g \in Groups |-> 0]
    /\ page = [g \in Groups |-> None]
    /\ socket = [s \in Sockets |-> NoSocket]
    /\ room = [g \in Groups |-> {}]
    /\ grp = [r \in Requests |-> GroupIdle]

-----------------------------------------------------------------------------
GroupAt(r, step) == grp[r].step = step

GroupFinish(r) == grp' = [grp EXCEPT ![r] = GroupIdle]

Member(g, u) == role[g][u] # "none"

GroupsOf(u) == {g \in Groups : Member(g, u)}

\* Some request is removing u from a group, or has still to clear u's list.
Removing(u) ==
    \E r \in Requests :
        /\ grp[r].step \in {"remove.delete", "remove.admin", "remove.clear"}
        /\ u \in grp[r].users

\* createMany with skipDuplicates: who has a role keeps it.
JoinAll(g, us) ==
    role' = [role EXCEPT ![g] = [u \in Users |-> IF u \in us /\ ~Member(g, u)
                                                 THEN "MEMBER" ELSE role[g][u]]]

-----------------------------------------------------------------------------
(* createGroup: three inserts; no cached list is cleared. *)

CreateGroup(r, g, u, us) ==
    /\ GroupAt(r, "idle")
    /\ \A v \in Users : ~Member(g, v)
    /\ posts[g] = 0
    /\ \A q \in Requests : grp[q].group # g
    /\ grp' = [grp EXCEPT ![r] = [GroupIdle EXCEPT !.step = "create.admin", !.group = g,
                                                   !.user = u, !.users = us \ {u}]]
    /\ UNCHANGED <<role, groupList, posts, page, socket, room>>

\* Mutant: the role is written in lower case, unlike the checks of it.
CreateAdminLower(r) ==
    /\ GroupAt(r, "create.admin")
    /\ role' = [role EXCEPT ![grp[r].group][grp[r].user] = "admin"]
    /\ grp' = [grp EXCEPT ![r].step = "create.members"]
    /\ UNCHANGED <<groupList, posts, page, socket, room>>

CreateAdmin(r) ==
    /\ GroupAt(r, "create.admin")
    /\ role' = [role EXCEPT ![grp[r].group][grp[r].user] = "ADMIN"]
    /\ grp' = [grp EXCEPT ![r].step = "create.members"]
    /\ UNCHANGED <<groupList, posts, page, socket, room>>

\* The members are told by 'group.created'; their sockets join no room.
CreateMembers(r) ==
    /\ GroupAt(r, "create.members")
    /\ JoinAll(grp[r].group, grp[r].users)
    /\ GroupFinish(r)
    /\ UNCHANGED <<groupList, posts, page, socket, room>>

-----------------------------------------------------------------------------
(* getUserGroups, after a miss *)

GroupsRead(r, u) ==
    /\ GroupAt(r, "idle")
    /\ groupList[u] = None
    /\ grp' = [grp EXCEPT ![r] = [GroupIdle EXCEPT !.step = "groups.fill", !.user = u,
                                    !.groups = GroupsOf(u), !.crossed = Removing(u)]]
    /\ UNCHANGED <<role, groupList, posts, page, socket, room>>

GroupsFill(r) ==
    /\ GroupAt(r, "groups.fill")
    /\ groupList' = [groupList EXCEPT ![grp[r].user] =
                        [groups |-> grp[r].groups, crossed |-> grp[r].crossed]]
    /\ GroupFinish(r)
    /\ UNCHANGED <<role, posts, page, socket, room>>

-----------------------------------------------------------------------------
(* addGroupMembers and removeGroupMembers, by an administrator *)

AddFindAdmin(r, g, u, us) ==
    /\ GroupAt(r, "idle")
    /\ role[g][u] = "ADMIN"
    /\ grp' = [grp EXCEPT ![r] = [GroupIdle EXCEPT !.step = "add.create", !.group = g,
                                                   !.user = u, !.users = us]]
    /\ UNCHANGED <<role, groupList, posts, page, socket, room>>

AddCreate(r) ==
    /\ GroupAt(r, "add.create")
    /\ JoinAll(grp[r].group, grp[r].users)
    /\ grp' = [grp EXCEPT ![r].step = "add.clear"]
    /\ UNCHANGED <<groupList, posts, page, socket, room>>

\* handleGroupMembersAdded: nothing follows the error for a connected member,
\* and a member who is not connected has no socket to join.
GroupMembersAdded == UNCHANGED room

\* The administrator's list only; then, of an addition, the event is emitted.
ClearAdmin(r) ==
    /\ grp[r].step \in {"add.clear", "remove.admin"}
    /\ groupList' = [groupList EXCEPT ![grp[r].user] = None]
    /\ grp' = [grp EXCEPT ![r] = IF GroupAt(r, "add.clear") THEN GroupIdle
                                 ELSE [@ EXCEPT !.step = "remove.clear"]]
    /\ GroupMembersAdded
    /\ UNCHANGED <<role, posts, page, socket>>

RemoveFindAdmin(r, g, u, us) ==
    /\ GroupAt(r, "idle")
    /\ role[g][u] = "ADMIN"
    /\ grp' = [q \in Requests |->
                 IF q = r THEN [GroupIdle EXCEPT !.step = "remove.delete", !.group = g,
                                                 !.user = u, !.users = us]
                 ELSE IF GroupAt(q, "groups.fill") /\ grp[q].user \in us
                      THEN [grp[q] EXCEPT !.crossed = TRUE] ELSE grp[q]]
    /\ UNCHANGED <<role, groupList, posts, page, socket, room>>

\* deleteMany leaves administrators; no socket leaves the room.
RemoveDelete(r) ==
    LET g == grp[r].group
        out == {u \in grp[r].users : role[g][u] = "MEMBER"}
    IN /\ GroupAt(r, "remove.delete")
       /\ role' = [role EXCEPT ![g] = [u \in Users |-> IF u \in out THEN "none" ELSE role[g][u]]]
       /\ socket' = [s \in Sockets |-> IF socket[s].user \in out
                       THEN [socket[s] EXCEPT !.lost = @ \cup {g}] ELSE socket[s]]
       /\ grp' = [grp EXCEPT ![r].step = "remove.admin"]
       /\ UNCHANGED <<groupList, posts, page, room>>

\* Mutant: only the administrator's list is cleared, as when adding.
RemoveClearNone(r) ==
    /\ GroupAt(r, "remove.clear")
    /\ GroupFinish(r)
    /\ UNCHANGED <<role, groupList, posts, page, socket, room>>

\* Then the lists of the users named, one after another.
RemoveClear(r) ==
    /\ GroupAt(r, "remove.clear")
    /\ IF grp[r].users = {}
       THEN GroupFinish(r) /\ UNCHANGED groupList
       ELSE \E u \in grp[r].users :
              /\ groupList' = [groupList EXCEPT ![u] = None]
              /\ grp' = [grp EXCEPT ![r].users = @ \ {u}]
    /\ UNCHANGED <<role, posts, page, socket, room>>

-----------------------------------------------------------------------------
(* sendGroupMessage and getGroupMessages, by a member *)

\* handleGroupMessageSent: who is told of a message of g, with a preview.
Told(g) == room[g]

PostFindMember(r, g, u) ==
    /\ GroupAt(r, "idle")
    /\ Member(g, u)
    /\ posts[g] < MaxPosts
    /\ grp' = [grp EXCEPT ![r] = [GroupIdle EXCEPT !.step = "post.create", !.group = g, !.user = u]]
    /\ UNCHANGED <<role, groupList, posts, page, socket, room>>

\* The room is told; the key deleted, `groupMessages:g`, is one nobody sets.
PostCreate(r) ==
    /\ GroupAt(r, "post.create")
    /\ posts' = [posts EXCEPT ![grp[r].group] = @ + 1]
    /\ GroupFinish(r)
    /\ UNCHANGED <<role, groupList, page, socket, room>>

PageRead(r, g, u) ==
    /\ GroupAt(r, "idle")
    /\ Member(g, u)
    /\ page[g] = None
    /\ grp' = [grp EXCEPT ![r] = [GroupIdle EXCEPT !.step = "page.fill", !.group = g,
                                                   !.posts = posts[g]]]
    /\ UNCHANGED <<role, groupList, posts, page, socket, room>>

PageFill(r) ==
    /\ GroupAt(r, "page.fill")
    /\ page' = [page EXCEPT ![grp[r].group] = grp[r].posts]
    /\ GroupFinish(r)
    /\ UNCHANGED <<role, groupList, posts, socket, room>>

\* The time to live of the store.
PageExpire(g) ==
    /\ page[g] # None
    /\ page' = [page EXCEPT ![g] = None]
    /\ UNCHANGED <<role, groupList, posts, socket, room, grp>>

ListExpire(u) ==
    /\ groupList[u] # None
    /\ groupList' = [groupList EXCEPT ![u] = None]
    /\ UNCHANGED <<role, posts, page, socket, room, grp>>

-----------------------------------------------------------------------------
(* handleConnection, subscribeToUserGroups and handleDisconnect *)

Connect(s, u) ==
    /\ socket[s].state = "closed"
    /\ socket' = [socket EXCEPT ![s] = [NoSocket EXCEPT !.state = "reading", !.user = u,
                                                        !.groups = GroupsOf(u)]]
    /\ UNCHANGED <<role, groupList, posts, page, room, grp>>

\* Mutant: the rooms of all groups are joined.
SubscribeToAll(s) ==
    /\ socket[s].state = "reading"
    /\ room' = [g \in Groups |-> room[g] \cup {s}]
    /\ socket' = [socket EXCEPT ![s].state = "open", ![s].groups = {}]
    /\ UNCHANGED <<role, groupList, posts, page, grp>>

\* The answer of the query arrives, and its rooms are joined.
SubscribeToGroups(s) ==
    /\ socket[s].state = "reading"
    /\ room' = [g \in Groups |-> IF g \in socket[s].groups THEN room[g] \cup {s} ELSE room[g]]
    /\ socket' = [socket EXCEPT ![s].state = "open", ![s].groups = {}]
    /\ UNCHANGED <<role, groupList, posts, page, grp>>

Disconnect(s) ==
    /\ socket[s].state # "closed"
    /\ socket' = [socket EXCEPT ![s] = NoSocket]
    /\ room' = [g \in Groups |-> room[g] \ {s}]
    /\ UNCHANGED <<role, groupList, posts, page, grp>>

-----------------------------------------------------------------------------
GroupNext ==
    \/ \E r \in Requests :
         \/ \E g \in Groups, u \in Users, us \in SUBSET Users \ {{}} :
              \/ CreateGroup(r, g, u, us)
              \/ AddFindAdmin(r, g, u, us)
              \/ RemoveFindAdmin(r, g, u, us)
         \/ \E g \in Groups, u \in Users : PostFindMember(r, g, u) \/ PageRead(r, g, u)
         \/ \E u \in Readers : GroupsRead(r, u)
         \/ CreateAdmin(r)
         \/ CreateMembers(r)
         \/ GroupsFill(r)
         \/ AddCreate(r)
         \/ ClearAdmin(r)
         \/ RemoveDelete(r)
         \/ RemoveClear(r)
         \/ PostCreate(r)
         \/ PageFill(r)
    \/ \E g \in Groups : PageExpire(g)
    \/ \E u \in Users : ListExpire(u)
    \/ \E s \in Sockets : SubscribeToGroups(s) \/ Disconnect(s)
    \/ \E s \in Sockets, u \in Users : Connect(s, u)

-----------------------------------------------------------------------------
(* The types of the tables, the caches, the sockets and the requests. *)
GroupTypeOK ==
    /\ role \in [Groups -> [Users -> {"none", "MEMBER", "ADMIN"}]]
    /\ groupList \in [Users -> GroupList \cup {None}]
    /\ posts \in [Groups -> Nat]
    /\ page \in [Groups -> Nat \cup {None}]
    /\ socket \in [Sockets -> SocketRow]
    /\ room \in [Groups -> SUBSET Sockets]
    /\ grp \in [Requests -> GroupRequest]

(* The cached list of a removed user does not show the group, once the       *)
(* removal has cleared it: unless the list was being built meanwhile.        *)
RemovedLeavesTheList ==
    \A u \in Users, g \in Groups :
        (/\ groupList[u] # None
         /\ g \in groupList[u].groups
         /\ ~Member(g, u))
        => groupList[u].crossed \/ Removing(u)

(* A socket in the room of a group, which is told of its messages, belongs   *)
(* to a member, or to a user removed after the socket connected.             *)
RoomsFollowMembership ==
    \A g \in Groups : \A s \in Told(g) :
        Member(g, socket[s].user) \/ g \in socket[s].lost
=============================================================================
