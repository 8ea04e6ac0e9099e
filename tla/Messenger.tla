----------------------------- MODULE Messenger -----------------------------
(***************************************************************************)
(* Conversations and messages.  A direct or entity conversation is looked  *)
(* up and then created with its members in one transaction; a message and  *)
(* the conversation's last message are one transaction, begun after the    *)
(* sender's membership was checked.  The time of a row is the id of the    *)
(* request whose transaction began then.                                   *)
(***************************************************************************)
EXTENDS Records

CONSTANT Users

Conversations == Rows("conversation")
Messages == Rows("message")

NoMessage == <<0, 0>>

Member == [read |-> 0, upto |-> NoMessage, muted |-> FALSE]

\* A conversation of a set of users; key is what it is about, left is a history
\* of those who were removed.
Conversation(type, key, users) ==
    [kind |-> "conversation", type |-> type, key |-> key, last |-> NoMessage,
     members |-> [u \in users |-> Member], left |-> {}]

Members(c) == DOMAIN rows[c].members

SetMember(w, c, u, columns, type) ==
    Statement(w, IF u \in Members(c) THEN [rows EXCEPT ![c].members[u] = Updated(@, columns)]
                                     ELSE rows, c, type)

-----------------------------------------------------------------------------
(* Conversations *)

\* Mutant of FindDirectConversation: only the one who created it finds it.
FindDirectConversationOf(u, peer) ==
    {c \in Conversations : rows[c].type = "direct" /\ rows[c].key = <<u, peer>>
                           /\ {u, peer} \subseteq Members(c)}

\* Whoever else was added to it meanwhile.
FindDirectConversation(u, peer) ==
    {c \in Conversations : rows[c].type = "direct" /\ {u, peer} \subseteq Members(c)}

FindEntityConversation == {c \in Conversations : rows[c].type = "entity"}

\* The conversation found is returned, but any error of the look-up is taken for
\* "there is none".
LookUp(w, op, found, conversation) ==
    \E failed \in BOOLEAN : (found = {} \/ failed) /\ Plan(w, op, New, conversation)

CreateDirectConversation(w, u, peer) ==
    /\ u # peer
    /\ LookUp(w, "direct", FindDirectConversation(u, peer),
              Conversation("direct", <<u, peer>>, {u, peer}))

GetOrCreateEntityConversation(w, u) ==
    LookUp(w, "entity", FindEntityConversation, Conversation("entity", <<>>, {u}))

CreateGroupConversation(w, u, others) ==
    Add(w, Conversation("group", <<>>, others \cup {u}), "messenger.conversation.created")

InsertConversation(w) ==
    \/ /\ At(w, "direct")
       /\ LET key == task[w].copy.key
          IN Insert(w, FindDirectConversation(key[1], key[2]) = {},
                    "messenger.conversation.created")
    \/ /\ At(w, "entity")
       /\ Insert(w, FindEntityConversation = {}, "messenger.conversation.created")

\* ON CONFLICT DO NOTHING keeps the row of a member.
AddMember(w, c, u) ==
    Statement(w, [rows EXCEPT ![c].members = IF u \in DOMAIN @ THEN @ ELSE With(@, u, Member)], c, "messenger.member.added")

RemoveMember(w, c, u) ==
    Statement(w, [rows EXCEPT ![c].members = [v \in DOMAIN @ \ {u} |-> @[v]],
                              ![c].left = @ \cup {u}], c, "messenger.member.removed")

SetMuted(w, c, u, muted) == SetMember(w, c, u, [muted |-> muted], NoEvent)

-----------------------------------------------------------------------------
(* Messages *)

Message(c, u) ==
    [kind |-> "message", conversation |-> c, sender |-> u, iat |-> served + 1,
     content |-> served + 1, deleted |-> FALSE, reactions |-> {}]

SendMessage(w, c, u) == u \in Members(c) /\ Plan(w, "send", New, Message(c, u))

\* A system message goes to a conversation that exists, or nowhere.
SendSystemMessage(w) ==
    \E c \in FindEntityConversation : Plan(w, "send", New, Message(c, "system"))

CreateMessage(w) ==
    /\ At(w, "send")
    /\ LET t == task[w]
           c == t.copy.conversation
       IN /\ rows' = With([rows EXCEPT ![c].last = t.row], t.row, t.copy)
          /\ Continue(w, Announcing(t.id, t.row, "messenger.message.sent"))
    /\ UNCHANGED <<stale, news>>

\* Neither statement looks at what the message has become.
EditMessage(w, m) == Read(w, "edit", m)
DeleteMessage(w, m) == Read(w, "delete message", m)

UpdateMessage(w) ==
    \/ At(w, "edit") /\ Write(w, [content |-> task[w].id], "messenger.message.edited")
    \/ At(w, "delete message")
       /\ Write(w, [content |-> 0, deleted |-> TRUE], "messenger.message.deleted")

React(w, m, reactions, type) == Set(w, m, [reactions |-> reactions], type)

AddReaction(w, m, u) == React(w, m, rows[m].reactions \cup {u}, "messenger.reaction.added")
RemoveReaction(w, m, u) == React(w, m, rows[m].reactions \ {u}, "messenger.reaction.removed")

SetTyping(w, c) == Statement(w, rows, c, "messenger.typing")

-----------------------------------------------------------------------------
(* What was read *)

MessagesOf(c) == {m \in Messages : rows[m].conversation = c /\ ~rows[m].deleted}

\* last_read_at is the time of the request, whatever the message.
MarkRead(w, c, u, m) == SetMember(w, c, u, [upto |-> m, read |-> served + 1], NoEvent)

\* The newest messages first, those before a given one when there is one.
ListMessages(c, before, limit) ==
    LET older == {m \in MessagesOf(c) : before = NoMessage \/ rows[m].iat < rows[before].iat}
    IN {m \in older : Cardinality({n \in older : rows[n].iat > rows[m].iat}) < limit}

-----------------------------------------------------------------------------
ConversationEndpoints(w) ==
    \E u \in Users :
        \/ \E peer \in Users : CreateDirectConversation(w, u, peer)
        \/ CreateGroupConversation(w, u, Users)
        \/ GetOrCreateEntityConversation(w, u)

MemberEndpoints(w) ==
    \E c \in Conversations, u \in Users :
        \/ AddMember(w, c, u) \/ RemoveMember(w, c, u)
        \/ \E muted \in BOOLEAN : SetMuted(w, c, u, muted)

MessageEndpoints(w) ==
    \/ \E c \in Conversations, u \in Users : SendMessage(w, c, u)
    \/ \E m \in Messages : EditMessage(w, m) \/ DeleteMessage(w, m)

ReadEndpoints(w) ==
    \E c \in Conversations, u \in Users :
        \E m \in ListMessages(c, NoMessage, 50) : MarkRead(w, c, u, m)

ReactionEndpoints(w) ==
    \/ \E m \in Messages, u \in Users : AddReaction(w, m, u) \/ RemoveReaction(w, m, u)
    \/ \E c \in Conversations : SetTyping(w, c)

\* A group that was there before, with one message nobody has read.
MessengerRows ==
    [r \in {<<0, 1>>, <<0, 2>>} |->
        IF r = <<0, 1>> THEN Conversation("group", <<>>, Users)
        ELSE [Message(<<0, 1>>, CHOOSE u \in Users : TRUE) EXCEPT !.iat = 0]]

MessengerNext ==
    \E w \in Workers :
        \/ ConversationEndpoints(w) \/ MemberEndpoints(w) \/ MessageEndpoints(w)
        \/ ReadEndpoints(w) \/ ReactionEndpoints(w) \/ SendSystemMessage(w)
        \/ InsertConversation(w) \/ CreateMessage(w) \/ UpdateMessage(w)
        \/ RecordSteps(w)

MessengerSpec == InitRecords(MessengerRows) /\ [][MessengerNext]_recordVars

-----------------------------------------------------------------------------
(* Properties *)

SameTopic(x, y) ==
    \/ x.type = "entity" /\ y.type = "entity"
    \/ /\ x.type = "direct" /\ y.type = "direct"
       /\ {x.key[1], x.key[2]} = {y.key[1], y.key[2]}

\* CreateDirectConversation and GetOrCreateEntityConversation (service.go:30,
\* 113) return the conversation there is: two users share a second direct
\* conversation, and the entity has a second one, only when two creations
\* overlapped, the look-up of one failed, or one of its members left the first.
ConversationsAreUnique ==
    \A c, d \in Conversations :
        c # d /\ SameTopic(rows[c], rows[d])
           => {c, d} \cap stale # {} \/ rows[c].left \cup rows[d].left # {}

=============================================================================
