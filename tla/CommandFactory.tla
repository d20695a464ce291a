--------------------------- MODULE CommandFactory ---------------------------
(***************************************************************************)
(* The command codec of src/src/Command_Layer: what serialize() writes,    *)
(* what CommandFactory::create makes of the bytes one read() returned, and *)
(* the byte stream between two programs, which has no message borders.     *)
(*                                                                         *)
(* Bytes are digits, the delimiter, and words: a word stands for a text    *)
(* that does not start with a digit, a sign or a space; a text of digits is*)
(* written out, since numbers are read from it.  Texts hold no delimiter   *)
(* (the consoles split at it), and what one send() wrote arrives whole: a  *)
(* read takes all that has arrived, one message or more.                   *)
(***************************************************************************)
EXTENDS Integers, SequencesExt, TLC

CONSTANTS
    Semi,             \* the delimiter
    name, text, id,   \* words
    MaxRequests,      \* bound: messages to the Auth Server read together
    MaxOthers         \* bound: messages read together on the other links

ASSUME CodecAssumption == MaxRequests \in Nat /\ MaxOthers \in Nat

VARIABLES
    link,   \* <<the program that sends, the program that reads>>
    shook,  \* CONN was sent
    last,   \* the class of the last message sent
    unread, \* the commands sent and not read yet
    read,   \* those the last read took
    got     \* what was made of them

vars == <<link, shook, last, unread, read, got>>

\* enum class CommandType : uint8_t
Number ==
    [CONN |-> 1, PING |-> 2, ERR |-> 3, RESP |-> 4, PAIR_REQ |-> 5,
     CRED_REQ |-> 11, LOGIN_REQ |-> 12, LOGOUT_REQ |-> 13, REGISTER_REQ |-> 14,
     REQ_NOTIF |-> 21, SEND_NOTIF |-> 22, REQ_CODE_CLIENT |-> 31, CODE_RESP |-> 32,
     VALIDATE_CODE_CLIENT |-> 33, VALIDATE_CODE_SERVER |-> 34,
     VALIDATE_RESP_SERVER |-> 35, LOGIN_RESP |-> 41, REGISTER_RESP |-> 42,
     PAIR_RESP |-> 43, CODE_CHK_RESP |-> 44, NOTIF_RESP |-> 45,
     NOTIF_LOGIN_RESP |-> 46, EXIT_SCS |-> 51]

\* enum class EntityType : uint8_t
Entity == [A_SERVER |-> 0, A_CLIENT |-> 1, D_SERVER |-> 2, D_CLIENT |-> 3]

\* The fields of a command object: a number, a flag, and so many texts.
Numbered == {"CONN", "ERR", "CRED_REQ", "RESP", "CODE_RESP"}
Flagged == {"RESP", "VALIDATE_RESP_SERVER"}
Texts ==
    [CONN |-> 1, PING |-> 0, ERR |-> 1, RESP |-> 2, PAIR_REQ |-> 1, CRED_REQ |-> 2,
     LOGOUT_REQ |-> 0, REQ_NOTIF |-> 2, SEND_NOTIF |-> 2, REQ_CODE_CLIENT |-> 0,
     CODE_RESP |-> 1, VALIDATE_CODE_CLIENT |-> 1, VALIDATE_CODE_SERVER |-> 3,
     VALIDATE_RESP_SERVER |-> 2, EXIT_SCS |-> 0]

Make(class, num, flag, texts) ==
    [class |-> class, num |-> num, flag |-> flag, texts |-> texts]

Nothing == Make("none", 0, FALSE, <<>>)

-----------------------------------------------------------------------------
\* serialize()

Decimal(n) ==
    IF n < 10 THEN <<n>>
    ELSE IF n < 100 THEN <<n \div 10, n % 10>>
    ELSE <<n \div 100, (n \div 10) % 10, n % 10>>

Join(fields) ==
    FoldLeft(LAMBDA s, f : s \o <<Semi>> \o f, Head(fields), Tail(fields))

\* Mutant: the application id is written by no program.
SerializeNoApp(program, c) ==
    Join(<<Decimal(Number[c.class])>>
           \o (IF c.class \in Numbered THEN <<Decimal(c.num)>> ELSE <<>>)
           \o (IF c.class \in Flagged THEN <<IF c.flag THEN <<1>> ELSE <<0>> >> ELSE <<>>)
           \o (IF c.class = "CONN" THEN <<>> ELSE c.texts))

\* The text of CONN and of PAIR_REQ is written by the Dummy Server only.
Serialize(program, c) ==
    Join(<<Decimal(Number[c.class])>>
           \o (IF c.class \in Numbered THEN <<Decimal(c.num)>> ELSE <<>>)
           \o (IF c.class \in Flagged THEN <<IF c.flag THEN <<1>> ELSE <<0>> >> ELSE <<>>)
           \o (IF c.class \in {"CONN", "PAIR_REQ"} /\ program # "D_SERVER"
               THEN <<>> ELSE c.texts))

-----------------------------------------------------------------------------
\* CommandFactory::create

\* getline() up to each delimiter; nothing follows a delimiter at the end.
Split(data) ==
    LET tokens == FoldLeft(
            LAMBDA ts, b : IF b = Semi THEN Append(ts, <<>>)
                           ELSE [ts EXCEPT ![Len(ts)] = Append(@, b)],
            << <<>> >>, data)
    IN IF Last(tokens) = <<>> THEN Front(tokens) ELSE tokens

\* stoi() reads the digits a text starts with, and throws if there are none or
\* if an int does not hold the number: -1 then, which no case fits.  (The sum
\* is tested before it is made; TLC's integers are as wide as an int.)
MaxInt == 2147483647

Digits(s) == SelectInSeq(s \o <<Semi>>, LAMBDA b : b \notin 0..9) - 1
Stoi(s) ==
    IF Digits(s) = 0 THEN -1
    ELSE FoldLeft(LAMBDA v, d : IF v < 0 \/ v > (MaxInt - d) \div 10
                                THEN -1 ELSE 10 * v + d,
                  0, SubSeq(s, 1, Digits(s)))
IsNumber(s) == Stoi(s) >= 0

\* Mutant: what follows the fields of a command is ignored.
AcceptsMore(program, class, n) ==
    \E k \in 1..n :
        \/ class = "CONN" /\ k = 2
        \/ class = "PAIR_REQ" /\ program = "D_SERVER" /\ k = 1
        \/ class = "PAIR_REQ" /\ program = "A_SERVER" /\ k = 2
        \/ class = "RESP" /\ k = 4
        \/ class \in {"LOGOUT_REQ", "EXIT_SCS", "PING", "REQ_CODE_CLIENT"}
        \/ class \in {"VALIDATE_CODE_CLIENT", "REQ_NOTIF"} /\ k = 2
        \/ class \in {"ERR", "SEND_NOTIF", "CODE_RESP"} /\ k = 3
        \/ class \in {"CRED_REQ", "VALIDATE_CODE_SERVER", "VALIDATE_RESP_SERVER"} /\ k = 4

\* How many fields each case of the switch accepts.
Accepts(program, class, n) ==
    \/ class = "CONN" /\ n \in {2, 3}
    \/ class = "PAIR_REQ" /\ program = "D_SERVER" /\ n = 1
    \/ class = "PAIR_REQ" /\ program = "A_SERVER" /\ n = 2
    \/ class = "REQ_NOTIF" /\ n \in {2, 3}
    \/ class = "RESP" /\ n \in {4, 5}
    \/ class \in {"LOGOUT_REQ", "EXIT_SCS"}
    \/ class \in {"PING", "REQ_CODE_CLIENT"} /\ n = 1
    \/ class = "VALIDATE_CODE_CLIENT" /\ n = 2
    \/ class \in {"ERR", "SEND_NOTIF", "CODE_RESP"} /\ n = 3
    \/ class \in {"CRED_REQ", "VALIDATE_CODE_SERVER", "VALIDATE_RESP_SERVER"} /\ n = 4

\* Mutant: one more missing break.
CasesFallOnce(class) ==
    IF class = "PAIR_REQ" THEN {"PAIR_REQ", "CRED_REQ", "RESP"}
    ELSE IF class = "CRED_REQ" THEN {"CRED_REQ", "RESP"}
    ELSE IF class = "VALIDATE_CODE_CLIENT"
         THEN {"VALIDATE_CODE_CLIENT", "VALIDATE_CODE_SERVER"} ELSE {class}

\* Missing breaks: PAIR_REQ falls to CRED_REQ, and that to RESP.
Cases(class) ==
    IF class = "PAIR_REQ" THEN {"PAIR_REQ", "CRED_REQ", "RESP"}
    ELSE IF class = "CRED_REQ" THEN {"CRED_REQ", "RESP"} ELSE {class}

RespTypes ==
    {Number[t] : t \in {"LOGIN_RESP", "REGISTER_RESP", "PAIR_RESP", "CODE_CHK_RESP",
                        "NOTIF_RESP", "NOTIF_LOGIN_RESP"}}

\* The number a case needs; the enums are bytes.
NumberFits(class, args) ==
    class \in Numbered =>
        /\ IsNumber(args[2])
        /\ class = "CRED_REQ" =>
               Stoi(args[2]) % 256 \in {Number.LOGIN_REQ, Number.REGISTER_REQ}
        /\ class = "RESP" => Stoi(args[2]) % 256 \in RespTypes

Build(class, args) ==
    LET flagAt == IF class \in Numbered THEN 3 ELSE 2
        first == IF class \in Flagged THEN flagAt + 1 ELSE flagAt
    IN Make(class,
            IF class \notin Numbered THEN 0
            ELSE IF class \in {"ERR", "CODE_RESP"} THEN Stoi(args[2])
            ELSE Stoi(args[2]) % 256,
            class \in Flagged /\ args[flagAt] = <<1>>,
            [i \in 1..Texts[class] |->
                IF first + i - 1 <= Len(args) THEN args[first + i - 1] ELSE <<>>])

\* At most one case fits.
Create(program, data) ==
    LET args == Split(data)
        fits == UNION {{k \in Cases(t) : /\ Accepts(program, k, Len(args))
                                         /\ NumberFits(k, args)} :
                       t \in {u \in DOMAIN Texts : /\ args # <<>> /\ IsNumber(args[1])
                                                   /\ Number[u] = Stoi(args[1]) % 256}}
    IN IF fits = {} THEN Nothing ELSE Build(CHOOSE k \in fits : TRUE, args)

-----------------------------------------------------------------------------
\* What each program sends to each

Conn(program, app) == Make("CONN", Entity[program], FALSE, <<app>>)
Resp(type, flag, msg, extra) == Make("RESP", Number[type], flag, <<msg, extra>>)
Plain(class, texts) == Make(class, 0, FALSE, texts)

\* Nothing keeps a text from starting with digits, and what follows it in a read
\* may do so too: 54 and 21 are 5421, in a byte NOTIF_RESP.
Users == {<<name>>, <<>>, <<5, 4>>}
Tokens == {<<text>>, <<4>>}
Codes == {<<text>>, <<4, 5, 4, 5, 4, 5>>}
Ids == {<<id>>, <<7>>}

Credentials ==
    {Make("CRED_REQ", Number[t], FALSE, <<u, <<text>> >>) :
        t \in {"LOGIN_REQ", "REGISTER_REQ"}, u \in Users}
CredentialAnswers ==
    {Resp(t, TRUE, <<>>, u) : t \in {"LOGIN_RESP", "REGISTER_RESP"}, u \in Users}
      \cup {Make("ERR", code, FALSE, << <<text>> >>) : code \in {300, 301, 302, 303}}
PairingAnswers ==
    {Resp("PAIR_RESP", TRUE, <<text>>, u) : u \in Users}
      \cup {Resp("PAIR_RESP", FALSE, <<>>, u) : u \in Users}
NotificationAnswers ==
    {Resp("NOTIF_LOGIN_RESP", b, <<id>>, u) : b \in BOOLEAN, u \in Users}

Sends ==
    (<<"A_CLIENT", "A_SERVER">> :> (
        {Conn("A_CLIENT", <<>>)} \cup Credentials
          \cup {Plain(t, <<>>) : t \in {"LOGOUT_REQ", "REQ_CODE_CLIENT", "EXIT_SCS"}}
          \cup {Plain("VALIDATE_CODE_CLIENT", <<t>>) : t \in Tokens}
          \cup {Resp("NOTIF_RESP", b, i, <<>>) : b \in BOOLEAN, i \in Ids}))
    @@ (<<"A_SERVER", "A_CLIENT">> :> (
        CredentialAnswers
          \cup {Plain("SEND_NOTIF", << <<text>>, <<id>> >>)}
          \cup {Make("CODE_RESP", n, FALSE, << <<text>> >>) : n \in {1, 30}}))
    @@ (<<"D_SERVER", "A_SERVER">> :> (
        {Conn("D_SERVER", <<id>>)}
          \cup {Plain("PAIR_REQ", <<u>>) : u \in Users}
          \cup {Plain("VALIDATE_CODE_SERVER", <<c, u, <<id>> >>) :
                  c \in Codes, u \in Users}
          \cup {Plain("REQ_NOTIF", <<u, i>>) : u \in Users, i \in Ids}))
    @@ (<<"A_SERVER", "D_SERVER">> :> (
        PairingAnswers \cup NotificationAnswers
          \cup {Make("VALIDATE_RESP_SERVER", 0, b, <<u, <<id>> >>) :
                  b \in BOOLEAN, u \in Users}))
    @@ (<<"D_CLIENT", "D_SERVER">> :> (
        {Conn("D_CLIENT", <<>>)} \cup Credentials
          \cup {Plain("PAIR_REQ", << <<>> >>), Plain("LOGOUT_REQ", <<>>)}
          \cup {Plain("VALIDATE_CODE_CLIENT", <<c>>) : c \in Codes}
          \cup {Plain("REQ_NOTIF", << <<name>>, <<>> >>)}))
    @@ (<<"D_SERVER", "D_CLIENT">> :> (
        CredentialAnswers \cup PairingAnswers \cup NotificationAnswers
          \cup {Resp("CODE_CHK_RESP", b, <<>>, u) : b \in BOOLEAN, u \in Users}))

\* A server sends to what connected to it.
Answering == link[1] = "A_SERVER" \/ link[2] = "D_CLIENT"

Bound == IF link[2] = "A_SERVER" THEN MaxRequests ELSE MaxOthers

\* The constructor of a ClientConnectionHandler sends CONN before anything
\* else, and the Dummy Client's console may send it again; the code view sends
\* EXIT_SCS, and only after the REQ_CODE_CLIENT that opened it.
MaySend(c) ==
    /\ c.class = "CONN" => ~shook \/ link[1] = "D_CLIENT"
    /\ c.class # "CONN" => shook \/ Answering
    /\ c.class = "EXIT_SCS" <=> last = "REQ_CODE_CLIENT"

Bytes(commands) ==
    FoldLeft(LAMBDA s, c : s \o Serialize(link[1], c), <<>>, commands)

-----------------------------------------------------------------------------

Init ==
    /\ link \in DOMAIN Sends
    /\ shook = FALSE /\ last = "none"
    /\ unread = <<>> /\ read = <<>> /\ got = Nothing

Send(c) ==
    /\ Len(unread) < Bound
    /\ MaySend(c)
    /\ shook' = (shook \/ c.class = "CONN")
    /\ last' = IF c.class = "REQ_CODE_CLIENT" THEN c.class ELSE "other"
    /\ unread' = Append(unread, c)
    /\ read' = <<>> /\ got' = Nothing
    /\ UNCHANGED link

Read ==
    /\ unread # <<>>
    /\ read' = unread /\ unread' = <<>>
    /\ got' = Create(link[2], Bytes(unread))
    /\ UNCHANGED <<link, shook, last>>

\* The connection goes away with what was not read, and another one is made.
Reconnect ==
    /\ shook' = FALSE /\ last' = "none"
    /\ unread' = <<>> /\ read' = <<>> /\ got' = Nothing
    /\ UNCHANGED link

Next == Read \/ Reconnect \/ \E c \in Sends[link] : Send(c)

Spec == Init /\ [][Next]_vars

-----------------------------------------------------------------------------
\* Properties

PairingOfNobody == Plain("PAIR_REQ", << <<>> >>)

\* A message that is read by itself is the command that was sent, in each of
\* the six directions, except that a Dummy Server's pairing of nobody, "5;",
\* is nothing.
ReadAlone ==
    Len(read) = 1 =>
        got = IF link[1] = "D_SERVER" /\ read[1] = PairingOfNobody
              THEN Nothing ELSE read[1]

\* A server's messages that are read together are nothing: an answer is lost
\* when the next one overtakes its reader, but never turned into another one.
AnswersNeverMerge ==
    Len(read) > 1 /\ Answering => got = Nothing

\* The requests of an Auth Client that are a number and nothing else.
Bare == {"LOGOUT_REQ", "REQ_CODE_CLIENT", "EXIT_SCS"}

\* What the Auth Server makes of an Auth Client's messages that are read
\* together is decided by the first one.  A handshake stays one, and makes no
\* Dummy Server of the client; a login, a token or an answer stays what it was,
\* with more digits at the end of its last text.  Only requests without a field
\* become another request, by the number their digits and the next ones' make
\* ("13", "13" and "33;x" are 131333;x, in a byte PAIR_REQ), and never a
\* handshake, a login, a registration or a token.
FirstMessageDecides ==
    Len(read) > 1 /\ link = <<"A_CLIENT", "A_SERVER">> /\ got # Nothing =>
        IF read[1].class \in Bare
        THEN got.class \in Bare \cup {"PAIR_REQ", "REQ_NOTIF", "VALIDATE_CODE_SERVER", "RESP"}
        ELSE /\ got.class = read[1].class
             /\ IF got.class = "CONN" THEN got.num # Entity.D_SERVER
                ELSE /\ got.num = read[1].num /\ got.flag = read[1].flag
                     /\ Front(got.texts) = Front(read[1].texts)

\* A Dummy Server's messages that are read together are nothing, but for two
\* cases.  The pairing of nobody as the second of two gives its digit to the
\* last text of the first: an application id, or the account of a pairing.  And
\* a pairing of an account whose name starts with digits may fall through to
\* RESP, whose type is those digits and the next message's number.
DummyServersMerge ==
    Len(read) > 1 /\ link = <<"D_SERVER", "A_SERVER">> /\ got # Nothing =>
        \/ /\ Len(read) = 2 /\ read[2] = PairingOfNobody
           /\ LET n == Len(read[1].texts) IN
              got = [read[1] EXCEPT !.texts[n] = @ \o <<Number.PAIR_REQ>>]
        \/ /\ read[1].class = "PAIR_REQ" /\ IsNumber(read[1].texts[1])
           /\ got.class = "RESP"
=============================================================================
