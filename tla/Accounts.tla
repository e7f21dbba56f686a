------------------------------ MODULE Accounts ------------------------------
(***************************************************************************)
(* Registration, login and tokens: RegisterUseCase, LoginUseCase,          *)
(* ValidateTokenUseCase and AuthService over the table users.  A client    *)
(* is a person with an address and a password of its own; a step is one    *)
(* awaited repository call with what surrounds it.                         *)
(***************************************************************************)
EXTENDS Tables

CONSTANTS Client,    \* those who register
          Emails,    \* the addresses they may have
          Password,  \* the length of their passwords
          FullName   \* and of their names

\* AuthValidationService.  A request that does not pass is refused before it
\* touches anything, so the requests considered pass; an address is taken to
\* be well formed.
ValidLogin(email, password) == email \in Name /\ password \in 8 .. 100
ValidName(name) == name \in 1 .. 50
ValidRegistration(email, password, name) ==
    ValidLogin(email, password) /\ ValidName(name)

ASSUME ClientAssumption == Client \subseteq Writer /\ "users" \in Unique
ASSUME DtoAssumption ==
    \A email \in Emails, c \in Client :
        ValidRegistration(email[c], Password[c], FullName[c])

VARIABLES email,     \* the address of each client
          step,      \* what a client awaits, or whether it is logged in
          userId     \* the id its request or its token carries, else 0

clientVars == <<email, step, userId>>
NoId == 0

To(c, l, i) ==
    /\ step' = [step EXCEPT ![c] = l]
    /\ userId' = [userId EXCEPT ![c] = i]
    /\ UNCHANGED email

ClientsInit ==
    /\ email \in Emails
    /\ step = [c \in Client |-> "out"]
    /\ userId = [c \in Client |-> NoId]

----------------------------------------------------------------------------
\* RegisterUseCase: findByEmail finds nobody, the password is hashed.  When it
\* finds somebody the request is refused and nothing has happened.
Register(c) ==
    /\ step[c] = "out"
    /\ ~Named("users", email[c])
    /\ To(c, "insert", NoId)
    /\ UNCHANGED <<rows, nextId, drawn>>

\* UserRepository.save of a user without id.
SaveUser(c) ==
    /\ step[c] = "insert"
    /\ Insert("users", email[c], c)
    /\ IF NameTaken("users", email[c])
       THEN To(c, "out", NoId)
       ELSE To(c, "sign", nextId["users"])

\* Mutant: the newest id is signed.
NewestId(c) == nextId["users"] - 1

\* AuthService.register and login: both tokens carry the id and the address.
SignedId(c) == userId[c]

Sign(c) ==
    /\ step[c] = "sign"
    /\ To(c, "in", SignedId(c))
    /\ UNCHANGED <<rows, nextId, drawn>>

\* verifyPassword: the hash in a row is of the password of whoever wrote it.
PasswordFits(c, i) == rows["users"][i].by = c

\* LoginUseCase: findByEmail, verifyPassword; else the request is refused.
Login(c) ==
    /\ step[c] = "out"
    /\ \E i \in Id : /\ rows["users"][i].name = email[c]
                     /\ PasswordFits(c, i)
                     /\ To(c, "sign", i)
    /\ UNCHANGED <<rows, nextId, drawn>>

\* A call is rejected, or its process dies.  Signing that fails leaves the row
\* of a registration behind.
RequestFails(c) ==
    /\ step[c] \in {"insert", "sign"}
    /\ To(c, "out", NoId)
    /\ UNCHANGED <<rows, nextId, drawn>>

\* The token expires; until then refreshToken makes new ones of the same id
\* and address without a look at the table.  logout does nothing.
TokenExpires(c) ==
    /\ step[c] = "in"
    /\ To(c, "out", NoId)
    /\ UNCHANGED <<rows, nextId, drawn>>

\* ValidateTokenUseCase: findById of the id in the token.
ValidateToken(c) == rows["users"][userId[c]]
=============================================================================
