# Verification of idp-be

TLA+ models of the Infoteam identity provider (NestJS, PostgreSQL through Prisma,
Redis), the TLC configurations that check them on small instances, and TLAPS proofs.

## The system

| Component | State it keeps | Operations | Who it meets |
|---|---|---|---|
| OAuth server (`src/src/oauth`) | codes and access tokens in Redis (with a time to live); refresh tokens and consents in PostgreSQL | consent, authorize, token (three grants), revoke, userinfo | reads clients (ClientService) and users (UserService) |
| Clients (`src/src/client`) | Client rows, UserClientRelation rows (roles), picture objects | register, update, members and roles, ownership, secret, deletion request, picture | role guard; users by email; Slack; object store |
| Sessions (`src/src/auth`) | session tokens and passkey challenges in Redis, passkey counters | login, logout, refresh, passkey login, the JWT guard | users |
| Verification (`src/src/verify`) | mail and phone codes in Redis, signed verification tokens | send a code, validate it, student id | mail, SMS and the university's server |
| Accounts (`src/src/user`) | User and Authenticator rows, passkey challenges in Redis, picture objects | register, password, phone number, student id, passkeys, picture, deletion | verification tokens and codes; mail; object store; all rows of the user go with the user |
| Redis (`src/libs/redis`) | keys with prefix and expiry | SET EX, GET, DEL | shared by OAuth, sessions, verification, accounts |
| Mail, SMS, Slack, templates, logging, validation, health, discovery, bootstrap | none | | |

Node runs one handler at a time up to its next `await`; between two awaits of one request
any other request may run, and no service uses a transaction for more than one statement
except the transfer of a client's ownership. A handler that throws leaves behind what it
has stored so far. That is where the difficulty is: every operation of more than one
store call is a sequence of atomic steps with the other requests, user deletions, changed
settings, expiring keys and failures in between.

What makes each component correct:

* OAuth: a right over a user's data goes back to that user's consent through any chain of
  code, access token and refreshed tokens; a code is redeemed once, and a redemption leaves
  the client one refresh token; a refresh costs nobody the access they had; a deleted user is
  forgotten;
  the answers are the documented ones.
* Clients: one owner, and always one; who acts has the role that the action asks for; members
  exist.
* Sessions: a login is one session, which ends at logout and with the user and is not
  lost while the browser holds it; passkey counters do not fall.
* Verification and accounts: a stored email, a phone number or student id that counts as
  verified was proven; a code works once.
* Accounts: nobody is locked out, the last password somebody was told is the one that
  works, and it is what a change or a deletion asks for; a passkey answers a challenge of
  its user, one per challenge, and is its owner's to rename and remove.
* Pictures: a row names no deleted object, a link fits the row, what was taken down is gone,
  and a name never stands for two images.

## Modules

| Module | What it is |
|---|---|
| `Oauth` | the OAuth server, one action per store call |
| `Delegation` | what the OAuth server promises: rights appear under a consent and do not come back once lapsed |
| `ClientMembers` | one client's members, roles, secret and deletion request |
| `Sessions` | password and passkey logins, refreshed sessions, logout, the browser's cookie |
| `Verification` | codes, verification tokens, registration, phone numbers and student ids |
| `Accounts` | passwords (issued by mail, changed, asked for), passkeys and their registration |
| `Pictures` | the pictures of users and a client: rows, signed links, objects in the bucket |
| `Gallery` | what pictures promise: one per owner, none twice, none of somebody who left |
| `Registry` | what verification and registration promise: who enters was proven, nobody is overwritten |
| `OauthProofs`, `OauthRotationProofs`, `ClientMembersProofs`, `SessionsProofs`, `VerificationProofs`, `AccountsProofs`, `AccountsOverlapProofs`, `PicturesProofs` | theorems about these modules |
| `MCOauth`, `MCClientMembers`, `MCSessions`, `MCVerification`, `MCAccounts`, `MCPictures` | their instances for TLC |

The modules share what they have in common in the code, users and their deletion, each
with its own `users` and `DeleteUser`: the stores behind them have disjoint keys (Redis
prefixes, tables), so nothing else connects them.

### Oauth

`users`, `conf` (a client's scopes, optional scopes, id token flag and redirect URIs),
`consents` and `refresh` are the tables; `codes` and `access` the two Redis prefixes;
`req[r]` is what the request in slot `r` waits for, with the local variables the rest of
the handler needs; `agreed` is a history variable, every consent ever recorded, and `root`, a
field of a refresh token, the redemption it descends from: the code and the request that
presented it, which the code does not store. A token,
a code, a user and a scope are model values; "S256 or plain" comes down to "the verifier
fits the challenge".

A handler becomes a chain of actions: `consent` is `Consent` (with the read of the client)
and `UpsertConsent`; `authorize` is `Authorize`, `FindConsent`, `SetCode`; `codeGrant` is
`CodeGrant` (GET), `DelCode` (DEL, then the comparisons), `CodeSetToken`,
`CodeCreateRefresh`, `CodeIdToken`; `refreshTokenGrant` is `RefreshGrant`, `RotSetToken`,
`RotCreateRefresh`, `RotDelete`; `clientCredentialsGrant` is `ClientCredentials`,
`ClientSetToken`; `userinfo` is `Userinfo`, `InfoConsent`, `InfoUser`. `Reply` is the
arrival of a token answer: only then does a caller hold the tokens. `RevokeAccess`,
`RevokeRefresh`, `DeleteUser` and `UpdateClient` are one store call each. `Abort` ends
a request anywhere: a failing store call, a dying process or (from `Reply`) a lost answer.
`Tick` is the passing of time: Redis entries expire, rows only become too old.

A rejected request that changes nothing is a step that leaves the state alone, so it is
not an action. Anybody may present any code, a client presents only tokens that it was
given. Opaque tokens are drawn from a finite pool and a token is drawn again once nothing
refers to it, which is what 256 random bits amount to.

### ClientMembers

One client is followed: no operation touches two. `roles` are its UserClientRelation rows,
`secret` tells one secret from the next, `announced` and `deletion` are the Slack message
and `deleteRequestedAt`. The role guard's query is the first action of every request;
the handler's queries follow, one action each. The transaction of `transferOwnership` is
one action: its row locks leave no room in between.

Two history variables say when a promise is off: `contended` becomes true when a transfer of
the ownership and another change of roles (removal, role, transfer) are in flight together,
`crossed` when two transfers are. The owner is not lost as long as the first is false, and not
doubled as long as the second is.

### Sessions

`session` and `challenge` are the two Redis prefixes, `counter` the passkey rows, `cookie`
what a browser holds. `late` holds the sessions that `refresh` writes without `await`
(auth.service.ts:84): `WriteSession` does the write some time later, `LoseSession` is its
failure, of which nobody hears. One server instance has one connection to Redis, which
keeps the order of commands, so no command that names the new token overtakes its write;
several instances are not modelled.

`login` is `Login`, `SetSession`, `Reply`; `refresh` is `Refresh` (GET), `FindUser`,
`DelSession` and the late write; `logout` is `Logout`, `DelLogout`, `ReplyLogout`;
`verifyAuthentication` is `VerifyAuthentication` (GET of the challenge), `DelChallenge`,
`FindAuthenticator` (with the check of signature and counter), `UpdatePasskeyCounter`,
`SetSession`. A session carries the login it descends from (`root`), which the code does
not store. Two history variables say when a promise is off: `shared` are the roots with
requests that overlapped, `failed` those with a failed call or a lost answer.

The cookie's lifetime is given in milliseconds and the Redis entry's in seconds by one
number, so that the entry outlives the cookie; `LifetimesAssumption` asks only that it is
not the shorter one.

### Verification

`codes` holds the mail and phone codes in Redis, `tokens` the signed verification tokens,
`users` the columns of User that registration and verification write, the two flags
`isPhoneNumberVerified` and `isIdVerified` (here `phoneVerified`, `idVerified`) included; a
registration hands `createUser` a form without the second, and the row it becomes (`RowOf`)
has it set. The student id of somebody without a student's email is whatever the request says.
`proven` is a
history variable: what a person has shown to own, by entering a code that was sent there
or by the university's answer. A tick is a minute; a code has three (`3 * 60` seconds,
verify.service.ts:70). Codes are drawn from `Values` and may collide, as six digits may.
`validateCode` is `ValidateCode` (GET and comparison) and `DelCode`; `register` is
`Register` (the tokens are checked without a store) and `CreateUser`; `verifyPhoneNumber`
is `VerifyPhoneNumber`, `UpdatePhoneNumber`, `DelPhoneCode`. `sent`, `sends` and `uses`
count what the properties compare, and `spoiled` are the subjects with two overlapping
uses of a code or with a deletion that failed. The throttling of phone codes is left out.

### Accounts

`users` is the password column of User (a password stands for its hash), `passkeys` the
Authenticator rows, `challenge` the Redis prefix of registration, one entry per user. The
user's row is read by the guard of every endpoint but `issuePassword`, so the guard's read is
the first action where the handler uses that row: `changePassword` is `ChangePassword`
(compares with the guard's row) and `UpdateUserPassword`; `issuePassword` is
`IssuePassword` (read by email), `SendEmail`, `UpdateUserPassword`; `deleteUser` is
`CheckPassword` (its own read) and `DeleteUser`, with the cascade over the passkeys.
`registerOptions` is `RegisterOptions` and `SetChallenge`; `verifyRegistration` is
`VerifyRegistration`, `GetChallenge` (with the library's verification of the answer),
`DelChallenge`, `SaveAuthenticator`; `updatePasskey` and `deletePasskey` share
`GetAuthenticator` and end in a statement that names the credential only. `Register` is the
last step of a registration, which `Verification` has in full.

History variables: `known` and `last` are the passwords a person chose or was mailed, and the
last of them; `offered` says whom a challenge was drawn for, `reused` are the credential ids
that were saved for one user while another user's rename or removal of the same id was in
flight. The id of a credential is the caller's choice, under any challenge: the verification
without attestation does not bind one to the other. `spoiled` holds the
users whose requests about the password or the challenge overlapped, and those whose mailed
password could not be stored: the promises that this breaks are off for them. Temporary
passwords are random, so `FreshPasswords` are those nobody has seen; chosen ones are any. A
user is taken to have one email for good, and an address to be registered once; the handlers'
reads by email find the user the guard found.

### Pictures

`picture` is the column of User and of one Client, `stored` the bucket, `links` the signed
links that are valid and in somebody's hands. `updateUserPicture` and `updateClientPicture`
are `UpdatePicture` (the guards; signing a link asks nobody), `SetPicture` and `Reply`;
`Upload` is what the browser does with the link, `ExpireLink` its end. `deleteUserPicture`
is `DeleteUserPicture` (read), `ClearUserPicture`, `DelUserObject`: first the row, then an
object, under the fixed name of the code. `deleteClientPicture` is `DeleteClientPicture`
(guards and read), `DelClientObject`, `ClearClientPicture`: first the object, then the row,
on the condition that the caller is still a member. `members` are the client's links; roles
change at any time, so which role the guard finds is left open.

History variables: `past` are the names that were in a row, `deleted` those the bucket was
asked to delete, `contended` the owners with overlapping requests, `broken` those with a
deletion that ended halfway. Names have 128 random bits and are not drawn twice.

## Runs

All runs set `CHECK_DEADLOCK FALSE`: once all users are deleted, or while every token of
the finite pool is in use, nobody has to do anything more.

| Run | Checks | Instance |
|---|---|---|
| `Oauth_delegation` | `TypeOK`, `ImplementsDelegation`, `DeletedUserForgotten` under `FairSpec` | one request at a time, two attributes to consent to, a client that changes its scopes and whether it gets id tokens, failures, access tokens that outlive codes |
| `Oauth_races` | `CredentialsBacked`, `RowsReferenceUsers`, `DisclosureConsented`, `OneRefreshPerRedemption`, `NoLockout` | two requests, two clients, grants with and without an id token, failures, lost answers, three refresh tokens |
| `Oauth_replay` | `CodeRedeemedOnce` fails | two requests with one code |
| `Oauth_openid` | `RefreshAnswersIdToken` fails | one request |
| `ClientMembers_races` | `TypeOK`, `MembersExist`, `DeletionAnnounced`, `OneOwner`, `OwnershipKept` | three users, two requests, failures |
| `ClientMembers_removal` | `OwnerNotRemoved` fails | three users, two requests |
| `Sessions_tabs` | `TypeOK`, `OneSessionPerLogin`, `LogoutEndsSession`, `HeldSessionsAlive`, `CounterNeverFalls`, `DeletedUsersSignedOut` under `FairSpec` | two requests of one browser, failures, a password login and a passkey login, three tokens |
| `Verification_races` | `TypeOK`, `IdentitiesProven`, `StoredCodesWereSent`, `OneAccountPerEmail`, `CodesUsedOnce`, `ImplementsRegistry` | two requests, two users, a student's email and another, a Korean and a foreign number, failures |
| `Verification_student_id` | `StudentIdFlagProven` fails | the same |
| `Accounts` | `TypeOK`, `NeverLockedOut`, `NewestPasswordWorks`, `PasswordAskedFor`, `PasskeysAnswerOwnChallenge`, `OnePasskeyPerChallenge`, `ChallengeKept`, `PasskeysTouchedByOwner` | two requests, two users, three passwords, two credentials and challenges, failures |
| `Pictures_races` | `TypeOK`, `NoDanglingPicture`, `LinkFitsRow`, `ClientPictureTakenDown`, `ImplementsGallery` | two requests, two users and a client, two names, failures |
| `Pictures_takedown` | `UserPictureTakenDown` fails | one user, one request at a time, no failure |

What they show:

* `CredentialsBacked`: whatever runs in between, every stored or travelling right was
  agreed in one consent of that user for that client. `ImplementsDelegation` is finer: a
  right appears only while the present consent covers it, so a consent that is narrowed
  stops new codes at once (and leaves the old refresh tokens working).
  The run has one request at a time, with settings, deletions and failures in between; the
  theorem `Refinement` has any number of requests.
* `OneRefreshPerRedemption`: one redemption of a code leaves the client at most one refresh
  token. It is about what the client has or is being sent, not about rows: two refreshes of
  one token both store a new row, and so does one that is refused for its missing nonce or
  fails before the deletion, but only the request that finds the old row to delete gives its
  new token away. The other rows stay in the table until they are too old, and nobody can
  name them. A code can be redeemed twice (`Oauth_replay`), so a code as such promises less.
* `NoLockout` is what the order "create first, delete last" buys: a refresh token that a
  client has goes only by revocation, with its user, or when the client has or is being sent
  another one of the same redemption and grant that is good for as long. There is one
  exception, and the property names it: an answer that is lost after the old row was deleted
  leaves the client with nothing.
* `DeletedUserForgotten`, with the deletion between any two steps of a request, needs the time
  to live of the Redis entries, the cascade, and the foreign key that refuses what the
  request still inserts.
* `Oauth_openid`: no refresh token has a nonce, so the refresh of an openid grant is
  always refused, after its new tokens were stored.
* `DisclosureConsented` is what `userinfo` keeps: no answer about a user who never agreed
  to give the client anything. It says no more for a reason. With a client's own token
  the handler asks that the consented scopes are among the token's
  (oauth.service.ts:474-478) and then answers by the token's scopes, so the attributes
  answered may be more than the user's consent names.
* Ownership is kept, whatever fails and whatever else runs, unless `contended`.
  `ClientMembers_removal` is one way to lose it: a removal that read the role before a
  transfer removes the new owner. Two transfers that were both let in by the guard are
  another hazard: neither looks at the roles it replaces, and the client has two owners.
  That is the only way to get two (`OneOwner`, unless `crossed`): a transfer that overlaps a
  removal or another role may lose the owner, and doubles none.
  The guard's answer may be stale for other requests, too: the update of the secret looks for
  the caller's row whatever its role (client.repository.ts:118-133), so an admin who is made
  a member after the guard still resets the secret. No property says otherwise.
* `HeldSessionsAlive` needs no proviso about overlapping tabs: of two refreshes of one
  token both leave a live session, and whichever cookie stays names one of them. The
  price is in the others: an overlap may leave a second session behind (hence `shared`
  in `OneSessionPerLogin` and `LogoutEndsSession`), and a lost answer one that no cookie
  names (hence `failed` in `LogoutEndsSession`). A session whose write is on its way counts
  as alive: one connection to Redis keeps the order of commands. Two logins with one passkey
  that overlap may set the counter back, hence `shared` in `CounterNeverFalls`.
* `DeletedUsersSignedOut`: a browser that refreshes without end does not keep a deleted
  user's session, because the user is looked up before the new session is written.
* `IdentitiesProven` combines up to three tokens with two kinds of codes; it holds with
  every interleaving of registrations, phone verifications and deletions. It asks a proof of
  the student id of students only.
* `Verification_student_id`: the flag of the student id says more. Every registration stores
  it (user.repository.ts:133), also when no proof was asked for (user.service.ts:125), and
  `userinfo` answers it as `is_student_id_verified`.
* `CodesUsedOnce`: two endpoints use one kind of code, and each deletes it after its own
  work; one code works once unless two uses overlap or the deletion fails, after which the
  code can be used again (`spoiled`).
* `ImplementsRegistry`: seen from outside there are only people who prove something, enter
  with it, exchange a phone number or a student id for a proven one, and leave. A number
  takes its own flag along, an email stays, and no registration overwrites an account. The
  student id of a non-student is the exception: the registry takes it on trust, too, and
  marks it verified, as the code does.
* `NeverLockedOut` is what the order "mail first, store last" buys: a failure leaves a
  useless mail and the old password, never a password nobody knows. `NewestPasswordWorks`
  names the price: the last password told works unless two requests about the password
  overlapped or the mailed one was not stored, and nothing else makes it untrue.
* `PasswordAskedFor`: both comparisons are made with a row read before the statement that
  follows, and the statement's condition is the uuid alone; so a change or a deletion takes
  the password of that moment only if no other request about it overlaps. Under the same
  proviso the new password is the one that the request asked for, or one that was mailed.
* `PasskeysAnswerOwnChallenge` holds for every interleaving: the challenge is found by the
  user, not by the answer, and the foreign key refuses the passkey of a deleted user.
  `OnePasskeyPerChallenge` and `ChallengeKept` hold unless two requests about the user's
  challenge overlap: then two answers may pass the read, or a deletion may hit the newer
  challenge. `PasskeysTouchedByOwner` holds although the statement does not name the owner,
  but for one case: the passkey is removed between the comparison and the statement, and
  another user saves the same credential id (`reused`); then the statement touches that
  user's passkey.
* `NoDanglingPicture` and `ClientPictureTakenDown`: first the object, then the row, so a
  deletion that stops halfway leaves a row that names nothing, and never an image that is
  thought to be gone. What is deleted is the object of that moment: whoever still has a valid
  link for its name may upload it again. `LinkFitsRow`: the answer waits for the row. The
  first two except deletions that ended halfway (`broken`), the last two owners whose requests
  overlapped (`contended`).
* `Pictures_takedown`: the deletion of a user's picture deletes an object under a name
  without random part (user.service.ts:324), which no picture has (user.service.ts:286);
  the image stays in the bucket, and the row that named it is cleared. The image of a
  replaced picture stays as well, for users and clients; no doc says otherwise.
* `ImplementsGallery`: with overlapping requests, lost answers and links that outlive their
  rows, a name never returns to a row, so no late upload appears as somebody's new picture.

Bounds. Two slots give every interleaving of two requests, and each race of this code is
between two; three are checked nowhere. Two access tokens and two or three refresh or
session tokens let both requests hold one they drew and one they present. Lifetimes of one
or two ticks make every entry expire at any moment relative to the steps of a request. One
user is enough for the OAuth and session races, since no operation there relates two users;
the members' races need an owner, a target and a third, registrations two users for one
email, and passkeys and pictures a second user whose credential, or client, is touched. A
signature counter up to one distinguishes falling from growing. `MaxSends` bounds the codes
sent to a subject to one, with one value that two subjects may share; two slots still use it
at once, and the theorems about `Verification` hold for every bound and any number of slots.

`Oauth_delegation` has two attributes, so that a consent can be widened, narrowed and
exchanged, and pays for them with one slot: the deletion, the settings and the clock are
steps of their own, which come between any two of the request's. What a second request adds
to the refinement is in the theorem; what it could add to `DeletedUserForgotten` is another
right that runs out on the same terms, since nothing prolongs an entry that is stored.

In `Accounts` two credentials and two challenges are the least with which one may be taken
for the other, three passwords let one be replaced twice. The constraint `OneConcern` leaves
out behaviours in which somebody gets a second password and somebody draws a challenge: the
two halves of the module meet only in the deletion of a user, which is in both; the theorems
about `Accounts` do without it. In `Pictures` two names are one before and one after; a third
picture in one behaviour needs a third name, which `PicturesProofs` covers.
Users, clients, requests and what is drawn are symmetric in the safety runs as each MC module says;
the runs under `FairSpec` use no symmetry, which is why `Sessions_tabs` has one user. Its
action constraint `OneFails` lets failures hit the password login or the passkey login of a
behaviour, not both: the promises about either do without the other's failures.

Fairness. `FairSpec` assumes that time passes and that a request that waits for a store
call goes on: Node's event loop gets to every settled promise, and both stores answer or
fail. In `Sessions` the clock is strongly fair, because a tick waits there for answers and
late writes on their way: it is disabled again and again by a browser that goes on
refreshing, but time passes all the same. No caller is assumed to call.

## Proofs

All theorems hold for any users, clients, lifetimes, settings and any number of requests,
with the assumptions on the constants stated in the modules.

`OauthProofs`:

* `TypeCorrect`: `TypeOK`, inductive as it stands.
* `RowsCorrect`: `RowsReferenceUsers`, inductive with `TypeOK`: the insert checks the
  foreign key and the deletion takes the rows along.
* `BackedCorrect`: `CredentialsBacked`. It is not inductive alone. `BackedInv` adds that
  a request on a redemption's later steps is the code's client (`OwnClient`, because the
  access token takes its client from the request) and that a stored consent is in the
  history (`ConsentsAgreed`, because a code is issued from the consent).
* `DisclosureCorrect`: `DisclosureConsented`, from `BackedInv`: a user's token carries a
  right that was agreed, and a client's token passes a consent that is in the history.
* `Refinement`: `ImplementsDelegation`. The mapping takes the live rights to the grants
  that are stored or that a request may still store; every action either leaves them
  alone, adds one that the consent covers, or only removes some.

`OauthRotationProofs`, about refresh tokens:

* `AccessKept`: `NoLockout`. The old row goes last, so all depends on the new one still
  being there, unchanged. `RotationInv` says why: a refresh token that a request has drawn
  is named by no other request (`NamesApart`) and not held by anybody before the answer, so
  nobody can revoke or rotate it; the old row, as long as it is there, is the one that was
  read, because what a request still means to delete is not drawn again; and every row
  carries `offline_access`, so that no rotation skips the insertion (`CountsOn`).
* `OneRefreshCorrect`: `OneRefreshPerRedemption`, for any number of requests and whatever
  fails. `RootsInv` adds to `RotationInv` that a token that is being rotated is one the client
  has, as long as its row is there (`OldHeld`), so that the deletion that finds it takes the
  one refresh token the client had of this redemption; and that the descendants of a code
  begin with its redemption: a code that can still be redeemed has none (`CodesUnspent`), one
  that is about to be stored is new (`AsksFresh`), and a redemption in progress leads to its
  own new row and nothing else (`RedeemsFirst`).

`ClientMembersProofs`:

* `TypeCorrect` and `MembersCorrect`, inductive as they stand.
* `OwnerCorrect` (`OneOwner`) and `OwnershipCorrect` (`OwnershipKept`), from `OwnersInv`:
  `RequestsSound` says that requests are about a client that exists, that a plain change
  of role makes no owner, and that overlaps are in the history; `OwnersSound` that, as long as
  no two transfers overlapped, a transfer in flight was asked for by the only owner there is,
  and that, as long as no transfer overlapped another change, the member about to be changed
  or removed is not the owner. The first is what the guard checked, and the second that
  nothing has changed it since.
* `AnnouncedCorrect`: `DeletionAnnounced`, with the fact that whoever is about to mark the
  client has sent the message.

`SessionsProofs`:

* `TypeCorrect`: `TypeOK`.
* `CountersSafe`: `CounterNeverFalls`. `CounterInv` adds that overlaps are in the history
  (`OverlapsShared`) and that a counter about to be stored is no less than the one in the
  row, unless its request overlapped another login with the same passkey or another answer
  to the same challenge (`CountersChecked`).
* `OneSession` (`OneSessionPerLogin`) and `LogoutEnds` (`LogoutEndsSession`), from
  `SessionInv`. `TokenInv` is the freshness of tokens: one that a request has drawn is
  nobody's else, not written before its time and not in a cookie (`TokensPrivate`,
  `TokensUnwritten`, `LateApart`, `CookiesApart`), and cookies and answers name the login that
  the session has (`RootsFit`). `RootInv` is about one login as long as its requests neither
  overlapped nor failed: there is one token, in the store, in a late write or in the request
  that replaces it, and a logout finds no other session than the one it deletes
  (`LogoutsFit`). Histories forget a login only when nothing names it any more.
* `HeldSessions`: `HeldSessionsAlive`, from `HeldInv` and `TokenInv`. A session that is
  answered lives, or is written before anything can ask for it (`AnswersAlive`); a cookie
  expires no later than its session (`CookiesExpire`); and a cookie whose session is gone
  has an answer on its way that replaces it (`CookiesAnswered`).

`VerificationProofs`:

* `TypeCorrect`: `TypeOK`.
* `IdentitiesCorrect`: `IdentitiesProven`, which is about emails, students' student ids and
  phone numbers stored as verified, not about a non-student's student id. The strengthening
  follows an identity on its way into the row: what a token states was proven
  (`TokensProven`), and so was what a request in flight is about to write (`JobsProven`).
  `proven` only grows, so a token may be as old as it likes.
* `SentCorrect`: `StoredCodesWereSent`, with the code that is sent and not stored yet.
* `AccountsCorrect`: `OneAccountPerEmail`, from the unique column; the phone number and
  the student id are the only columns that change later.
* `UsedOnceCorrect`: `CodesUsedOnce`, by counting. Each code sent pays for one use: `CountInv`
  says that for a subject that is not spoiled (no two uses of its codes overlapped, and no
  deletion of one failed) the uses, the codes on their way into the
  store and one for a code that is stored or was matched and is not counted yet are no more
  than the codes sent (`Covered`). The requests on their way are finitely many at any time
  (a part of the invariant), so nothing is assumed of the number of slots.
* `Refinement`: `ImplementsRegistry`, from `EntersInv`, which is `IdentitiesCorrect`'s
  invariant and `EntersNew`: the user that a registration is about to create is nobody's,
  stored or on the way, so that the insert enters somebody and overwrites nobody. What the
  registry itself takes on trust, a non-student's student id with its flag, is not shown to
  be proven by it.

`AccountsProofs`:

* `TypeCorrect`: `TypeOK`.
* `NobodyLockedOut`: `NeverLockedOut`. `PasswordInv` adds `MailsTold`: a temporary password
  that is about to be stored was mailed, since the one comes after the other.
* `PasskeysCorrect`: `PasskeysAnswerOwnChallenge`, from `PasskeyInv`. `ChallengesOwn`: what
  Redis has for a user was drawn for that user; `JobsOwn`: so was what a registration past
  the comparison answers; `PasskeysOwn` and `OwnersExist` are the two halves of the goal.
* `TouchedCorrect`: `PasskeysTouchedByOwner`, from `OwnerInv`: whoever is about to rename or
  remove a passkey is its owner (`SameOwner`). The comparison made it so; the passkey keeps
  its owner as long as its row stays; and if it goes and somebody else saves the credential
  id again, that is in the history (`reused`).

`AccountsOverlapProofs`, about the promises that hold unless requests overlapped. Both
invariants say that an overlap is noticed (`Noticed`), so that a promise that stands has one
request about it under way at most, and then what that request knows:

* `NewestCorrect` (`NewestPasswordWorks`) and `AskedCorrect` (`PasswordAskedFor`), from
  `AskedInv`: the password that a request was given still is the one in the row (`OldsFit`);
  a mailed one that waits for its statement is the last that the user was told
  (`MailedLast`); and only while it waits is the row behind (`NewestOrMailed`). That a mailed
  one was mailed is `MailsTold` of `AccountsProofs`.
* `OnceCorrect` (`OnePasskeyPerChallenge`) and `KeptCorrect` (`ChallengeKept`), from `OnceInv`:
  the challenge of a passkey that is saved, or about to be, is neither stored nor on its way
  (`SavedGone`, `SavingGone`), and what a verified answer is about to delete is its own
  challenge (`AnswersFit`).

`PicturesProofs`:

* `TypeCorrect`: `TypeOK`.
* `DanglingCorrect` (`NoDanglingPicture`) and `TakenDownCorrect`
  (`ClientPictureTakenDown`), from `DeletedInv` over `NamesInv`: no name is in two rows
  (`Distinct`), none in a row is past (`PastGone`), a name that a request has read or written
  is in its row or past (`JobsNamed`), one that it is about to write is nobody else's
  (`JobsDrawn`); only names that the client's row had are deleted (`DeletedKnown`), and
  whoever is about to clear the row has deleted what it read there (`JobsKind`).
* `LinksCorrect`: `LinkFitsRow`, with the fact that overlaps are noticed (`Noticed`).
* `Refinement`: `ImplementsGallery`, from `NamesInv`: `SetPicture` shows a name that was
  neither shown nor past, the clearing statements hide, the rest stutters.

Every invariant and every action property that a passing run checks is a theorem.
Model-checked only: `DeletedUserForgotten` and `DeletedUsersSignedOut`, because liveness under
fairness is beyond the prover. The runs that expect a
violation state what the code does not do; a counterexample needs no proof.

## Not modelled, and the plan

Left out for good: mail, SMS and Slack as services, templates, logging, input validation,
throttling of phone codes, health, discovery and bootstrap; the text of id tokens and of
answers; names, descriptions and dates of rows. The lifetimes that are documented
otherwise than they are set (phone and mail codes: three minutes in verify.service.ts:70, five in
verify.controller.ts:61 and :106; refresh tokens: thirty days in oauth.repository.ts:13,
three months in the answer; sessions: one number in seconds and in milliseconds) are pairs of
constants that no step of the program compares, so a model could only write them down again;
they are listed as hazards.

Not followed: an address that is registered again by somebody else while a request that the
guard let in reads the user by email (user.controller.ts:297); several server instances; more
than one client in `ClientMembers` and `Pictures`.

Next, in this order:

1. An abstract specification of `Sessions` (a login is open, is closed, and is not opened
   again) and of `ClientMembers` (a client with one owner at a time), and their refinements,
   with the overlaps as the steps where the promise is off.
2. The safety half of the liveness properties as theorems: once a user is deleted no new
   right is stored that outlives the requests in flight, and every entry that the deletion
   leaves behind only grows older.

The runs are kept few: a run of a new module takes the place of one whose question another
run can answer as well.
