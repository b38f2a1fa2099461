---- MODULE Forms ----
(***************************************************************************)
(* The forms of the web application that send a transaction.  What is      *)
(* typed is checked at every change and enables the button; a click takes  *)
(* what is typed, asks the wallet for the account, and sends it when the   *)
(* account is known; the hash of the transaction, which may come while     *)
(* something else is typed already, resets the form.  One form is looked   *)
(* at, from the moment its page is opened.                                 *)
(***************************************************************************)
EXTENDS Naturals, FiniteSets

CONSTANT MaxRequests  \* bounds the clicks whose transaction is not over

VARIABLES
  form,       \* the form that is open
  typed,      \* what its fields hold
  enabled,    \* its button is enabled
  requests    \* clicks under way, each with its input and how far it came

formsVars == <<form, typed, enabled, requests>>

AddressForms == {"AuthorizeParty", "StartProcess", "CreateProduct"}
InfoForms == {"SaveMachineInfo", "SaveProductInfo"}
AllForms == AddressForms \cup InfoForms \cup {"RequestReading"}

\* What fields can hold, told apart as far as the checks do: nothing (or one of two
\* fields empty), something that is no address, and two things that can be sent.
inputs(f) == {"empty", "one", "other"} \cup (IF f \in AddressForms THEN {"malformed"} ELSE {})

FormsInit ==
  /\ form \in AllForms
  /\ typed = "empty" /\ enabled = FALSE /\ requests = {}

----
\* AddressInput: the network is known, so that only the address decides.
isAddress(i) == i \notin {"empty", "malformed"}

\* InfoInput: a name and a value.
isInfo(i) == i # "empty"

typesAddress(i) ==
  /\ form \in AddressForms
  /\ typed' = i /\ enabled' = isAddress(i)
  /\ UNCHANGED <<form, requests>>

typesInfo(i) ==
  /\ form \in InfoForms
  /\ typed' = i /\ enabled' = isInfo(i)
  /\ UNCHANGED <<form, requests>>

\* A type once chosen stays chosen.
choosesReading(i) ==
  /\ form = "RequestReading" /\ i # "empty"
  /\ typed' = i /\ enabled' = TRUE
  /\ UNCHANGED <<form, requests>>

----
request(i, step) == [input |-> i, step |-> step]

\* Equal clicks whose transactions came equally far count as one.
clicks(f) ==
  /\ form = f /\ enabled
  /\ requests' = requests \cup {request(typed, "account")}
  /\ Cardinality(requests') <= MaxRequests
  /\ UNCHANGED <<form, typed, enabled>>

onAuthorizeButtonClicked == clicks("AuthorizeParty")
onStartClicked == clicks("StartProcess")
onCreateButtonClicked == clicks("CreateProduct")
onSaveMachineInfoClicked == clicks("SaveMachineInfo")
onSaveProductInfoClicked == clicks("SaveProductInfo")
onRequestButtonClicked == clicks("RequestReading")

\* A mutation: the fields are read when the account is known.
sendsNow(r) ==
  /\ r.step = "account"
  /\ requests' = (requests \ {r}) \cup {request(typed, "sent")}
  /\ UNCHANGED <<form, typed, enabled>>

\* The account is known and the transaction sent; when there is none, or the
\* transaction fails, the form stays as it is.
sends(r) ==
  /\ r.step = "account"
  /\ requests' = (requests \ {r}) \cup {request(r.input, "sent")}
  /\ UNCHANGED <<form, typed, enabled>>

fails(r) ==
  /\ requests' = requests \ {r}
  /\ UNCHANGED <<form, typed, enabled>>

\* resetInputs when the hash is known.  The form of a product's information has no
\* initial state to go back to: its fields are emptied, its button stays enabled.
resetInputs(r) ==
  /\ r.step = "sent" /\ form # "RequestReading"
  /\ requests' = (requests \ {r}) \cup {request(r.input, "hashed")}
  /\ typed' = "empty"
  /\ enabled' = (form = "SaveProductInfo" /\ enabled)
  /\ UNCHANGED form

\* The form of readings keeps its choice.
hashKnown(r) ==
  /\ r.step = "sent" /\ form = "RequestReading"
  /\ requests' = (requests \ {r}) \cup {request(r.input, "hashed")}
  /\ UNCHANGED <<form, typed, enabled>>

FormsNext ==
  \/ \E i \in inputs(form) : typesAddress(i) \/ typesInfo(i) \/ choosesReading(i)
  \/ onAuthorizeButtonClicked \/ onStartClicked \/ onCreateButtonClicked
  \/ onSaveMachineInfoClicked \/ onSaveProductInfoClicked \/ onRequestButtonClicked
  \/ \E r \in requests : sends(r) \/ fails(r) \/ resetInputs(r) \/ hashKnown(r)

FormsSpec == FormsInit /\ [][FormsNext]_formsVars

----
(***************************************************************************)
(* Nothing is sent but what passed the form's check, whatever is typed, or *)
(* reset by an earlier transaction, between the click and the sending.     *)
(* The form of a product's information is left out: after a first save it  *)
(* sends an empty name and value.                                          *)
(***************************************************************************)
SentInputsAreValid ==
  form # "SaveProductInfo" =>
    \A r \in requests :
      r.step # "account" => IF form \in AddressForms THEN isAddress(r.input) ELSE isInfo(r.input)
====
