-------------------------------- MODULE MCData --------------------------------
(***************************************************************************)
(* The instances of the components whose state is data that operations     *)
(* change one after the other, in one model: part says which component     *)
(* moves in a behaviour.  They have no variable in common, so that letting *)
(* them interleave would add states and no case.                           *)
(***************************************************************************)
EXTENDS Labels, NetCtl, ManagerStatus, Sessions, Addresses, Contacts, MailStore,
        ImportMail, Cards, SendPackages, Unlock, AuthProxy, RateLimit,
        ChunkedCalls

VARIABLE part

dataVars ==
    <<part, labelVars, netVars, statusVars, sessionVars, addressVars, contactVars, storeVars,
      importVars, cardVars, sendVars, unlockVars, proxyVars, rateVars, chunkVars>>

\* Values of the constants.
OneUser == [l \in Logins |-> "u1"]
OwnerOf == <<"u1", "u1", "u2">>
TwoAndOne == ("h1" :> 2) @@ ("h2" :> 1)

\* A component that does not move needs no more than one initial state.
OneLiteral == part # "import" => literal = CHOOSE l \in Literals : TRUE
OneCard == part # "cards" => card.type = CHOOSE type \in CardTypes : TRUE
OneDraft == part # "send" => draftAtts = {}

DataInit ==
    /\ part \in {"labels", "net", "status", "sessions", "addresses", "contacts", "store",
                 "import", "cards", "send", "unlock", "proxy", "rate", "chunks"}
    /\ ImportMailInit /\ OneLiteral
    /\ CardsInit /\ OneCard
    /\ SendInit /\ OneDraft
    /\ LabelsInit /\ NetInit /\ StatusInit /\ SessionsInit /\ AddressesInit /\ ContactsInit
    /\ StoreInit /\ UnlockInit /\ ProxyInit /\ RateInit /\ ChunkedInit

LabelsStep ==
    /\ part = "labels" /\ LabelsNext
    /\ UNCHANGED <<part, netVars, statusVars, sessionVars, addressVars, contactVars, storeVars,
                   importVars, cardVars, sendVars, unlockVars, proxyVars, rateVars, chunkVars>>

NetStep ==
    /\ part = "net" /\ NetNext
    /\ UNCHANGED <<part, labelVars, statusVars, sessionVars, addressVars, contactVars, storeVars,
                   importVars, cardVars, sendVars, unlockVars, proxyVars, rateVars, chunkVars>>

StatusStep ==
    /\ part = "status" /\ StatusNext
    /\ UNCHANGED <<part, labelVars, netVars, sessionVars, addressVars, contactVars, storeVars,
                   importVars, cardVars, sendVars, unlockVars, proxyVars, rateVars, chunkVars>>

SessionsStep ==
    /\ part = "sessions" /\ SessionsNext
    /\ UNCHANGED <<part, labelVars, netVars, statusVars, addressVars, contactVars, storeVars,
                   importVars, cardVars, sendVars, unlockVars, proxyVars, rateVars, chunkVars>>

AddressesStep ==
    /\ part = "addresses" /\ AddressesNext
    /\ UNCHANGED <<part, labelVars, netVars, statusVars, sessionVars, contactVars, storeVars,
                   importVars, cardVars, sendVars, unlockVars, proxyVars, rateVars, chunkVars>>

ContactsStep ==
    /\ part = "contacts" /\ ContactsNext
    /\ UNCHANGED <<part, labelVars, netVars, statusVars, sessionVars, addressVars, storeVars,
                   importVars, cardVars, sendVars, unlockVars, proxyVars, rateVars, chunkVars>>

StoreStep ==
    /\ part = "store" /\ StoreNext
    /\ UNCHANGED <<part, labelVars, netVars, statusVars, sessionVars, addressVars, contactVars,
                   importVars, cardVars, sendVars, unlockVars, proxyVars, rateVars, chunkVars>>

ImportMailStep ==
    /\ part = "import" /\ ImportMailNext
    /\ UNCHANGED <<part, labelVars, netVars, statusVars, sessionVars, addressVars, contactVars,
                   storeVars, cardVars, sendVars, unlockVars, proxyVars, rateVars, chunkVars>>

CardsStep ==
    /\ part = "cards" /\ CardsNext
    /\ UNCHANGED <<part, labelVars, netVars, statusVars, sessionVars, addressVars, contactVars,
                   storeVars, importVars, sendVars, unlockVars, proxyVars, rateVars, chunkVars>>

SendStep ==
    /\ part = "send" /\ SendNext
    /\ UNCHANGED <<part, labelVars, netVars, statusVars, sessionVars, addressVars, contactVars,
                   storeVars, importVars, cardVars, unlockVars, proxyVars, rateVars, chunkVars>>

UnlockStep ==
    /\ part = "unlock" /\ UnlockNext
    /\ UNCHANGED <<part, labelVars, netVars, statusVars, sessionVars, addressVars, contactVars,
                   storeVars, importVars, cardVars, sendVars, proxyVars, rateVars, chunkVars>>

ProxyStep ==
    /\ part = "proxy" /\ ProxyNext
    /\ UNCHANGED <<part, labelVars, netVars, statusVars, sessionVars, addressVars, contactVars,
                   storeVars, importVars, cardVars, sendVars, unlockVars, rateVars, chunkVars>>

RateStep ==
    /\ part = "rate" /\ RateNext
    /\ UNCHANGED <<part, labelVars, netVars, statusVars, sessionVars, addressVars, contactVars,
                   storeVars, importVars, cardVars, sendVars, unlockVars, proxyVars, chunkVars>>

ChunkedStep ==
    /\ part = "chunks" /\ ChunkedNext
    /\ UNCHANGED <<part, labelVars, netVars, statusVars, sessionVars, addressVars, contactVars,
                   storeVars, importVars, cardVars, sendVars, unlockVars, proxyVars, rateVars>>

DataNext ==
    \/ LabelsStep \/ NetStep \/ StatusStep \/ SessionsStep \/ AddressesStep
    \/ ContactsStep \/ StoreStep \/ ImportMailStep \/ CardsStep
    \/ SendStep \/ UnlockStep \/ ProxyStep \/ RateStep \/ ChunkedStep

DataSpec == DataInit /\ [][DataNext]_dataVars
==============================================================================
