------------------------------ MODULE MCPages ------------------------------
(***************************************************************************)
(* The pages of the web client, one open at a time: the router unmounts a  *)
(* page with its state before it mounts the next, so their steps never     *)
(* interleave.  `scene` is that page; the variables of the others stay.        *)
(***************************************************************************)
EXTENDS Todo, Chats, HHConnect, Vacancies, SenderPages, Shell, CaptchaModal

VARIABLE scene      \* the page that is open

Scenes == {"todo", "chats", "connect", "vacancies", "sender", "shell", "captcha"}

pagesVars == <<scene, todoVars, chatsVars, connectVars, vacanciesVars, senderVars, shellVars, captchaVars>>

PagesInit ==
    /\ scene \in Scenes
    /\ TodoInit /\ ChatsInit /\ ConnectInit /\ VacanciesInit /\ SenderPagesInit /\ ShellInit /\ CaptchaInit
    \* only the open page's first states are told apart
    /\ scene # "chats" => deepLink = NoChat
    /\ scene # "connect" => ~connected
    /\ scene # "vacancies" => \A v \in Vacancies : pipeline[v].status = CHOOSE s \in InitStatuses : TRUE
    /\ scene # "sender" => path = "run"
    /\ scene # "shell" => ~onboarded

PagesNext ==
    \/ scene = "todo" /\ TodoNext
         /\ UNCHANGED <<scene, chatsVars, connectVars, vacanciesVars, senderVars, shellVars, captchaVars>>
    \/ scene = "chats" /\ ChatsNext
         /\ UNCHANGED <<scene, todoVars, connectVars, vacanciesVars, senderVars, shellVars, captchaVars>>
    \/ scene = "connect" /\ ConnectNext
         /\ UNCHANGED <<scene, todoVars, chatsVars, vacanciesVars, senderVars, shellVars, captchaVars>>
    \/ scene = "vacancies" /\ VacanciesNext
         /\ UNCHANGED <<scene, todoVars, chatsVars, connectVars, senderVars, shellVars, captchaVars>>
    \/ scene = "sender" /\ SenderPagesNext
         /\ UNCHANGED <<scene, todoVars, chatsVars, connectVars, vacanciesVars, shellVars, captchaVars>>
    \/ scene = "shell" /\ ShellNext
         /\ UNCHANGED <<scene, todoVars, chatsVars, connectVars, vacanciesVars, senderVars, captchaVars>>
    \/ scene = "captcha" /\ CaptchaNext
         /\ UNCHANGED <<scene, todoVars, chatsVars, connectVars, vacanciesVars, senderVars, shellVars>>

\* The fairness of each page that has some, while it is the one open.
PagesFairness ==
    /\ WF_connectVars(scene = "connect" /\ PollTick)
    /\ WF_connectVars(scene = "connect" /\ \E p \in polls : PollServed(p))
    /\ WF_connectVars(scene = "connect" /\ \E p \in polls : PollAnswered(p))
    /\ WF_senderVars(scene = "sender" /\ RunPollTick)
    /\ WF_senderVars(scene = "sender" /\ RunEffect)
    /\ WF_senderVars(scene = "sender" /\ \E i \in DOMAIN calls : Serve(i))
    /\ WF_senderVars(scene = "sender" /\ \E i \in DOMAIN calls : Answered(i))
    /\ WF_shellVars(scene = "shell" /\ StatusPoll)
    /\ WF_shellVars(scene = "shell" /\ StatusRead)
    /\ WF_shellVars(scene = "shell" /\ StatusAnswered)

PagesSpec == PagesInit /\ [][PagesNext]_pagesVars /\ PagesFairness

\* The type invariants of the pages.
PagesTypeOK ==
    /\ TodoTypeOK /\ ChatsTypeOK /\ ConnectTypeOK /\ VacanciesTypeOK
    /\ SenderPagesTypeOK /\ ShellTypeOK /\ CaptchaTypeOK
=============================================================================
