SPECIFICATION Spec
INVARIANTS DraftComplete ReportIsTrue CommentOnce
PROPERTIES ClicksOnce RunEnds
